------------------------ MODULE PrompterSaver_proofs ------------------------
(***************************************************************************)
(* What holds of the prompter's saver for every value of its constants.    *)
(*                                                                         *)
(* In this order: the types; the glass (GlassInv: where the newest place   *)
(* is, by its number); the phases of the thread, a flush and a stop        *)
(* (PhasesInv); the look and the archive's look (LookInv, RestoreInv:      *)
(* what holds unless a restore wrote the disk since); and why a save is    *)
(* due (DueInv).                                                           *)
(***************************************************************************)
EXTENDS PrompterSaver, TLAPS

(* The operations on a slot return a slot.                                 *)
LEMMA SlotOperations ==
    ASSUME NEW S, NEW sl \in SlotType(S), None \notin Numbered(S)
    PROVE  /\ Emptied(sl) \in SlotType(S)
           /\ Deduped(sl) \in SlotType(S)
           /\ \A b : Marked(sl, b) \in SlotType(S)
           /\ \A h \in Numbered(S), due \in {"now", "later"} : HandOver(sl, h, due) \in SlotType(S)
           /\ DueNow(sl) \in SlotType(S)
           /\ Unsettled(sl) \in SlotType(S)
           /\ \A b \in Waiting(S), landed \in BOOLEAN : Settled(sl, b, landed) \in SlotType(S)
           /\ \A all \in BOOLEAN : TakenFrom(sl, all) \in Waiting(S)
<1> USE DEF SlotType, Waiting, Numbered
<1>1. Emptied(sl) \in SlotType(S)
  BY DEF Emptied
<1>2. Deduped(sl) \in SlotType(S)
  BY <1>1 DEF Deduped
<1>3. \A b : Marked(sl, b) \in SlotType(S)
  BY DEF Marked
<1>4. \A h \in Numbered(S), due \in {"now", "later"} : HandOver(sl, h, due) \in SlotType(S)
  BY DEF HandOver
<1>5. DueNow(sl) \in SlotType(S)
  BY DEF DueNow
<1>6. Unsettled(sl) \in SlotType(S)
  BY <1>1 DEF Unsettled
<1>7. \A b \in Waiting(S), landed \in BOOLEAN : Settled(sl, b, landed) \in SlotType(S)
  BY <1>1 DEF Settled
<1>8. \A all \in BOOLEAN : TakenFrom(sl, all) \in Waiting(S)
  BY DEF TakenFrom
<1> QED BY <1>1, <1>2, <1>3, <1>4, <1>5, <1>6, <1>7, <1>8

LEMMA NoneIsNoSave ==
    None \notin Numbered(GlassSaves) /\ None \notin Numbered(LookSaves)
BY ConstantsAssumption

LEMMA WrittenDiskType ==
    ASSUME disk \in DiskType, NEW b \in BatchType
    PROVE  WrittenDisk(b) \in DiskType
<1>1. CASE Lands(b)
  BY <1>1, NoneIsNoSave DEF DiskType, BatchType, WrittenDisk, Lands, Waiting, Numbered, GlassSaves
<1>2. CASE ~Lands(b)
  BY <1>2 DEF DiskType, BatchType, WrittenDisk, Waiting, Numbered
<1> QED BY <1>1, <1>2

(***************************************************************************)
(* Type correctness.                                                       *)
(***************************************************************************)
LEMMA WriteHereType ==
    ASSUME TypeOK, NEW g \in SlotType(GlassSaves), NEW l \in SlotType(LookSaves),
           WriteHere(g, l)
    PROVE  /\ glass' \in SlotType(GlassSaves) /\ look' \in SlotType(LookSaves)
           /\ disk' \in DiskType /\ retry' \in BOOLEAN /\ recent' \in BOOLEAN
           /\ lost' \in BOOLEAN /\ failures' \in Nat
<1> DEFINE dg == Deduped(g)
           dl == Deduped(l)
           b == BatchOf(dg, dl, TRUE)
<1>1. dg \in SlotType(GlassSaves) /\ dl \in SlotType(LookSaves)
  BY SlotOperations, NoneIsNoSave
<1>2. b \in BatchType
  BY <1>1, SlotOperations, NoneIsNoSave DEF BatchOf, BatchType
<1>3. /\ Marked(dg, b.glass) \in SlotType(GlassSaves)
      /\ Marked(dl, b.look) \in SlotType(LookSaves)
  BY <1>1, SlotOperations, NoneIsNoSave
<1>4. Lands(b) \in BOOLEAN
  BY DEF Lands
<1>5. b.glass \in Waiting(GlassSaves) /\ b.look \in Waiting(LookSaves)
  BY <1>2 DEF BatchType
<1>6. /\ Settled(Marked(dg, b.glass), b.glass, Lands(b)) \in SlotType(GlassSaves)
      /\ Settled(Marked(dl, b.look), b.look, TRUE) \in SlotType(LookSaves)
      /\ Unsettled(Marked(dg, b.glass)) \in SlotType(GlassSaves)
      /\ Unsettled(Marked(dl, b.look)) \in SlotType(LookSaves)
  BY <1>3, <1>4, <1>5, SlotOperations, NoneIsNoSave
<1>7. disk \in DiskType /\ WrittenDisk(b) \in DiskType
  BY <1>2, WrittenDiskType DEF TypeOK, DiskType
<1> HIDE DEF dg, dl, b
<1>8. /\ retry \in BOOLEAN /\ recent \in BOOLEAN /\ lost \in BOOLEAN /\ stopping \in BOOLEAN
      /\ failures \in Nat /\ failures + 1 \in Nat
  BY DEF TypeOK
<1>9. CASE glass' = dg /\ look' = dl /\ UNCHANGED <<disk, retry, recent, failures, lost>>
  <2>1. retry' = retry /\ recent' = recent /\ lost' = lost /\ failures' = failures /\ disk' = disk
    BY <1>9
  <2> QED BY <1>1, <1>7, <1>8, <1>9, <2>1, Zenon
<1>10. CASE /\ glass' = Settled(Marked(dg, b.glass), b.glass, Lands(b))
            /\ look' = Settled(Marked(dl, b.look), b.look, TRUE)
            /\ disk' = WrittenDisk(b) /\ retry' = FALSE /\ recent' = TRUE
            /\ UNCHANGED <<failures, lost>>
  <2>1. lost' = lost /\ failures' = failures
    BY <1>10
  <2> QED BY <1>6, <1>7, <1>8, <1>10, <2>1, Zenon
<1>11. CASE /\ failures' = failures + 1
            /\ glass' = Unsettled(Marked(dg, b.glass))
            /\ look' = Unsettled(Marked(dl, b.look))
            /\ retry' = TRUE /\ recent' = TRUE /\ lost' = (lost \/ stopping) /\ UNCHANGED disk
  <2>1. disk' = disk
    BY <1>11
  <2>2. lost' \in BOOLEAN
    BY <1>11, Zenon
  <2> QED BY <1>6, <1>7, <1>8, <1>11, <2>1, <2>2, Zenon
<1> QED BY <1>9, <1>10, <1>11, Zenon DEF WriteHere, dg, dl, b

LEMMA HandedOverType ==
    ASSUME TypeOK, NEW g \in SlotType(GlassSaves), NEW l \in SlotType(LookSaves),
           HandedOver(g, l)
    PROVE  /\ glass' \in SlotType(GlassSaves) /\ look' \in SlotType(LookSaves)
           /\ disk' \in DiskType /\ retry' \in BOOLEAN /\ recent' \in BOOLEAN
           /\ lost' \in BOOLEAN /\ failures' \in Nat
           /\ asleep' \in SleepType
<1>1. CASE threaded
  <2>1. /\ glass' = g /\ look' = l /\ asleep' = NobodySleeps
        /\ retry' = retry /\ recent' = recent /\ disk' = disk /\ lost' = lost
        /\ failures' = failures
    BY <1>1 DEF HandedOver
  <2>2. /\ retry \in BOOLEAN /\ recent \in BOOLEAN /\ lost \in BOOLEAN
        /\ failures \in Nat /\ disk \in DiskType
    BY DEF TypeOK, DiskType
  <2>3. NobodySleeps \in SleepType
    BY DEF NobodySleeps, SleepType
  <2> QED BY <2>1, <2>2, <2>3, Zenon
<1>2. CASE ~threaded
  <2>1. WriteHere(g, l) /\ UNCHANGED asleep
    BY <1>2 DEF HandedOver
  <2> QED BY <2>1, WriteHereType DEF TypeOK
<1> QED BY <1>1, <1>2

(* What keep_glass and keep_look may change.                               *)
KeepType ==
    /\ glass' \in SlotType(GlassSaves) /\ look' \in SlotType(LookSaves)
    /\ disk' \in DiskType /\ retry' \in BOOLEAN /\ recent' \in BOOLEAN
    /\ lost' \in BOOLEAN /\ failures' \in Nat /\ handed' \in Nat
    /\ asleep' \in SleepType
    /\ rushed' \in [glass : BOOLEAN, look : BOOLEAN]
    /\ kept' \in BatchType

LEMMA IgnoredType ==
    ASSUME TypeOK, Ignored, handed' \in Nat
    PROVE  KeepType
BY DEF TypeOK, Ignored, KeepType

LEMMA KeepGlassType ==
    ASSUME TypeOK, NEW save \in GlassSaves, NEW urgency \in Urgencies,
           KeepGlass(save, urgency)
    PROVE  KeepType
<1> DEFINE h == [v |-> save, n |-> handed + 1]
           due == DueAt(urgency)
<1>1. h \in Numbered(GlassSaves) /\ due \in {"now", "later"} /\ handed' \in Nat
  BY DEF TypeOK, Numbered, DueAt, KeepGlass
<1>2. CASE Ignored
  BY <1>1, <1>2, IgnoredType
<1>3. CASE /\ kept' = [kept EXCEPT !.glass = h]
           /\ rushed' = [rushed EXCEPT !.glass = @ \/ due = "now"]
           /\ HandedOver(HandOver(glass, h, due), look)
  <2>1. glass \in SlotType(GlassSaves) /\ look \in SlotType(LookSaves)
    BY DEF TypeOK
  <2>2. HandOver(glass, h, due) \in SlotType(GlassSaves)
    BY <1>1, <2>1, SlotOperations, NoneIsNoSave
  <2>3. /\ kept' \in BatchType
        /\ rushed' \in [glass : BOOLEAN, look : BOOLEAN]
    BY <1>1, <1>3 DEF TypeOK, BatchType, Waiting
  <2> QED BY <1>1, <1>3, <2>1, <2>2, <2>3, HandedOverType DEF KeepType
<1> QED BY <1>2, <1>3 DEF KeepGlass

LEMMA KeepLookType ==
    ASSUME TypeOK, NEW save \in LookSaves, NEW urgency \in Urgencies,
           KeepLook(save, urgency)
    PROVE  KeepType
<1> DEFINE h == [v |-> save, n |-> handed + 1]
           due == DueAt(urgency)
<1>1. h \in Numbered(LookSaves) /\ due \in {"now", "later"} /\ handed' \in Nat
  BY DEF TypeOK, Numbered, DueAt, KeepLook
<1>2. CASE Ignored
  BY <1>1, <1>2, IgnoredType
<1>3. CASE /\ kept' = [kept EXCEPT !.look = h]
           /\ rushed' = [rushed EXCEPT !.look = @ \/ due = "now"]
           /\ HandedOver(glass, HandOver(look, h, due))
  <2>1. glass \in SlotType(GlassSaves) /\ look \in SlotType(LookSaves)
    BY DEF TypeOK
  <2>2. HandOver(look, h, due) \in SlotType(LookSaves)
    BY <1>1, <2>1, SlotOperations, NoneIsNoSave
  <2>3. /\ kept' \in BatchType
        /\ rushed' \in [glass : BOOLEAN, look : BOOLEAN]
    BY <1>1, <1>3 DEF TypeOK, BatchType, Waiting
  <2> QED BY <1>1, <1>3, <2>1, <2>2, <2>3, HandedOverType DEF KeepType
<1> QED BY <1>2, <1>3 DEF KeepLook

LEMMA CommitGlassType ==
    ASSUME TypeOK, NEW script \in Scripts \cup {NoScript}, NEW D \in SUBSET Scripts,
           NEW places \in [D -> Places], script # NoScript => script \in D,
           CommitGlass(script, places)
    PROVE  TypeOK'
<1>1. handed + 1 \in Nat /\ disk.rev + 1 \in Nat
  BY DEF TypeOK, DiskType
<1>2. disk' \in DiskType
  BY <1>1 DEF TypeOK, DiskType, CommitGlass, Numbered
<1>3. kept' \in BatchType
  BY <1>1 DEF TypeOK, CommitGlass, BatchType, Waiting, Numbered, GlassSaves
<1>4. req' \in RequestType
  BY DEF TypeOK, CommitGlass, RequestType
<1>5. handed' \in Nat
  BY <1>1 DEF CommitGlass
<1>6. UNCHANGED <<saverVars, threaded, writeVars, mem, lost, failures, run>>
  BY DEF CommitGlass
<1>7. /\ glass' = glass /\ look' = look /\ stopping' = stopping /\ stopped' = stopped
      /\ recent' = recent /\ retry' = retry /\ asleep' = asleep /\ rushed' = rushed
      /\ threaded' = threaded /\ batch' = batch /\ flight' = flight /\ conn' = conn
      /\ mem' = mem /\ lost' = lost /\ failures' = failures /\ run' = run
  BY <1>6 DEF saverVars, writeVars
<1> QED BY <1>2, <1>3, <1>4, <1>5, <1>7, Zenon DEF TypeOK

LEMMA KeepTypeOK ==
    ASSUME TypeOK, KeepType, UNCHANGED <<threaded, stopping, stopped, writeVars, run>>,
           mem' \in MemoryType,
           req' \in RequestType
    PROVE  TypeOK'
<1>1. /\ threaded' = threaded /\ stopping' = stopping /\ stopped' = stopped
      /\ batch' = batch /\ flight' = flight /\ conn' = conn /\ run' = run
  BY DEF writeVars
<1> QED BY <1>1, Zenon DEF TypeOK, KeepType, DiskType

(* The thread's and time's steps.                                          *)
LEMMA ThreadLooksTypeOK == ASSUME TypeOK, ThreadLooks PROVE TypeOK'
<1> DEFINE may == stopping \/ ~retry
           dg == IF may THEN Deduped(glass) ELSE glass
           dl == IF may THEN Deduped(look) ELSE look
           b == IF may THEN BatchOf(dg, dl, stopping) ELSE NoBatch
<1>1. dg \in SlotType(GlassSaves) /\ dl \in SlotType(LookSaves)
  BY SlotOperations, NoneIsNoSave DEF TypeOK
<1>2. b \in BatchType
  <2>1. BatchOf(dg, dl, stopping) \in BatchType
    BY <1>1, SlotOperations, NoneIsNoSave DEF BatchOf, BatchType, TypeOK
  <2>2. NoBatch \in BatchType
    BY DEF NoBatch, BatchType, Waiting
  <2> QED BY <2>1, <2>2
<1>3. /\ Marked(dg, b.glass) \in SlotType(GlassSaves)
      /\ Marked(dl, b.look) \in SlotType(LookSaves)
  BY <1>1, SlotOperations, NoneIsNoSave
<1>4. rushed \in [glass : BOOLEAN, look : BOOLEAN] /\ recent \in BOOLEAN
      /\ asleep \in SleepType /\ batch \in BatchType
  BY DEF TypeOK
<1>5. [glass |-> rushed.glass /\ b.glass = None, look |-> rushed.look /\ b.look = None]
          \in [glass : BOOLEAN, look : BOOLEAN]
  OBVIOUS
<1>6. \A g, l : Sleeps(g, l) \in SleepType
  BY DEF Sleeps, SleepType
<1>7. /\ threaded' = threaded /\ stopping' = stopping /\ stopped' = stopped
      /\ retry' = retry /\ conn' = conn /\ mem' = mem /\ req' = req /\ disk' = disk
      /\ kept' = kept /\ lost' = lost /\ failures' = failures /\ handed' = handed /\ run' = run
  BY DEF ThreadLooks, countVars
<1> HIDE DEF may, dg, dl, b
<1>8. CASE /\ glass' = Marked(dg, b.glass) /\ look' = Marked(dl, b.look)
           /\ batch' = b /\ flight' = "begun" /\ recent' = TRUE
           /\ rushed' = [glass |-> rushed.glass /\ b.glass = None,
                         look |-> rushed.look /\ b.look = None]
           /\ UNCHANGED asleep
  BY <1>2, <1>3, <1>4, <1>5, <1>7, <1>8, Zenon DEF TypeOK
<1>9. CASE /\ glass' = dg /\ look' = dl /\ flight' = "closing"
           /\ UNCHANGED <<batch, asleep, recent, rushed>>
  <2>1. batch' = batch /\ asleep' = asleep /\ recent' = recent /\ rushed' = rushed
    BY <1>9
  <2> QED BY <1>1, <1>4, <1>7, <1>9, <2>1, Zenon DEF TypeOK
<1>10. CASE /\ glass' = dg /\ look' = dl /\ asleep' = Sleeps(dg, dl)
            /\ UNCHANGED <<batch, flight, recent, rushed>>
  <2>1. batch' = batch /\ flight' = flight /\ recent' = recent /\ rushed' = rushed
    BY <1>10
  <2> QED BY <1>1, <1>4, <1>6, <1>7, <1>10, <2>1, Zenon DEF TypeOK
<1> QED BY <1>8, <1>9, <1>10, Zenon DEF ThreadLooks, may, dg, dl, b

LEMMA ThreadSettlesTypeOK == ASSUME TypeOK, ThreadSettles PROVE TypeOK'
<1>1. batch.glass \in Waiting(GlassSaves) /\ batch.look \in Waiting(LookSaves)
  BY DEF TypeOK, BatchType
<1>2. glass \in SlotType(GlassSaves) /\ look \in SlotType(LookSaves)
  BY DEF TypeOK
<1>3. /\ (flight = "landed") \in BOOLEAN /\ TRUE \in BOOLEAN
      /\ glass.taken \in BOOLEAN /\ look.taken \in BOOLEAN
      /\ rushed.glass \in BOOLEAN /\ rushed.look \in BOOLEAN
  BY DEF TypeOK, SlotType
<1>4. /\ Unsettled(glass) \in SlotType(GlassSaves) /\ Unsettled(look) \in SlotType(LookSaves)
      /\ Settled(glass, batch.glass, flight = "landed") \in SlotType(GlassSaves)
      /\ Settled(look, batch.look, TRUE) \in SlotType(LookSaves)
  BY <1>1, <1>2, <1>3, SlotOperations, NoneIsNoSave
<1>5. batch' \in BatchType /\ asleep' \in SleepType
  BY DEF ThreadSettles, NoBatch, BatchType, Waiting, NobodySleeps, SleepType
<1>6. [glass |-> rushed.glass \/ glass.taken, look |-> rushed.look \/ look.taken]
          \in [glass : BOOLEAN, look : BOOLEAN]
  OBVIOUS
<1>7. /\ threaded' = threaded /\ stopping' = stopping /\ stopped' = stopped
      /\ recent' = recent /\ conn' = conn /\ mem' = mem /\ req' = req /\ disk' = disk
      /\ kept' = kept /\ failures' = failures /\ handed' = handed /\ run' = run
      /\ flight' = "no"
  BY DEF ThreadSettles, countVars
<1>8. /\ glass' \in SlotType(GlassSaves) /\ look' \in SlotType(LookSaves)
      /\ rushed' \in [glass : BOOLEAN, look : BOOLEAN] /\ retry' \in BOOLEAN
      /\ lost' \in BOOLEAN
  <2>1. CASE /\ glass' = Unsettled(glass) /\ look' = Unsettled(look)
             /\ retry' = TRUE
             /\ rushed' = [glass |-> rushed.glass \/ glass.taken,
                           look |-> rushed.look \/ look.taken]
             /\ lost' = (lost \/ stopping)
    BY <1>4, <1>6, <2>1, Zenon
  <2>2. CASE /\ glass' = Settled(glass, batch.glass, flight = "landed")
             /\ look' = Settled(look, batch.look, TRUE)
             /\ retry' = FALSE
             /\ UNCHANGED <<rushed, lost>>
    <3>1. rushed' = rushed /\ lost' = lost
      BY <2>2
    <3>2. rushed \in [glass : BOOLEAN, look : BOOLEAN] /\ lost \in BOOLEAN
      BY DEF TypeOK
    <3> QED BY <1>4, <2>2, <3>1, <3>2, Zenon
  <2> QED BY <2>1, <2>2, Zenon DEF ThreadSettles
<1> QED BY <1>5, <1>7, <1>8, Zenon DEF TypeOK

LEMMA ThreadTypeOK == ASSUME TypeOK, Thread PROVE TypeOK'
<1>1. CASE ThreadLooks
  BY <1>1, ThreadLooksTypeOK
<1>2. CASE ThreadWakes
  BY <1>2 DEF TypeOK, ThreadWakes, SleepType, writeVars, countVars
<1>3. CASE ThreadWrites
  <2>1. disk' \in DiskType
    BY <1>3, WrittenDiskType DEF ThreadWrites, TypeOK
  <2>2. /\ glass' = glass /\ look' = look /\ stopping' = stopping /\ stopped' = stopped
        /\ recent' = recent /\ retry' = retry /\ asleep' = asleep /\ rushed' = rushed
        /\ threaded' = threaded /\ batch' = batch /\ conn' = TRUE
        /\ mem' = mem /\ req' = req /\ kept' = kept /\ lost' = lost
        /\ failures' = failures /\ handed' = handed /\ run' = run
    BY <1>3 DEF ThreadWrites, saverVars, countVars
  <2>3. flight' \in {"landed", "refused"}
    BY <1>3 DEF ThreadWrites
  <2> QED BY <2>1, <2>2, <2>3, Zenon DEF TypeOK
<1>4. CASE ThreadFails
  <2>1. /\ glass' = glass /\ look' = look /\ stopping' = stopping /\ stopped' = stopped
        /\ recent' = recent /\ retry' = retry /\ asleep' = asleep /\ rushed' = rushed
        /\ threaded' = threaded /\ batch' = batch /\ conn' = FALSE /\ flight' = "failed"
        /\ mem' = mem /\ req' = req /\ kept' = kept /\ lost' = lost /\ disk' = disk
        /\ handed' = handed /\ run' = run
    BY <1>4 DEF ThreadFails, saverVars
  <2>2. failures' \in Nat
    BY <1>4 DEF ThreadFails, TypeOK
  <2> QED BY <2>1, <2>2, Zenon DEF TypeOK
<1>5. CASE ThreadSettles
  BY <1>5, ThreadSettlesTypeOK
<1>6. CASE ThreadCloses
  <2>1. /\ glass' = glass /\ look' = look /\ stopping' = stopping /\ stopped' = stopped
        /\ recent' = recent /\ retry' = retry /\ asleep' = asleep /\ rushed' = rushed
        /\ threaded' = threaded /\ batch' = batch /\ conn' = FALSE /\ flight' = "closed"
        /\ mem' = mem /\ req' = req /\ kept' = kept /\ lost' = lost /\ disk' = disk
        /\ failures' = failures /\ handed' = handed /\ run' = run
    BY <1>6 DEF ThreadCloses, saverVars, countVars
  <2> QED BY <2>1, Zenon DEF TypeOK
<1>7. CASE ThreadEnds
  <2>1. /\ glass' = glass /\ look' = look /\ stopping' = stopping /\ stopped' = TRUE
        /\ recent' = recent /\ retry' = retry /\ rushed' = rushed
        /\ threaded' = FALSE /\ batch' = batch /\ conn' = conn /\ flight' = "no"
        /\ mem' = mem /\ req' = req /\ kept' = kept /\ lost' = lost /\ disk' = disk
        /\ failures' = failures /\ handed' = handed /\ run' = run
    BY <1>7 DEF ThreadEnds, countVars
  <2>2. asleep' \in SleepType
    BY <1>7 DEF ThreadEnds, NobodySleeps, SleepType
  <2> QED BY <2>1, <2>2, Zenon DEF TypeOK
<1> QED BY <1>1, <1>2, <1>3, <1>4, <1>5, <1>6, <1>7 DEF Thread

LEMMA TimeTypeOK == ASSUME TypeOK, Time PROVE TypeOK'
<1>1. CASE GlassDueComes
  <2>1. /\ look' = look /\ stopping' = stopping /\ stopped' = stopped
        /\ recent' = recent /\ retry' = retry /\ asleep' = asleep
        /\ threaded' = threaded /\ batch' = batch /\ conn' = conn /\ flight' = flight
        /\ mem' = mem /\ req' = req /\ kept' = kept /\ lost' = lost /\ disk' = disk
        /\ failures' = failures /\ handed' = handed /\ run' = run
    BY <1>1 DEF GlassDueComes, writeVars, countVars
  <2>2. glass' \in SlotType(GlassSaves) /\ rushed' \in [glass : BOOLEAN, look : BOOLEAN]
    BY <1>1 DEF GlassDueComes, TypeOK, SlotType
  <2> QED BY <2>1, <2>2, Zenon DEF TypeOK
<1>2. CASE LookDueComes
  <2>1. /\ glass' = glass /\ stopping' = stopping /\ stopped' = stopped
        /\ recent' = recent /\ retry' = retry /\ asleep' = asleep
        /\ threaded' = threaded /\ batch' = batch /\ conn' = conn /\ flight' = flight
        /\ mem' = mem /\ req' = req /\ kept' = kept /\ lost' = lost /\ disk' = disk
        /\ failures' = failures /\ handed' = handed /\ run' = run
    BY <1>2 DEF LookDueComes, writeVars, countVars
  <2>2. look' \in SlotType(LookSaves) /\ rushed' \in [glass : BOOLEAN, look : BOOLEAN]
    BY <1>2 DEF LookDueComes, TypeOK, SlotType
  <2> QED BY <2>1, <2>2, Zenon DEF TypeOK
<1>3. CASE SecondPasses
  BY <1>3 DEF TypeOK, SecondPasses, writeVars, countVars
<1>4. CASE RetryPasses
  BY <1>4 DEF TypeOK, RetryPasses, writeVars, countVars
<1> QED BY <1>1, <1>2, <1>3, <1>4 DEF Time

(* The prompter's steps.                                                   *)
LEMMA PutOnTypeOK ==
    ASSUME TypeOK, NEW script \in Scripts, NEW place \in Places, PutOn(script, place)
    PROVE  TypeOK'
<1> DEFINE D == {script, mem.script} \ {NoScript}
           places == [s \in D |-> IF s = script THEN StartOf(disk.place[script].v) ELSE place]
<1>1. /\ mem.script \in Scripts \cup {NoScript}
      /\ disk.place[script].v \in Places
  BY DEF TypeOK, MemoryType, DiskType, Numbered
<1>2. D \in SUBSET Scripts /\ script \in D
  BY <1>1, ConstantsAssumption
<1>3. StartOf(disk.place[script].v) \in Places
  BY <1>1, ConstantsAssumption DEF StartOf
<1>4. places \in [D -> Places]
  BY <1>3
<1>5. CommitGlass(script, places)
  BY DEF PutOn
<1> HIDE DEF D, places
<1> QED BY <1>2, <1>4, <1>5, CommitGlassType

LEMMA UpdateClearTypeOK ==
    ASSUME TypeOK, NEW place \in Places, Update(place) \/ Clear(place)
    PROVE  TypeOK'
<1> DEFINE places == [s \in {mem.script} |-> place]
<1>1. mem.script \in Scripts
  BY DEF TypeOK, MemoryType, Update, Clear
<1>2. places \in [{mem.script} -> Places] /\ {mem.script} \in SUBSET Scripts
  BY <1>1
<1>3. CommitGlass(mem.script, places) \/ CommitGlass(NoScript, places)
  BY DEF Update, Clear
<1> HIDE DEF places
<1> QED BY <1>1, <1>2, <1>3, CommitGlassType

LEMMA IgnoredKeepType == ASSUME TypeOK, Ignored, UNCHANGED handed PROVE KeepType
<1>1. handed' \in Nat
  BY DEF TypeOK
<1> QED BY <1>1, IgnoredType

LEMMA NextLookType ==
    ASSUME TypeOK, NEW shown \in Shown, NEW laid \in Laid
    PROVE  NextLook(shown, laid) \in LookSaves
BY DEF TypeOK, NextLook, LookSaves, MemoryType

LEMMA PlaceSaveType ==
    ASSUME TypeOK, NEW place \in Places, mem.script # NoScript
    PROVE  [script |-> mem.script, rev |-> mem.rev, place |-> place] \in GlassSaves
BY DEF TypeOK, GlassSaves, MemoryType

LEMMA RequestMoves ==
    ASSUME TypeOK,
           NEW pc \in {"off", "idle", "committed", "restored", "settling", "flush", "flushed",
                       "stop", "finish", "finishing", "finished", "stopped"},
           NEW ok \in BOOLEAN, NEW back \in Archived \cup {None}
    PROVE  /\ [req EXCEPT !.pc = pc] \in RequestType
           /\ [req EXCEPT !.back = back] \in RequestType
           /\ [req EXCEPT !.pc = pc, !.back = back] \in RequestType
           /\ [req EXCEPT !.pc = pc, !.ok = ok] \in RequestType
           /\ [pc |-> pc, ok |-> ok, back |-> back] \in RequestType
BY DEF TypeOK, RequestType

(* From a restore's commit until the memory has followed it, the archive   *)
(* it brought back is known.                                               *)
RestoreKnown == req.pc \in {"restored", "settling"} => req.back \in Archived

LEMMA PrompterTypeOK == ASSUME TypeOK, RestoreKnown, Prompter PROVE TypeOK'
<1>0. /\ mem \in MemoryType /\ req \in RequestType /\ None \in Archived \cup {None}
      /\ "now" \in Urgencies /\ "coalesced" \in Urgencies
  BY DEF TypeOK, Urgencies
<1>1. ASSUME NEW place \in Places, NEW urgency \in Urgencies, KeepPlace(place, urgency)
      PROVE  TypeOK'
  <2>1. KeepType
    BY <1>1, PlaceSaveType, KeepGlassType DEF KeepPlace
  <2>2. UNCHANGED <<threaded, stopping, stopped, writeVars, run>> /\ mem' = mem /\ req' = req
    BY <1>1 DEF KeepPlace
  <2> QED BY <1>0, <2>1, <2>2, KeepTypeOK
<1>2. ASSUME NEW shown \in Shown, NEW laid \in Laid, SetLook(shown, laid) PROVE TypeOK'
  <2>1. NextLook(shown, laid) \in LookSaves
    BY NextLookType
  <2>2. KeepType
    BY <1>0, <1>2, <2>1, KeepLookType DEF SetLook
  <2>3. mem' \in MemoryType
    BY <1>0, <1>2, <2>1 DEF SetLook, MemoryType
  <2>4. req' \in RequestType
    BY <1>0, <1>2, RequestMoves DEF SetLook
  <2>5. UNCHANGED <<threaded, stopping, stopped, writeVars, run>>
    BY <1>2 DEF SetLook
  <2> QED BY <2>2, <2>3, <2>4, <2>5, KeepTypeOK
<1>3. ASSUME NEW script \in Scripts, NEW place \in Places, Edit(script, place) PROVE TypeOK'
  <2>1. disk' \in DiskType /\ handed' \in Nat
    BY <1>3 DEF Edit, TypeOK, DiskType, Numbered
  <2>2. /\ glass' = glass /\ look' = look /\ stopping' = stopping /\ stopped' = stopped
        /\ recent' = recent /\ retry' = retry /\ asleep' = asleep /\ rushed' = rushed
        /\ threaded' = threaded /\ batch' = batch /\ conn' = conn /\ flight' = flight
        /\ mem' = mem /\ req' = req /\ kept' = kept /\ lost' = lost
        /\ failures' = failures /\ run' = run
    BY <1>3 DEF Edit, saverVars, writeVars
  <2> QED BY <2>1, <2>2, Zenon DEF TypeOK
<1>4. ASSUME NEW script \in Scripts, NEW place \in Places, PutOn(script, place) PROVE TypeOK'
  BY <1>4, PutOnTypeOK
<1>9. ASSUME NEW place \in Places, Update(place) \/ Clear(place) PROVE TypeOK'
  BY <1>9, UpdateClearTypeOK
<1>5. ASSUME NEW place \in Places, RestoreHolds(place) PROVE TypeOK'
  <2>1. KeepType
    <3>1. CASE mem.script # NoScript
      BY <1>0, <1>5, <3>1, PlaceSaveType, KeepGlassType DEF RestoreHolds
    <3>2. CASE mem.script = NoScript
      BY <1>5, <3>2, IgnoredKeepType DEF RestoreHolds
    <3> QED BY <3>1, <3>2
  <2>2. UNCHANGED <<threaded, stopping, stopped, writeVars, run>> /\ mem' = mem
    BY <1>5 DEF RestoreHolds
  <2>3. req' \in RequestType
    BY <1>5, RequestMoves DEF RestoreHolds
  <2> QED BY <1>0, <2>1, <2>2, <2>3, KeepTypeOK
<1>6. ASSUME NEW archived \in Archived, RestoreCommits(archived) PROVE TypeOK'
  <2>1. archived[1] \in Shown /\ archived[2] \in Laid
    BY ConstantsAssumption
  <2>2. disk' \in DiskType /\ handed' \in Nat
    BY <1>6, <2>1 DEF RestoreCommits, TypeOK, DiskType, Numbered, LookSaves
  <2>3. req' \in RequestType
    BY <1>6, RequestMoves DEF RestoreCommits
  <2>4. /\ glass' = glass /\ look' = look /\ stopping' = stopping /\ stopped' = stopped
        /\ recent' = recent /\ retry' = retry /\ asleep' = asleep /\ rushed' = rushed
        /\ threaded' = threaded /\ batch' = batch /\ conn' = conn /\ flight' = flight
        /\ mem' = mem /\ kept' = kept /\ lost' = lost
        /\ failures' = failures /\ run' = run
    BY <1>6 DEF RestoreCommits, saverVars, writeVars
  <2> QED BY <2>2, <2>3, <2>4, Zenon DEF TypeOK
<1>7. CASE Remember
  <2>1. mem' \in MemoryType
    BY <1>7 DEF Remember, TypeOK, MemoryType, DiskType
  <2>2. glass' \in SlotType(GlassSaves)
    BY <1>7 DEF Remember, TypeOK, SlotType, Emptied, Waiting
  <2>3. asleep' \in SleepType
    BY <1>7 DEF Remember, NobodySleeps, SleepType
  <2>4. req' \in RequestType
    BY <1>7, RequestMoves DEF Remember
  <2>5. /\ look' = look /\ stopping' = stopping /\ stopped' = stopped
        /\ recent' = recent /\ retry' = retry /\ rushed' = rushed
        /\ threaded' = threaded /\ batch' = batch /\ conn' = conn /\ flight' = flight
        /\ disk' = disk /\ kept' = kept /\ lost' = lost
        /\ failures' = failures /\ handed' = handed /\ run' = run
    BY <1>7 DEF Remember, writeVars, countVars
  <2> QED BY <2>1, <2>2, <2>3, <2>4, <2>5, Zenon DEF TypeOK
<1>8. CASE RestoreSettles
  <2> DEFINE taken == NextLook(req.back[1], req.back[2])
  <2>0. UNCHANGED <<threaded, stopping, stopped, writeVars, run>>
    BY <1>8 DEF RestoreSettles
  <2>1. req' \in RequestType
    BY <1>8, RequestMoves DEF RestoreSettles
  <2>2. CASE taken # mem.look
    <3>1. KeepLook(taken, "now") /\ mem' = [mem EXCEPT !.look = taken]
      BY <1>8, <2>2 DEF RestoreSettles
    <3>2. taken \in LookSaves
      <4>1. req.back \in Archived
        BY <1>8 DEF RestoreSettles, RestoreKnown
      <4>2. req.back[1] \in Shown /\ req.back[2] \in Laid
        BY <4>1, ConstantsAssumption
      <4> QED BY <4>2, NextLookType
    <3>3. KeepType
      BY <1>0, <3>1, <3>2, KeepLookType
    <3>4. mem' \in MemoryType
      BY <1>0, <3>1, <3>2 DEF MemoryType
    <3> QED BY <2>0, <2>1, <3>3, <3>4, KeepTypeOK
  <2>3. CASE taken = mem.look
    <3>1. KeepType
      BY <1>8, <2>3, IgnoredKeepType DEF RestoreSettles
    <3>2. mem' = mem
      BY <1>8, <2>3 DEF RestoreSettles
    <3> QED BY <1>0, <2>0, <2>1, <3>1, <3>2, KeepTypeOK
  <2> QED BY <2>2, <2>3
<1> QED BY <1>1, <1>2, <1>3, <1>4, <1>5, <1>6, <1>7, <1>8, <1>9, Zenon DEF Prompter

(* The request loop's steps.                                               *)
LEMMA MakeDueNowType ==
    ASSUME TypeOK, MakeDueNow
    PROVE  /\ glass' \in SlotType(GlassSaves) /\ look' \in SlotType(LookSaves)
           /\ rushed' \in [glass : BOOLEAN, look : BOOLEAN] /\ retry' \in BOOLEAN
<1>1. glass \in SlotType(GlassSaves) /\ look \in SlotType(LookSaves)
  BY DEF TypeOK
<1>2. DueNow(glass) \in SlotType(GlassSaves) /\ DueNow(look) \in SlotType(LookSaves)
  BY <1>1, SlotOperations, NoneIsNoSave
<1> QED BY <1>2 DEF MakeDueNow

LEMMA AnswersType ==
    ASSUME TypeOK,
           NEW pc \in {"idle", "finished", "stopped"}, NEW ok \in BOOLEAN, Answers(pc, ok)
    PROVE  req' \in RequestType /\ asleep' \in SleepType
BY RequestMoves DEF Answers, TypeOK, SleepType

(* A wait's own steps change where it is and who sleeps, and no more.      *)
LEMMA WaitTypeOK ==
    ASSUME TypeOK, req' \in RequestType, asleep' \in SleepType,
           UNCHANGED <<glass, look, threaded, stopping, recent, retry, writeVars, mem, disk, rushed,
                       kept, lost, countVars>>,
           stopped' \in BOOLEAN
    PROVE  TypeOK'
<1>1. /\ glass' = glass /\ look' = look /\ stopping' = stopping
      /\ recent' = recent /\ retry' = retry /\ rushed' = rushed
      /\ threaded' = threaded /\ batch' = batch /\ conn' = conn /\ flight' = flight
      /\ mem' = mem /\ disk' = disk /\ kept' = kept /\ lost' = lost
      /\ failures' = failures /\ handed' = handed /\ run' = run
  BY DEF writeVars, countVars
<1> QED BY <1>1, Zenon DEF TypeOK

LEMMA RequestLoopTypeOK == ASSUME TypeOK, RequestLoop PROVE TypeOK'
<1>0. /\ glass \in SlotType(GlassSaves) /\ look \in SlotType(LookSaves)
      /\ asleep \in SleepType /\ req \in RequestType /\ stopped \in BOOLEAN
      /\ [asleep EXCEPT !.waiter = TRUE] \in SleepType /\ NobodySleeps \in SleepType
  BY DEF TypeOK, SleepType, NobodySleeps
<1>1. CASE FlushBegins
  <2>1. /\ threaded' = threaded /\ stopping' = stopping /\ stopped' = stopped
        /\ batch' = batch /\ flight' = flight /\ conn' = conn
        /\ mem' = mem /\ kept' = kept /\ handed' = handed /\ run' = run
    BY <1>1 DEF FlushBegins, writeVars
  <2>2. CASE threaded
    <3>1. /\ MakeDueNow /\ asleep' = NobodySleeps /\ req' = [req EXCEPT !.pc = "flush"]
          /\ recent' = recent /\ disk' = disk /\ lost' = lost /\ failures' = failures
      BY <1>1, <2>2 DEF FlushBegins
    <3>2. req' \in RequestType
      BY <3>1, RequestMoves
    <3> QED BY <1>0, <2>1, <3>1, <3>2, MakeDueNowType, Zenon DEF TypeOK
  <2>3. CASE ~threaded
    <3>1. /\ WriteHere(glass, look) /\ rushed' = rushed /\ asleep' = asleep
          /\ req' = [req EXCEPT !.pc = "flushed"]
      BY <1>1, <2>3 DEF FlushBegins
    <3>2. req' \in RequestType
      BY <3>1, RequestMoves
    <3> QED BY <1>0, <2>1, <3>1, <3>2, WriteHereType, Zenon DEF TypeOK
  <2> QED BY <2>2, <2>3
<1>2. CASE FlushLooks
  <2>1. req' \in RequestType /\ asleep' \in SleepType
    BY <1>0, <1>2, AnswersType DEF FlushLooks
  <2>2. stopped' \in BOOLEAN
    BY <1>0, <1>2 DEF FlushLooks
  <2> QED BY <1>2, <2>1, <2>2, WaitTypeOK DEF FlushLooks
<1>3. CASE FlushGivesUp
  <2>1. req' \in RequestType /\ asleep' \in SleepType
    BY <1>3, AnswersType DEF FlushGivesUp
  <2>2. stopped' \in BOOLEAN
    BY <1>0, <1>3 DEF FlushGivesUp
  <2> QED BY <1>3, <2>1, <2>2, WaitTypeOK DEF FlushGivesUp
<1>4. CASE FlushChecks
  <2>1. NothingPending \in BOOLEAN
    BY DEF NothingPending
  <2>2. req' \in RequestType /\ asleep' \in SleepType
    BY <1>4, <2>1, AnswersType DEF FlushChecks
  <2>3. stopped' \in BOOLEAN
    BY <1>0, <1>4 DEF FlushChecks
  <2> QED BY <1>4, <2>2, <2>3, WaitTypeOK DEF FlushChecks
<1>5. ASSUME NEW place \in Places, StopKeeps(place) PROVE TypeOK'
  <2>1. KeepType
    <3>1. CASE mem.script # NoScript
      BY <1>5, <3>1, PlaceSaveType, KeepGlassType DEF StopKeeps, Urgencies
    <3>2. CASE mem.script = NoScript
      BY <1>5, <3>2, IgnoredKeepType DEF StopKeeps
    <3> QED BY <3>1, <3>2
  <2>2. UNCHANGED <<threaded, stopping, stopped, writeVars, run>> /\ mem' = mem
    BY <1>5 DEF StopKeeps
  <2>3. req' \in RequestType
    BY <1>5, RequestMoves DEF StopKeeps
  <2>4. mem' \in MemoryType
    BY <2>2 DEF TypeOK
  <2> QED BY <2>1, <2>2, <2>3, <2>4, KeepTypeOK
<1>6. CASE StopSkips
  <2>1. req' \in RequestType
    BY <1>6, RequestMoves DEF StopSkips
  <2>2. asleep' \in SleepType /\ stopped' \in BOOLEAN
    BY <1>0, <1>6 DEF StopSkips, saverVars
  <2> QED BY <1>6, <2>1, <2>2, WaitTypeOK DEF StopSkips, saverVars
<1>7. CASE FinishBegins
  <2>1. /\ threaded' = threaded /\ stopped' = stopped
        /\ batch' = batch /\ flight' = flight /\ conn' = conn
        /\ mem' = mem /\ kept' = kept /\ handed' = handed /\ run' = run
    BY <1>7 DEF FinishBegins, writeVars
  <2>2. CASE threaded
    <3>1. /\ MakeDueNow /\ asleep' = NobodySleeps /\ stopping' = TRUE
          /\ req' = [req EXCEPT !.pc = "finish"]
          /\ recent' = recent /\ disk' = disk /\ lost' = lost /\ failures' = failures
      BY <1>7, <2>2 DEF FinishBegins
    <3>2. req' \in RequestType
      BY <3>1, RequestMoves
    <3> QED BY <1>0, <2>1, <3>1, <3>2, MakeDueNowType, Zenon DEF TypeOK
  <2>3. CASE ~threaded
    <3>1. /\ WriteHere(glass, look) /\ rushed' = rushed /\ asleep' = asleep
          /\ stopping' = stopping /\ req' = [req EXCEPT !.pc = "finishing"]
      BY <1>7, <2>3 DEF FinishBegins
    <3>2. req' \in RequestType
      BY <3>1, RequestMoves
    <3> QED BY <1>0, <2>1, <3>1, <3>2, WriteHereType, Zenon DEF TypeOK
  <2> QED BY <2>2, <2>3
<1>8. CASE FinishLooks
  <2>1. req' \in RequestType /\ asleep' \in SleepType
    BY <1>0, <1>8, AnswersType DEF FinishLooks
  <2>2. stopped' \in BOOLEAN
    BY <1>0, <1>8 DEF FinishLooks
  <2> QED BY <1>8, <2>1, <2>2, WaitTypeOK DEF FinishLooks
<1>9. CASE FinishGivesUp
  <2>1. req' \in RequestType /\ asleep' \in SleepType
    BY <1>9, AnswersType DEF FinishGivesUp
  <2>2. stopped' \in BOOLEAN
    BY <1>0, <1>9 DEF FinishGivesUp
  <2> QED BY <1>9, <2>1, <2>2, WaitTypeOK DEF FinishGivesUp
<1>10. CASE FinishChecks
  <2>1. NothingPending \in BOOLEAN
    BY DEF NothingPending
  <2>2. req' \in RequestType /\ asleep' \in SleepType
    BY <1>10, <2>1, AnswersType DEF FinishChecks
  <2>3. stopped' \in BOOLEAN
    BY <1>0, <1>10 DEF FinishChecks
  <2> QED BY <1>10, <2>2, <2>3, WaitTypeOK DEF FinishChecks
<1>11. CASE FinishEnds
  <2>1. req.ok \in BOOLEAN
    BY <1>0 DEF RequestType
  <2>2. req' \in RequestType /\ asleep' \in SleepType
    BY <1>11, <2>1, AnswersType DEF FinishEnds
  <2>3. stopped' \in BOOLEAN
    BY <1>11 DEF FinishEnds
  <2> QED BY <1>11, <2>2, <2>3, WaitTypeOK DEF FinishEnds
<1> QED BY <1>1, <1>2, <1>3, <1>4, <1>5, <1>6, <1>7, <1>8, <1>9, <1>10, <1>11 DEF RequestLoop

(* The process's steps.                                                    *)
LEMMA EmptySlotType ==
    ASSUME NEW S
    PROVE  /\ EmptySlot \in SlotType(S)
           /\ \A h \in Numbered(S) : [EmptySlot EXCEPT !.pending = h, !.due = "now"] \in SlotType(S)
           /\ \A v \in S : [EmptySlot EXCEPT !.written = v] \in SlotType(S)
BY DEF EmptySlot, SlotType, Waiting

LEMMA NothingType ==
    /\ NoBatch \in BatchType /\ NobodySleeps \in SleepType
    /\ [glass |-> FALSE, look |-> FALSE] \in [glass : BOOLEAN, look : BOOLEAN]
BY DEF NoBatch, BatchType, Waiting, NobodySleeps, SleepType

LEMMA CrashTypeOK == ASSUME TypeOK, Crash PROVE TypeOK'
<1>1. mem' \in MemoryType
  BY DEF Crash, TypeOK, MemoryType, DiskType, Numbered
<1>2. req' \in RequestType
  BY RequestMoves DEF Crash
<1>3. glass' \in SlotType(GlassSaves) /\ look' \in SlotType(LookSaves)
  BY EmptySlotType DEF Crash
<1>4. batch' \in BatchType /\ kept' \in BatchType /\ asleep' \in SleepType
      /\ rushed' \in [glass : BOOLEAN, look : BOOLEAN]
  BY NothingType DEF Crash
<1>5. /\ threaded' = FALSE /\ stopping' = FALSE /\ stopped' = FALSE
      /\ recent' = FALSE /\ retry' = FALSE /\ flight' = "no" /\ conn' = FALSE /\ lost' = FALSE
      /\ disk' = disk /\ failures' = failures /\ handed' = handed /\ run' = run
  BY DEF Crash, countVars
<1> QED BY <1>1, <1>2, <1>3, <1>4, <1>5, Zenon DEF TypeOK

LEMMA StartTypeOK == ASSUME TypeOK, Start PROVE TypeOK'
<1> DEFINE loaded == [disk.look.v EXCEPT !.rev = @ + StartStep]
           h == [v |-> loaded, n |-> handed + 1]
           waiting == [EmptySlot EXCEPT !.pending = h, !.due = "now"]
           shown == [v |-> [script |-> disk.script, rev |-> disk.rev,
                            place |-> disk.place[disk.script].v],
                     n |-> disk.place[disk.script].n]
<1>1. /\ disk.look.v \in LookSaves /\ disk.rev \in Nat
      /\ disk.script \in Scripts \cup {NoScript}
      /\ disk.script # NoScript => disk.place[disk.script] \in Numbered(Places)
  BY DEF TypeOK, DiskType, Numbered
<1>2. loaded \in LookSaves
  BY <1>1, ConstantsAssumption DEF LookSaves
<1>3. h \in Numbered(LookSaves) /\ handed + 1 \in Nat /\ run + 1 \in Nat /\ failures + 1 \in Nat
  BY <1>2 DEF TypeOK, Numbered
<1>4. disk.script # NoScript => shown \in Numbered(GlassSaves)
  BY <1>1 DEF Numbered, GlassSaves
<1>5. waiting \in SlotType(LookSaves) /\ EmptySlot \in SlotType(GlassSaves)
  BY <1>3, EmptySlotType
<1>6. [EmptySlot EXCEPT !.written = loaded] \in SlotType(LookSaves)
  BY <1>2, EmptySlotType
<1>7. [disk EXCEPT !.look = h] \in DiskType
  BY <1>3 DEF TypeOK, DiskType
<1>8. [script |-> disk.script, rev |-> disk.rev, look |-> loaded] \in MemoryType
  BY <1>1, <1>2 DEF MemoryType
<1>9. [glass |-> IF disk.script = NoScript THEN None ELSE shown, look |-> h] \in BatchType
  BY <1>3, <1>4 DEF BatchType, Waiting
<1> HIDE DEF loaded, h, waiting, shown
<1>10. threaded' \in BOOLEAN
  <2>1. threaded' \in Threads
    BY DEF Start
  <2> QED BY <2>1, ConstantsAssumption
<1>11. /\ mem' \in MemoryType /\ kept' \in BatchType /\ glass' \in SlotType(GlassSaves)
       /\ handed' \in Nat /\ run' \in Nat
  BY <1>3, <1>5, <1>8, <1>9 DEF Start, loaded, h, shown
<1>12. req' \in RequestType
  BY RequestMoves DEF Start
<1>13. rushed' \in [glass : BOOLEAN, look : BOOLEAN]
  <2>1. rushed \in [glass : BOOLEAN, look : BOOLEAN] /\ rushed' = [rushed EXCEPT !.look = TRUE]
    BY DEF Start, TypeOK
  <2> QED BY <2>1
<1>14. /\ stopping' = stopping /\ stopped' = stopped /\ batch' = batch /\ flight' = flight
       /\ conn' = conn /\ asleep' = asleep /\ lost' = lost
  BY DEF Start
<1>15. /\ retry \in BOOLEAN /\ recent \in BOOLEAN /\ failures \in Nat /\ disk \in DiskType
  BY DEF TypeOK
<1>16. /\ look' \in SlotType(LookSaves) /\ disk' \in DiskType
       /\ recent' \in BOOLEAN /\ retry' \in BOOLEAN /\ failures' \in Nat
  <2>1. CASE /\ look' = waiting /\ UNCHANGED <<disk, recent, retry, failures>>
    <3>1. disk' = disk /\ recent' = recent /\ retry' = retry /\ failures' = failures
      BY <2>1
    <3> QED BY <1>5, <1>15, <2>1, <3>1, Zenon
  <2>2. CASE /\ look' = [EmptySlot EXCEPT !.written = loaded]
             /\ disk' = [disk EXCEPT !.look = h] /\ recent' = TRUE
             /\ UNCHANGED <<retry, failures>>
    <3>1. retry' = retry /\ failures' = failures
      BY <2>2
    <3> QED BY <1>6, <1>7, <1>15, <2>2, <3>1, Zenon
  <2>3. CASE /\ failures' = failures + 1 /\ look' = waiting
             /\ retry' = TRUE /\ recent' = TRUE /\ UNCHANGED disk
    <3>1. disk' = disk
      BY <2>3
    <3> QED BY <1>3, <1>5, <1>15, <2>3, <3>1, Zenon
  <2> QED BY <2>1, <2>2, <2>3, Zenon DEF Start, loaded, h, waiting
<1> QED BY <1>10, <1>11, <1>12, <1>13, <1>14, <1>16, Zenon DEF TypeOK

LEMMA InitTypeOK == Init => TypeOK /\ RestoreKnown
<1> SUFFICES ASSUME Init PROVE TypeOK /\ RestoreKnown
  OBVIOUS
<1>1. PICK shown \in Shown, laid \in Laid :
          LET first == [shown |-> shown, laid |-> laid, rev |-> 0]
          IN  /\ disk = [script |-> NoScript, rev |-> 0,
                         place |-> [s \in Scripts |-> [v |-> Top, n |-> 0]],
                         look |-> [v |-> first, n |-> 0]]
              /\ mem = [script |-> NoScript, rev |-> 0, look |-> first]
  BY DEF Init
<1>2. mem \in MemoryType /\ disk \in DiskType
  BY <1>1, ConstantsAssumption DEF MemoryType, DiskType, Numbered, LookSaves
<1>3. req \in RequestType /\ RestoreKnown
  BY DEF Init, RequestType, RestoreKnown
<1>4. glass \in SlotType(GlassSaves) /\ look \in SlotType(LookSaves)
  BY EmptySlotType DEF Init
<1>5. batch \in BatchType /\ kept \in BatchType /\ asleep \in SleepType
      /\ rushed \in [glass : BOOLEAN, look : BOOLEAN]
  BY NothingType DEF Init
<1>6. /\ threaded = FALSE /\ stopping = FALSE /\ stopped = FALSE /\ recent = FALSE
      /\ retry = FALSE /\ flight = "no" /\ conn = FALSE /\ lost = FALSE
      /\ failures = 0 /\ handed = 0 /\ run = 0
  BY DEF Init
<1> QED BY <1>2, <1>3, <1>4, <1>5, <1>6 DEF TypeOK

LEMMA RestoreKnownStep == ASSUME TypeOK, RestoreKnown, Next PROVE RestoreKnown'
<1>1. req \in RequestType
  BY DEF TypeOK
<1>2. CASE req' = req
  BY <1>2 DEF RestoreKnown
<1>3. CASE Thread
  BY <1>2, <1>3 DEF Thread, ThreadLooks, ThreadWakes, ThreadWrites, ThreadFails, ThreadSettles,
                    ThreadCloses, ThreadEnds
<1>4. CASE Time
  BY <1>2, <1>4 DEF Time, GlassDueComes, LookDueComes, SecondPasses, RetryPasses
<1>5. CASE Prompter
  <2>1. ASSUME NEW place \in Places, NEW urgency \in Urgencies, KeepPlace(place, urgency)
        PROVE  RestoreKnown'
    BY <1>2, <2>1 DEF KeepPlace
  <2>2. ASSUME NEW shown \in Shown, NEW laid \in Laid, SetLook(shown, laid)
        PROVE  RestoreKnown'
    BY <1>1, <1>2, <2>2 DEF SetLook, Unlocked, RestoreKnown, RequestType
  <2>3. ASSUME NEW script \in Scripts, NEW place \in Places, PutOn(script, place)
        PROVE  RestoreKnown'
    BY <1>1, <2>3 DEF PutOn, CommitGlass, RestoreKnown, RequestType
  <2>8. ASSUME NEW place \in Places, Update(place) \/ Clear(place) PROVE RestoreKnown'
    BY <1>1, <2>8 DEF Update, Clear, CommitGlass, RestoreKnown, RequestType
  <2>4. ASSUME NEW script \in Scripts, NEW place \in Places, Edit(script, place)
        PROVE  RestoreKnown'
    BY <1>2, <2>4 DEF Edit
  <2>5. ASSUME NEW place \in Places, RestoreHolds(place) PROVE RestoreKnown'
    BY <1>1, <2>5 DEF RestoreHolds, RestoreKnown, RequestType
  <2>6. ASSUME NEW archived \in Archived, RestoreCommits(archived) PROVE RestoreKnown'
    BY <1>1, <2>6 DEF RestoreCommits, RestoreKnown, RequestType
  <2>7. CASE Remember \/ RestoreSettles
    BY <1>1, <2>7 DEF Remember, RestoreSettles, RestoreKnown, RequestType
  <2> QED BY <1>5, <2>1, <2>2, <2>3, <2>4, <2>5, <2>6, <2>7, <2>8, Zenon DEF Prompter
<1>6. CASE RequestLoop
  <2>1. CASE FlushBegins \/ FinishBegins
    BY <1>1, <2>1 DEF FlushBegins, FinishBegins, RestoreKnown, RequestType
  <2>2. CASE FlushLooks \/ FlushGivesUp \/ FlushChecks
    BY <1>1, <1>2, <2>2 DEF FlushLooks, FlushGivesUp, FlushChecks, Answers, RestoreKnown, RequestType
  <2>3. ASSUME NEW place \in Places, StopKeeps(place) PROVE RestoreKnown'
    BY <1>1, <2>3 DEF StopKeeps, RestoreKnown, RequestType
  <2>4. CASE StopSkips
    BY <1>1, <2>4 DEF StopSkips, RestoreKnown, RequestType
  <2>5. CASE FinishLooks \/ FinishGivesUp \/ FinishChecks \/ FinishEnds
    BY <1>1, <1>2, <2>5 DEF FinishLooks, FinishGivesUp, FinishChecks, FinishEnds, Answers,
                            RestoreKnown, RequestType
  <2> QED BY <1>6, <2>1, <2>2, <2>3, <2>4, <2>5, Zenon DEF RequestLoop
<1>7. CASE Start \/ Crash
  BY <1>1, <1>7 DEF Start, Crash, RestoreKnown, RequestType
<1> QED BY <1>3, <1>4, <1>5, <1>6, <1>7 DEF Next

LEMMA UnchangedTypeOK == ASSUME TypeOK, RestoreKnown, UNCHANGED vars PROVE TypeOK' /\ RestoreKnown'
<1>1. /\ glass' = glass /\ look' = look /\ stopping' = stopping /\ stopped' = stopped
      /\ recent' = recent /\ retry' = retry /\ asleep' = asleep /\ rushed' = rushed
      /\ threaded' = threaded /\ batch' = batch /\ flight' = flight /\ conn' = conn
      /\ mem' = mem /\ req' = req /\ disk' = disk /\ kept' = kept /\ lost' = lost
      /\ failures' = failures /\ handed' = handed /\ run' = run
  BY DEF vars
<1>2. RestoreKnown'
  BY <1>1 DEF RestoreKnown
<1>3. /\ (glass \in SlotType(GlassSaves))' /\ (look \in SlotType(LookSaves))'
      /\ (asleep \in SleepType)' /\ (rushed \in [glass : BOOLEAN, look : BOOLEAN])'
  BY <1>1 DEF TypeOK, SleepType
<1>4. /\ (threaded \in BOOLEAN)' /\ (stopping \in BOOLEAN)' /\ (stopped \in BOOLEAN)'
      /\ (recent \in BOOLEAN)' /\ (retry \in BOOLEAN)' /\ (conn \in BOOLEAN)'
      /\ (lost \in BOOLEAN)'
  BY <1>1, Zenon DEF TypeOK
<1>5. /\ (batch \in BatchType)' /\ (kept \in BatchType)'
      /\ (flight \in {"no", "begun", "landed", "refused", "failed", "closing", "closed"})'
  BY <1>1 DEF TypeOK
<1>6. /\ (mem \in MemoryType)' /\ (req \in RequestType)' /\ (disk \in DiskType)'
      /\ (failures \in Nat)' /\ (handed \in Nat)' /\ (run \in Nat)'
  BY <1>1 DEF TypeOK
<1> QED BY <1>2, <1>3, <1>4, <1>5, <1>6 DEF TypeOK

(* Every value the saver, its callers and the saved data hold is of its    *)
(* type: what reaches the disk is always a place, a pace and a look the    *)
(* prompter gave (saver.rs, runtime.rs, commands.rs).                      *)
THEOREM SaverTypeCorrect == Spec => [](TypeOK /\ RestoreKnown)
<1>1. Init => TypeOK /\ RestoreKnown
  BY InitTypeOK
<1>2. TypeOK /\ RestoreKnown /\ [Next]_vars => TypeOK' /\ RestoreKnown'
  BY ThreadTypeOK, TimeTypeOK, PrompterTypeOK, RequestLoopTypeOK, StartTypeOK, CrashTypeOK,
     RestoreKnownStep, UnchangedTypeOK DEF Next
<1> QED BY <1>1, <1>2, PTL DEF Spec

(***************************************************************************)
(* The place on the glass.                                                 *)
(***************************************************************************)
(* The slot g, the write b as far as fl, the saved data d, the newest      *)
(* place k and l (whether the saver gave up) agree.  A save is of an older *)
(* glass or of the present one; of the present one what waits is the       *)
(* newest there is; a write on its way has left what it took waiting; what *)
(* counts as written, and what landed, is what the disk holds; a write is  *)
(* refused only for an older glass; and the disk holds the newest place or *)
(* that place waits.                                                       *)
KeptOf(k, d) ==
    k # None => /\ k.v.script = d.script /\ k.v.rev = d.rev
                /\ d.place[k.v.script].n <= k.n

WaitingOf(g, k, d) ==
    g.pending # None => /\ g.pending.v.rev <= d.rev
                        /\ g.pending.v.rev = d.rev => g.pending = k

OnItsWay(g, b, fl, k, d) ==
    b # None => /\ b.v.rev <= d.rev
                /\ b.v.rev = d.rev =>
                       /\ k # None /\ g.pending = k
                       /\ b.v.script = d.script /\ b.n <= k.n
                       /\ fl = "begun" => d.place[b.v.script].n <= b.n
                       /\ fl = "landed" => d.place[b.v.script].v = b.v.place

WrittenOf(g, b, fl, d) ==
    g.written # None => /\ g.written.rev <= d.rev
                        /\ g.written.rev = d.rev =>
                               /\ g.written.script = d.script
                               /\ ~(fl = "landed" /\ b # None) =>
                                      d.place[g.written.script].v = g.written.place

RefusedOf(b, fl, d) == fl = "refused" => b # None /\ b.v.rev < d.rev

DiskOrWaiting(g, k, d, l) ==
    k # None => l \/ d.place[k.v.script].v = k.v.place \/ g.pending = k

Agree(g, b, fl, d, k, l) ==
    /\ KeptOf(k, d) /\ WaitingOf(g, k, d) /\ OnItsWay(g, b, fl, k, d)
    /\ WrittenOf(g, b, fl, d) /\ RefusedOf(b, fl, d) /\ DiskOrWaiting(g, k, d, l)

(* Nothing is numbered beyond the count; the memory shows the glass except *)
(* between a commit and the memory's following it; only the thread has a   *)
(* write on its way.                                                       *)
Counted ==
    /\ \A s \in Scripts : disk.place[s].n <= handed
    /\ kept.glass # None => kept.glass.n <= handed

MemoryShows ==
    req.pc \notin {"off", "committed"} => mem.script = disk.script /\ mem.rev = disk.rev

OnlyTheThread ==
    /\ ~threaded => flight = "no"
    /\ flight \in {"no", "closing", "closed"} => batch = NoBatch

(* Until the memory follows a commit, all that waits is of an older glass. *)
OlderGlass ==
    req.pc = "committed" => /\ glass.pending # None => glass.pending.v.rev < disk.rev
                            /\ batch.glass # None => batch.glass.v.rev < disk.rev

(* An engine that is off writes nothing.                                   *)
Idle == req.pc = "off" => flight = "no"

GlassInv ==
    /\ Agree(glass, batch.glass, flight, disk, kept.glass, lost)
    /\ Counted /\ MemoryShows /\ OnlyTheThread /\ OlderGlass /\ Idle

(* What a write changes of the saved places.                               *)
LEMMA WrittenPlaces ==
    ASSUME disk \in DiskType, NEW b \in BatchType
    PROVE  /\ WrittenDisk(b).script = disk.script /\ WrittenDisk(b).rev = disk.rev
           /\ \A s \in Scripts :
                WrittenDisk(b).place[s] =
                    IF Lands(b) /\ s = b.glass.v.script
                    THEN [v |-> b.glass.v.place, n |-> b.glass.n] ELSE disk.place[s]
BY DEF DiskType, WrittenDisk

(* Nothing is lost when a value that was written waits no more ...         *)
LEMMA DedupedAgrees ==
    ASSUME NEW g \in SlotType(GlassSaves), NEW d \in DiskType, NEW fl, NEW l,
           NEW k \in Waiting(GlassSaves), Agree(g, None, fl, d, k, l)
    PROVE  Agree(Deduped(g), None, fl, d, k, l)
<1>1. CASE g.pending # None /\ g.pending.v = g.written
  <2>1. /\ Deduped(g).pending = None /\ Deduped(g).written = g.written
    BY <1>1 DEF Deduped, Emptied, SlotType
  <2>2. g.pending \in Numbered(GlassSaves) /\ g.written # None
    BY <1>1, NoneIsNoSave, ConstantsAssumption DEF SlotType, Waiting, Numbered
  <2>3. DiskOrWaiting(Deduped(g), k, d, l)
    BY <1>1, <2>2 DEF Agree, DiskOrWaiting, WrittenOf, KeptOf, GlassSaves, Numbered
  <2> QED BY <2>1, <2>3 DEF Agree, WaitingOf, OnItsWay, WrittenOf
<1>2. CASE ~(g.pending # None /\ g.pending.v = g.written)
  BY <1>2 DEF Deduped
<1> QED BY <1>1, <1>2

(* ... nor when a slot is marked.                                          *)
LEMMA MarkedAgrees ==
    ASSUME NEW g \in SlotType(GlassSaves), NEW d, NEW fl, NEW l, NEW k, NEW b, NEW c,
           Agree(g, b, fl, d, k, l)
    PROVE  Agree(Marked(g, c), b, fl, d, k, l)
<1>1. Marked(g, c).pending = g.pending /\ Marked(g, c).written = g.written
  BY DEF Marked, SlotType
<1> QED BY <1>1 DEF Agree, WaitingOf, OnItsWay, WrittenOf, DiskOrWaiting

(* A write made on the caller's thread keeps the agreement, whether it     *)
(* commits ...                                                             *)
LEMMA CommittedHereAgrees ==
    ASSUME NEW g \in SlotType(GlassSaves), disk \in DiskType, NEW b \in BatchType,
           NEW k \in Waiting(GlassSaves), NEW l,
           Agree(g, None, "no", disk, k, l), b.glass = g.pending
    PROVE  /\ Agree(Settled(g, b.glass, Lands(b)), None, "no", WrittenDisk(b), k, l)
           /\ \A s \in Scripts : WrittenDisk(b).place[s].n >= disk.place[s].n
           /\ \A m \in Nat : /\ \A s \in Scripts : disk.place[s].n <= m
                             /\ k # None => k.n <= m
                             => \A s \in Scripts : WrittenDisk(b).place[s].n <= m
<1> DEFINE e == WrittenDisk(b)
           f == Settled(g, b.glass, Lands(b))
<1>1. /\ e.script = disk.script /\ e.rev = disk.rev
      /\ \A s \in Scripts :
             e.place[s] = IF Lands(b) /\ s = b.glass.v.script
                          THEN [v |-> b.glass.v.place, n |-> b.glass.n] ELSE disk.place[s]
  BY WrittenPlaces
<1>2. \A s \in Scripts : disk.place[s] \in Numbered(Places)
  BY DEF DiskType
<1>3. g.pending \in Waiting(GlassSaves) /\ disk.rev \in Nat
  BY DEF SlotType, DiskType
<1> HIDE DEF e
<1>4. CASE g.pending = None
  <2>1. ~Lands(b)
    BY <1>4 DEF Lands
  <2>2. \A s \in Scripts : e.place[s] = disk.place[s]
    BY <1>1, <2>1
  <2>3. f.pending = None /\ f.written = g.written
    BY <1>4 DEF Settled, SlotType
  <2>4. k # None => k.v.script \in Scripts
    BY NoneIsNoSave DEF Waiting, Numbered, GlassSaves
  <2>5. g.written # None => g.written.script \in Scripts
    BY DEF SlotType, GlassSaves
  <2>6. KeptOf(k, e) /\ WrittenOf(f, None, "no", e) /\ DiskOrWaiting(f, k, e, l)
    BY <1>1, <1>4, <2>2, <2>3, <2>4, <2>5 DEF Agree, KeptOf, WrittenOf, DiskOrWaiting
  <2>7. Agree(f, None, "no", e, k, l)
    BY <2>3, <2>6 DEF Agree, WaitingOf, OnItsWay, RefusedOf
  <2> QED BY <1>2, <2>2, <2>7 DEF e, f, Numbered
<1>5. CASE g.pending # None
  <2>0. /\ g.pending \in Numbered(GlassSaves) /\ g.pending.v \in GlassSaves
        /\ g.pending.v # None /\ g.pending.n \in Nat /\ g.pending.v.rev \in Nat
    BY <1>3, <1>5, ConstantsAssumption DEF Waiting, Numbered, GlassSaves
  <2>1. f.pending = None /\ f.written = IF Lands(b) THEN g.pending.v ELSE None
    BY <1>5 DEF Settled, Emptied, SlotType
  <2>2. k # None => k \in Numbered(GlassSaves) /\ k.v.script \in Scripts /\ k.n \in Nat
    BY NoneIsNoSave DEF Waiting, Numbered, GlassSaves
  <2>3. CASE g.pending.v.rev = disk.rev
    <3>1. g.pending = k /\ k # None /\ k.v.script = disk.script /\ k.v.rev = disk.rev
          /\ disk.place[k.v.script].n <= k.n
      BY <1>5, <2>3 DEF Agree, WaitingOf, KeptOf
    <3>2. Lands(b)
      BY <1>5, <3>1 DEF Lands
    <3>3. /\ e.place[k.v.script] = [v |-> k.v.place, n |-> k.n]
          /\ \A s \in Scripts : s # k.v.script => e.place[s] = disk.place[s]
      BY <1>1, <2>2, <3>1, <3>2
    <3>4. Agree(f, None, "no", e, k, l)
      BY <1>1, <2>0, <2>1, <2>2, <3>1, <3>2, <3>3
         DEF Agree, KeptOf, WaitingOf, OnItsWay, WrittenOf, RefusedOf, DiskOrWaiting
    <3> QED BY <1>2, <2>2, <3>1, <3>3, <3>4 DEF e, f, Numbered
  <2>4. CASE g.pending.v.rev # disk.rev
    <3>1. ~Lands(b)
      BY <2>4 DEF Lands
    <3>2. \A s \in Scripts : e.place[s] = disk.place[s]
      BY <1>1, <3>1
    <3>3. g.pending # k
      BY <2>4, <1>5 DEF Agree, KeptOf
    <3>4. f.pending = None /\ f.written = None
      BY <2>1, <3>1
    <3>5. Agree(f, None, "no", e, k, l)
      BY <1>1, <2>2, <3>2, <3>3, <3>4
         DEF Agree, KeptOf, WaitingOf, OnItsWay, WrittenOf, RefusedOf, DiskOrWaiting
    <3> QED BY <1>2, <3>2, <3>5 DEF e, f, Numbered
  <2> QED BY <2>3, <2>4
<1> QED BY <1>4, <1>5

(* ... or fails.                                                           *)
LEMMA UnsettledAgrees ==
    ASSUME NEW g \in SlotType(GlassSaves), NEW d, NEW b, NEW fl, NEW l \in BOOLEAN,
           NEW k \in Waiting(GlassSaves),
           stopping \in BOOLEAN, Agree(g, b, fl, d, k, l), ~(fl = "landed" /\ b # None)
    PROVE  Agree(Unsettled(g), None, "no", d, k, l \/ stopping)
<1>1. Unsettled(g).written = g.written
  BY DEF Unsettled, Emptied, SlotType
<1>2. CASE stopping
  <2>1. Unsettled(g).pending = None
    BY <1>2 DEF Unsettled, Emptied, SlotType
  <2> QED BY <1>1, <1>2, <2>1
          DEF Agree, KeptOf, WaitingOf, OnItsWay, WrittenOf, RefusedOf, DiskOrWaiting
<1>3. CASE ~stopping
  <2>1. Unsettled(g).pending = g.pending
    BY <1>3 DEF Unsettled, SlotType
  <2> QED BY <1>1, <1>3, <2>1
          DEF Agree, KeptOf, WaitingOf, OnItsWay, WrittenOf, RefusedOf, DiskOrWaiting
<1> QED BY <1>2, <1>3

LEMMA WriteHereAgrees ==
    ASSUME TypeOK, NEW g \in SlotType(GlassSaves), NEW l \in SlotType(LookSaves),
           NEW k \in Waiting(GlassSaves), Agree(g, None, "no", disk, k, lost), WriteHere(g, l)
    PROVE  /\ Agree(glass', None, "no", disk', k, lost')
           /\ \A s \in Scripts : disk'.place[s].n >= disk.place[s].n
           /\ \A m \in Nat : /\ \A s \in Scripts : disk.place[s].n <= m
                             /\ k # None => k.n <= m
                             => \A s \in Scripts : disk'.place[s].n <= m
           /\ disk'.script = disk.script /\ disk'.rev = disk.rev
<1> DEFINE dg == Deduped(g)
           dl == Deduped(l)
           b == BatchOf(dg, dl, TRUE)
<1>1. dg \in SlotType(GlassSaves) /\ dl \in SlotType(LookSaves)
  BY SlotOperations, NoneIsNoSave
<1>2. b \in BatchType
  BY <1>1, SlotOperations, NoneIsNoSave DEF BatchOf, BatchType
<1>3. b.glass = dg.pending
  BY DEF BatchOf, TakenFrom
<1>4. disk \in DiskType /\ lost \in BOOLEAN /\ stopping \in BOOLEAN
  BY DEF TypeOK
<1>5. Agree(dg, None, "no", disk, k, lost)
  BY <1>4, DedupedAgrees
<1>6. \A s \in Scripts : disk.place[s].n \in Nat
  BY <1>4 DEF DiskType, Numbered
<1> HIDE DEF dg, dl, b
<1> DEFINE mg == Marked(dg, b.glass)
<1>7. mg \in SlotType(GlassSaves) /\ Agree(mg, None, "no", disk, k, lost) /\ mg.pending = dg.pending
  <2>1. mg \in SlotType(GlassSaves)
    BY <1>1, SlotOperations, NoneIsNoSave
  <2>2. mg.pending = dg.pending
    BY <1>1 DEF Marked, SlotType
  <2> QED BY <1>1, <1>5, <2>1, <2>2, MarkedAgrees
<1> HIDE DEF mg
<1>8. CASE glass' = dg /\ look' = dl /\ UNCHANGED <<disk, retry, recent, failures, lost>>
  <2>1. disk' = disk /\ lost' = lost
    BY <1>8
  <2> QED BY <1>5, <1>6, <1>8, <2>1
<1>9. CASE /\ glass' = Settled(mg, b.glass, Lands(b)) /\ disk' = WrittenDisk(b)
           /\ UNCHANGED <<failures, lost>>
  <2>1. lost' = lost
    BY <1>9
  <2> QED BY <1>2, <1>3, <1>4, <1>7, <1>9, <2>1, CommittedHereAgrees, WrittenPlaces
<1>10. CASE /\ glass' = Unsettled(mg) /\ lost' = (lost \/ stopping) /\ UNCHANGED disk
  <2>1. disk' = disk
    BY <1>10
  <2> QED BY <1>4, <1>6, <1>7, <1>10, <2>1, UnsettledAgrees
<1> QED BY <1>8, <1>9, <1>10, Zenon DEF WriteHere, dg, dl, b, mg

(* A write of the thread: it commits, and is settled or not.               *)
LEMMA ThreadWritesAgrees ==
    ASSUME TypeOK, GlassInv, ThreadWrites
    PROVE  /\ Agree(glass, batch.glass, flight', disk', kept.glass, lost)
           /\ \A s \in Scripts : disk'.place[s].n >= disk.place[s].n
           /\ \A s \in Scripts : disk'.place[s].n <= handed
           /\ disk'.script = disk.script /\ disk'.rev = disk.rev
<1> DEFINE b == batch.glass
           k == kept.glass
<1>1. /\ flight = "begun" /\ disk' = WrittenDisk(batch)
      /\ flight' = IF b = None \/ Lands(batch) THEN "landed" ELSE "refused"
      /\ disk \in DiskType /\ batch \in BatchType
  BY DEF ThreadWrites, TypeOK
<1>2. /\ disk'.script = disk.script /\ disk'.rev = disk.rev
      /\ \A s \in Scripts :
             disk'.place[s] = IF Lands(batch) /\ s = b.v.script
                              THEN [v |-> b.v.place, n |-> b.n] ELSE disk.place[s]
  BY <1>1, WrittenPlaces
<1>3. /\ k # None => k \in Numbered(GlassSaves) /\ k.v.script \in Scripts /\ k.n \in Nat
      /\ b # None => b \in Numbered(GlassSaves) /\ b.v.script \in Scripts /\ b.n \in Nat
      /\ glass.written # None => glass.written.script \in Scripts
      /\ b # None => b.v.rev \in Nat
      /\ disk.rev \in Nat /\ handed \in Nat
      /\ \A s \in Scripts : disk.place[s].n \in Nat
  BY NoneIsNoSave DEF TypeOK, BatchType, Waiting, Numbered, GlassSaves, SlotType, DiskType
<1>4. /\ Agree(glass, b, flight, disk, k, lost)
      /\ \A s \in Scripts : disk.place[s].n <= handed
      /\ k # None => k.n <= handed
  BY DEF GlassInv, Counted
<1> HIDE DEF b, k
<1>5. CASE Lands(batch)
  <2>1. b # None /\ b.v.script = disk.script /\ b.v.rev = disk.rev /\ flight' = "landed"
    BY <1>1, <1>5 DEF Lands, b
  <2>2. k # None /\ glass.pending = k /\ b.n <= k.n /\ disk.place[b.v.script].n <= b.n
    BY <1>1, <1>4, <2>1 DEF Agree, OnItsWay
  <2>3. /\ disk'.place[b.v.script] = [v |-> b.v.place, n |-> b.n]
        /\ \A s \in Scripts : s # b.v.script => disk'.place[s] = disk.place[s]
    BY <1>2, <1>3, <1>5, <2>1
  <2>4. k.v.script = b.v.script
    BY <1>4, <2>1, <2>2 DEF Agree, KeptOf
  <2>5. Agree(glass, b, "landed", disk', k, lost)
    BY <1>2, <1>3, <1>4, <2>1, <2>2, <2>3, <2>4
       DEF Agree, KeptOf, WaitingOf, OnItsWay, WrittenOf, RefusedOf, DiskOrWaiting
  <2> QED BY <1>2, <1>3, <1>4, <2>1, <2>2, <2>3, <2>5 DEF b, k
<1>6. CASE ~Lands(batch)
  <2>1. \A s \in Scripts : disk'.place[s] = disk.place[s]
    BY <1>2, <1>6
  <2>2. CASE b = None
    <3>1. Agree(glass, b, "landed", disk', k, lost)
      BY <1>1, <1>2, <1>3, <1>4, <2>1, <2>2
         DEF Agree, KeptOf, WaitingOf, OnItsWay, WrittenOf, RefusedOf, DiskOrWaiting
    <3> QED BY <1>1, <1>2, <1>3, <1>4, <2>1, <2>2, <3>1 DEF b, k
  <2>3. CASE b # None
    <3>1. flight' = "refused"
      BY <1>1, <1>6, <2>3 DEF b
    <3>2. b.v.rev < disk.rev
      <4>1. ~(b.v.script = disk.script /\ b.v.rev = disk.rev)
        BY <1>6, <2>3 DEF Lands, b
      <4> QED BY <1>3, <1>4, <2>3, <4>1 DEF Agree, OnItsWay
    <3>3. Agree(glass, b, "refused", disk', k, lost)
      BY <1>1, <1>2, <1>3, <1>4, <2>1, <2>3, <3>2
         DEF Agree, KeptOf, WaitingOf, OnItsWay, WrittenOf, RefusedOf, DiskOrWaiting
    <3> QED BY <1>2, <1>3, <1>4, <2>1, <3>1, <3>3 DEF b, k
  <2> QED BY <2>2, <2>3
<1> QED BY <1>5, <1>6

LEMMA SettledAgrees ==
    ASSUME TypeOK, GlassInv, flight \in {"landed", "refused"}
    PROVE  Agree(Settled(glass, batch.glass, flight = "landed"), None, "no", disk,
                 kept.glass, lost)
<1> DEFINE b == batch.glass
           k == kept.glass
           f == Settled(glass, b, flight = "landed")
<1>1. Agree(glass, b, flight, disk, k, lost)
  BY DEF GlassInv
<1>2. /\ k # None => k \in Numbered(GlassSaves)
      /\ b # None => b \in Numbered(GlassSaves) /\ b.v \in GlassSaves /\ b.v # None
      /\ disk.rev \in Nat /\ b # None => b.v.rev \in Nat
      /\ glass.pending # None => glass.pending.v.rev \in Nat
  BY ConstantsAssumption
     DEF TypeOK, BatchType, Waiting, Numbered, GlassSaves, DiskType, SlotType
<1>3. /\ b = None => f.written = glass.written
      /\ b # None => f.written = IF flight = "landed" THEN b.v ELSE None
      /\ b # None /\ glass.pending # None /\ glass.pending.v = b.v => f.pending = None
      /\ ~(b # None /\ glass.pending # None /\ glass.pending.v = b.v) => f.pending = glass.pending
  BY DEF TypeOK, SlotType, Settled, Emptied
<1> HIDE DEF b, k, f
<1>4. KeptOf(k, disk) /\ WaitingOf(f, k, disk)
  BY <1>1, <1>3 DEF Agree, WaitingOf
<1>5. WrittenOf(f, None, "no", disk)
  BY <1>1, <1>2, <1>3 DEF Agree, WrittenOf, OnItsWay
<1>6. DiskOrWaiting(f, k, disk, lost)
  <2>1. SUFFICES ASSUME k # None, glass.pending = k, b # None, k.v = b.v
                 PROVE  disk.place[k.v.script].v = k.v.place
    BY <1>1, <1>3 DEF Agree, DiskOrWaiting
  <2>2. b.v.rev = disk.rev
    BY <1>1, <2>1 DEF Agree, KeptOf
  <2>3. flight = "landed"
    BY <1>1, <1>2, <2>1, <2>2 DEF Agree, RefusedOf
  <2> QED BY <1>1, <2>1, <2>2, <2>3 DEF Agree, OnItsWay
<1> QED BY <1>4, <1>5, <1>6 DEF Agree, OnItsWay, RefusedOf, b, k, f

(* A place handed over.                                                    *)
LEMMA HandOverAgrees ==
    ASSUME TypeOK, GlassInv, NEW h \in Numbered(GlassSaves), NEW due,
           h.v.script = disk.script, h.v.rev = disk.rev, h.n = handed + 1
    PROVE  Agree(HandOver(glass, h, due), batch.glass, flight, disk, h, lost)
<1> DEFINE g == HandOver(glass, h, due)
<1>1. g.pending = h /\ g.written = glass.written
  BY DEF HandOver, TypeOK, SlotType
<1>2. h # None /\ h.v.script \in Scripts
  BY NoneIsNoSave DEF Numbered, GlassSaves
<1>3. /\ \A s \in Scripts : disk.place[s].n \in Nat
      /\ batch.glass # None => batch.glass.n \in Nat
      /\ kept.glass # None => kept.glass.n \in Nat
      /\ handed \in Nat /\ disk.rev \in Nat
  BY DEF TypeOK, DiskType, Numbered, BatchType, Waiting
<1>4. Agree(glass, batch.glass, flight, disk, kept.glass, lost) /\ Counted
  BY DEF GlassInv
<1>5. KeptOf(h, disk)
  BY <1>2, <1>3, <1>4 DEF KeptOf, Counted
<1>6. WaitingOf(g, h, disk) /\ DiskOrWaiting(g, h, disk, lost)
  BY <1>1, <1>3 DEF WaitingOf, DiskOrWaiting
<1>7. OnItsWay(g, batch.glass, flight, h, disk)
  BY <1>1, <1>2, <1>3, <1>4 DEF Agree, OnItsWay, Counted
<1>8. WrittenOf(g, batch.glass, flight, disk) /\ RefusedOf(batch.glass, flight, disk)
  BY <1>1, <1>4 DEF Agree, WrittenOf
<1> QED BY <1>5, <1>6, <1>7, <1>8 DEF Agree

LEMMA HandedOverAgrees ==
    ASSUME TypeOK, OnlyTheThread, NEW g \in SlotType(GlassSaves), NEW l \in SlotType(LookSaves),
           NEW k \in Waiting(GlassSaves), Agree(g, batch.glass, flight, disk, k, lost),
           HandedOver(g, l)
    PROVE  /\ Agree(glass', batch.glass, flight, disk', k, lost')
           /\ \A s \in Scripts : disk'.place[s].n >= disk.place[s].n
           /\ \A m \in Nat : /\ \A s \in Scripts : disk.place[s].n <= m
                             /\ k # None => k.n <= m
                             => \A s \in Scripts : disk'.place[s].n <= m
           /\ disk'.script = disk.script /\ disk'.rev = disk.rev
<1>1. CASE threaded
  <2>1. glass' = g /\ disk' = disk /\ lost' = lost
    BY <1>1 DEF HandedOver
  <2>2. \A s \in Scripts : disk.place[s].n \in Nat
    BY DEF TypeOK, DiskType, Numbered
  <2> QED BY <2>1, <2>2
<1>2. CASE ~threaded
  <2>1. flight = "no" /\ batch.glass = None
    BY <1>2 DEF OnlyTheThread, NoBatch
  <2>2. WriteHere(g, l)
    BY <1>2 DEF HandedOver
  <2> QED BY <2>1, <2>2, WriteHereAgrees
<1> QED BY <1>1, <1>2

(* What every step but those that change the glass leaves true.            *)
PlacesGoOn == \A s \in Scripts : disk'.place[s].n >= disk.place[s].n

AgreesOn ==
    /\ Agree(glass, batch.glass, flight, disk, kept.glass, lost)'
    /\ Counted' /\ OnlyTheThread' /\ PlacesGoOn
    /\ disk'.script = disk.script /\ disk'.rev = disk.rev

(* Nothing of the place changes.                                           *)
LEMMA NothingChangesAgrees ==
    ASSUME TypeOK, GlassInv, glass'.pending = glass.pending, glass'.written = glass.written,
           batch' = batch, flight' = flight, threaded' = threaded, disk'.script = disk.script,
           disk'.rev = disk.rev, disk'.place = disk.place, kept'.glass = kept.glass, lost' = lost,
           handed' \in Nat, handed' >= handed
    PROVE  AgreesOn
<1>1. /\ \A s \in Scripts : disk.place[s].n \in Nat
      /\ kept.glass # None => kept.glass.n \in Nat
      /\ handed \in Nat
  BY DEF TypeOK, DiskType, Numbered, BatchType, Waiting
<1>2. Agree(glass, batch.glass, flight, disk, kept.glass, lost)'
  <2>1. Agree(glass, batch.glass, flight, disk, kept.glass, lost)
    BY DEF GlassInv
  <2> QED BY <2>1 DEF Agree, KeptOf, WaitingOf, OnItsWay, WrittenOf, RefusedOf, DiskOrWaiting
<1>3. \A s \in Scripts : disk'.place[s].n <= handed'
  BY <1>1 DEF GlassInv, Counted
<1>4. kept'.glass # None => kept'.glass.n <= handed'
  BY <1>1 DEF GlassInv, Counted
<1>5. OnlyTheThread'
  BY DEF GlassInv, OnlyTheThread, NoBatch
<1> QED BY <1>1, <1>2, <1>3, <1>4, <1>5 DEF AgreesOn, PlacesGoOn, Counted

LEMMA IgnoredAgrees ==
    ASSUME TypeOK, GlassInv, Ignored, batch' = batch, flight' = flight, threaded' = threaded,
           handed' \in {handed, handed + 1}
    PROVE  AgreesOn
<1>1. handed' \in Nat /\ handed' >= handed
  BY DEF TypeOK
<1>2. glass' = glass /\ disk' = disk /\ kept' = kept /\ lost' = lost
  BY DEF Ignored
<1> QED BY <1>1, <1>2, NothingChangesAgrees

LEMMA KeepGlassAgrees ==
    ASSUME TypeOK, GlassInv, NEW save \in GlassSaves, NEW urgency \in Urgencies,
           save.script = disk.script, save.rev = disk.rev, KeepGlass(save, urgency),
           batch' = batch, flight' = flight, threaded' = threaded
    PROVE  AgreesOn
<1> DEFINE h == [v |-> save, n |-> handed + 1]
           due == DueAt(urgency)
<1>1. h \in Numbered(GlassSaves) /\ due \in {"now", "later"} /\ handed' = handed + 1
      /\ handed \in Nat /\ handed' \in Nat
  BY DEF TypeOK, Numbered, DueAt, KeepGlass
<1>2. CASE Ignored
  BY <1>1, <1>2, IgnoredAgrees
<1>3. CASE /\ kept' = [kept EXCEPT !.glass = h]
           /\ HandedOver(HandOver(glass, h, due), look)
  <2> DEFINE g == HandOver(glass, h, due)
  <2>1. glass \in SlotType(GlassSaves) /\ look \in SlotType(LookSaves) /\ kept'.glass = h
        /\ disk \in DiskType
    BY <1>3 DEF TypeOK, BatchType
  <2>2. g \in SlotType(GlassSaves)
    BY <1>1, <2>1, SlotOperations, NoneIsNoSave
  <2>3. h \in Waiting(GlassSaves)
    BY <1>1 DEF Waiting
  <2>4. OnlyTheThread /\ Counted
    BY DEF GlassInv
  <2>5. Agree(g, batch.glass, flight, disk, h, lost)
    BY <1>1, HandOverAgrees
  <2>6. /\ Agree(glass', batch.glass, flight, disk', h, lost')
        /\ \A s \in Scripts : disk'.place[s].n >= disk.place[s].n
        /\ \A m \in Nat : /\ \A s \in Scripts : disk.place[s].n <= m
                          /\ h # None => h.n <= m
                          => \A s \in Scripts : disk'.place[s].n <= m
        /\ disk'.script = disk.script /\ disk'.rev = disk.rev
    <3> HIDE DEF g, h
    <3> QED BY <1>3, <2>1, <2>2, <2>3, <2>4, <2>5, HandedOverAgrees DEF g
  <2>7. \A s \in Scripts : disk.place[s].n <= handed'
    <3>1. \A s \in Scripts : disk.place[s].n \in Nat
      BY <2>1 DEF DiskType, Numbered
    <3> QED BY <1>1, <2>4, <3>1 DEF Counted
  <2>8. h.n <= handed'
    BY <1>1
  <2>9. Counted'
    BY <1>1, <2>1, <2>6, <2>7, <2>8 DEF Counted
  <2>10. OnlyTheThread'
    BY <2>4 DEF OnlyTheThread, NoBatch
  <2> QED BY <2>1, <2>6, <2>9, <2>10 DEF AgreesOn, PlacesGoOn
<1> QED BY <1>2, <1>3 DEF KeepGlass

LEMMA WaitingIsAgreed ==
    ASSUME TypeOK, GlassInv, NEW l \in SlotType(LookSaves), handed' = handed + 1,
           kept'.glass = kept.glass, HandedOver(glass, l),
           batch' = batch, flight' = flight, threaded' = threaded
    PROVE  AgreesOn
<1> DEFINE k == kept.glass
<1>1. glass \in SlotType(GlassSaves) /\ k \in Waiting(GlassSaves) /\ disk \in DiskType
      /\ handed \in Nat /\ handed' \in Nat
  BY DEF TypeOK, BatchType
<1>2. OnlyTheThread /\ Counted /\ Agree(glass, batch.glass, flight, disk, k, lost)
  BY DEF GlassInv
<1>3. /\ \A s \in Scripts : disk.place[s].n \in Nat
      /\ k # None => k.n \in Nat
  BY <1>1 DEF DiskType, Numbered, Waiting
<1>4. /\ \A s \in Scripts : disk.place[s].n <= handed'
      /\ k # None => k.n <= handed'
  BY <1>1, <1>2, <1>3 DEF Counted
<1> HIDE DEF k
<1>5. /\ Agree(glass', batch.glass, flight, disk', k, lost')
      /\ \A s \in Scripts : disk'.place[s].n >= disk.place[s].n
      /\ \A m \in Nat : /\ \A s \in Scripts : disk.place[s].n <= m
                        /\ k # None => k.n <= m
                        => \A s \in Scripts : disk'.place[s].n <= m
      /\ disk'.script = disk.script /\ disk'.rev = disk.rev
  BY <1>1, <1>2, HandedOverAgrees
<1>6. Counted'
  BY <1>1, <1>4, <1>5 DEF Counted, k
<1>7. OnlyTheThread'
  BY <1>2 DEF OnlyTheThread, NoBatch
<1> QED BY <1>5, <1>6, <1>7 DEF AgreesOn, PlacesGoOn, k

LEMMA KeepLookAgrees ==
    ASSUME TypeOK, GlassInv, NEW save \in LookSaves, NEW urgency \in Urgencies,
           KeepLook(save, urgency), batch' = batch, flight' = flight, threaded' = threaded
    PROVE  AgreesOn
<1> DEFINE h == [v |-> save, n |-> handed + 1]
           due == DueAt(urgency)
<1>1. h \in Numbered(LookSaves) /\ due \in {"now", "later"} /\ handed' = handed + 1
  BY DEF TypeOK, Numbered, DueAt, KeepLook
<1>2. CASE Ignored
  BY <1>1, <1>2, IgnoredAgrees
<1>3. CASE /\ kept' = [kept EXCEPT !.look = h]
           /\ HandedOver(glass, HandOver(look, h, due))
  <2>1. look \in SlotType(LookSaves) /\ kept'.glass = kept.glass
    BY <1>3 DEF TypeOK, BatchType
  <2>2. HandOver(look, h, due) \in SlotType(LookSaves)
    BY <1>1, <2>1, SlotOperations, NoneIsNoSave
  <2> QED BY <1>1, <1>3, <2>1, <2>2, WaitingIsAgreed
<1> QED BY <1>2, <1>3 DEF KeepLook

(* A step on the prompter, under its lock, or of the request loop.         *)
LEMMA LockedStep ==
    ASSUME GlassInv, AgreesOn, mem'.script = mem.script, mem'.rev = mem.rev,
           req.pc \notin {"off", "committed"}, req'.pc \notin {"off", "committed"}
    PROVE  GlassInv' /\ PlacesGoOn
BY DEF GlassInv, AgreesOn, MemoryShows, OlderGlass, Idle

(* A step of the thread or of time.                                        *)
LEMMA BackgroundStep ==
    ASSUME GlassInv, AgreesOn, mem' = mem, req' = req,
           req.pc # "off" \/ flight # "no" \/ flight' = "no",
           \/ glass'.pending = None
           \/ glass'.pending = glass.pending,
           \/ batch'.glass = None
           \/ batch'.glass = batch.glass
           \/ batch'.glass = glass.pending
    PROVE  GlassInv' /\ PlacesGoOn
BY DEF GlassInv, AgreesOn, MemoryShows, OlderGlass, Idle

LEMMA ThreadLooksAgrees ==
    ASSUME TypeOK, GlassInv, ThreadLooks
    PROVE  /\ AgreesOn
           /\ glass'.pending = None \/ glass'.pending = glass.pending
           /\ \/ batch'.glass = None
              \/ batch'.glass = batch.glass
              \/ batch'.glass = glass.pending
<1> DEFINE may == stopping \/ ~retry
           dg == IF may THEN Deduped(glass) ELSE glass
           dl == IF may THEN Deduped(look) ELSE look
           b == IF may THEN BatchOf(dg, dl, stopping) ELSE NoBatch
           k == kept.glass
<1>1. /\ glass \in SlotType(GlassSaves) /\ disk \in DiskType /\ k \in Waiting(GlassSaves)
      /\ handed \in Nat
  BY DEF TypeOK, BatchType
<1>2. /\ flight = "no" /\ batch = NoBatch /\ batch.glass = None /\ threaded
      /\ Agree(glass, None, "no", disk, k, lost)
  BY DEF ThreadLooks, ThreadIdle, GlassInv, OnlyTheThread, NoBatch
<1>3. /\ dg \in SlotType(GlassSaves) /\ Agree(dg, None, "no", disk, k, lost)
      /\ dg.pending = None \/ dg.pending = glass.pending
  <2>1. Deduped(glass) \in SlotType(GlassSaves)
    BY <1>1, SlotOperations, NoneIsNoSave
  <2>2. Agree(Deduped(glass), None, "no", disk, k, lost)
    BY <1>1, <1>2, DedupedAgrees
  <2>3. Deduped(glass).pending = None \/ Deduped(glass).pending = glass.pending
    BY <1>1 DEF Deduped, Emptied, SlotType
  <2> QED BY <1>1, <1>2, <2>1, <2>2, <2>3
<1>4. b.glass = None \/ b.glass = dg.pending
  BY DEF BatchOf, TakenFrom, NoBatch
<1>5. /\ disk' = disk /\ kept' = kept /\ lost' = lost /\ handed' = handed
      /\ threaded' = threaded
  BY DEF ThreadLooks, countVars
<1>6. /\ \A s \in Scripts : disk.place[s].n \in Nat
      /\ k # None => k.n \in Nat
      /\ \A s \in Scripts : disk.place[s].n >= disk.place[s].n
  BY <1>1 DEF DiskType, Numbered, Waiting
<1> HIDE DEF may, dg, dl, b
<1>7. CASE glass' = Marked(dg, b.glass) /\ batch' = b /\ flight' = "begun"
  <2> DEFINE mg == Marked(dg, b.glass)
  <2>1. mg.pending = dg.pending /\ mg.written = dg.written
    BY <1>3 DEF Marked, SlotType
  <2>2. WaitingOf(mg, k, disk) /\ KeptOf(k, disk) /\ DiskOrWaiting(mg, k, disk, lost)
        /\ RefusedOf(b.glass, "begun", disk) /\ WrittenOf(mg, b.glass, "begun", disk)
    BY <1>3, <2>1 DEF Agree, WaitingOf, DiskOrWaiting, RefusedOf, WrittenOf
  <2>3. OnItsWay(mg, b.glass, "begun", k, disk)
    <3>1. SUFFICES ASSUME b.glass # None, b.glass = dg.pending
                   PROVE  OnItsWay(mg, b.glass, "begun", k, disk)
      BY <1>4 DEF OnItsWay
    <3>2. /\ b.glass.v.rev <= disk.rev
          /\ b.glass.v.rev = disk.rev => b.glass = k
      BY <1>3, <3>1 DEF Agree, WaitingOf
    <3>3. b.glass = k => /\ k # None /\ k.v.script = disk.script
                         /\ disk.place[k.v.script].n <= k.n
      BY <1>3, <3>1 DEF Agree, KeptOf
    <3> QED BY <1>6, <2>1, <3>1, <3>2, <3>3 DEF OnItsWay
  <2>4. Agree(mg, b.glass, "begun", disk, k, lost)
    BY <2>2, <2>3 DEF Agree
  <2> HIDE DEF mg
  <2>5. Agree(glass, batch.glass, flight, disk, kept.glass, lost)'
    BY <1>5, <1>7, <2>4 DEF mg
  <2>6. Counted' /\ OnlyTheThread' /\ PlacesGoOn
    BY <1>2, <1>5, <1>6, <1>7 DEF GlassInv, Counted, OnlyTheThread, PlacesGoOn
  <2> QED BY <1>3, <1>4, <1>5, <1>7, <2>1, <2>5, <2>6 DEF AgreesOn, mg
<1>8. CASE glass' = dg /\ flight' \in {"closing", "no"} /\ batch' = batch
  <2>1. Agree(dg, None, flight', disk, k, lost)
    BY <1>3, <1>8 DEF Agree, OnItsWay, WrittenOf, RefusedOf
  <2>2. Agree(glass, batch.glass, flight, disk, kept.glass, lost)'
    BY <1>2, <1>5, <1>8, <2>1
  <2>3. Counted' /\ OnlyTheThread' /\ PlacesGoOn
    BY <1>2, <1>5, <1>6, <1>8 DEF GlassInv, Counted, OnlyTheThread, PlacesGoOn, NoBatch
  <2> QED BY <1>3, <1>5, <1>8, <2>2, <2>3 DEF AgreesOn
<1>9. \/ glass' = Marked(dg, b.glass) /\ batch' = b /\ flight' = "begun"
      \/ glass' = dg /\ flight' = "closing" /\ batch' = batch
      \/ glass' = dg /\ flight' = flight /\ batch' = batch
  BY Zenon DEF ThreadLooks, may, dg, dl, b
<1> QED BY <1>2, <1>7, <1>8, <1>9

LEMMA ThreadInv == ASSUME TypeOK, GlassInv, Thread PROVE GlassInv' /\ PlacesGoOn
<1>0. handed \in Nat /\ handed >= handed
  BY DEF TypeOK
<1>1. CASE ThreadLooks
  <2>1. mem' = mem /\ req' = req /\ req.pc # "off"
    BY <1>1 DEF ThreadLooks, ThreadIdle, Alive
  <2> QED BY <1>1, <2>1, ThreadLooksAgrees, BackgroundStep
<1>2. CASE ThreadWakes
  <2>1. /\ glass' = glass /\ batch' = batch /\ flight' = flight /\ threaded' = threaded
        /\ disk' = disk /\ kept' = kept /\ lost' = lost /\ handed' = handed
        /\ mem' = mem /\ req' = req
    BY <1>2 DEF ThreadWakes, writeVars, countVars
  <2> QED BY <1>0, <2>1, NothingChangesAgrees, BackgroundStep
<1>3. CASE ThreadWrites
  <2>1. /\ glass' = glass /\ batch' = batch /\ threaded' = threaded
        /\ kept' = kept /\ lost' = lost /\ handed' = handed /\ mem' = mem /\ req' = req
        /\ flight = "begun" /\ flight' \in {"landed", "refused"}
    BY <1>3 DEF ThreadWrites, saverVars, countVars
  <2>2. OnlyTheThread'
    BY <2>1 DEF GlassInv, OnlyTheThread
  <2>3. Counted'
    BY <1>3, <2>1, ThreadWritesAgrees DEF GlassInv, Counted
  <2>4. AgreesOn
    BY <1>3, <2>1, <2>2, <2>3, ThreadWritesAgrees DEF AgreesOn, PlacesGoOn
  <2> QED BY <2>1, <2>4, BackgroundStep
<1>4. CASE ThreadFails
  <2>1. /\ glass' = glass /\ batch' = batch /\ threaded' = threaded /\ disk' = disk
        /\ kept' = kept /\ lost' = lost /\ handed' = handed /\ mem' = mem /\ req' = req
        /\ flight = "begun" /\ flight' = "failed"
    BY <1>4 DEF ThreadFails, saverVars
  <2>2. Agree(glass, batch.glass, flight, disk, kept.glass, lost)'
    BY <2>1 DEF GlassInv, Agree, KeptOf, WaitingOf, OnItsWay, WrittenOf, RefusedOf, DiskOrWaiting
  <2>3. OnlyTheThread' /\ Counted'
    BY <2>1 DEF GlassInv, OnlyTheThread, Counted
  <2>4. PlacesGoOn
    BY <2>1 DEF PlacesGoOn, TypeOK, DiskType, Numbered
  <2> QED BY <2>1, <2>2, <2>3, <2>4, BackgroundStep DEF AgreesOn
<1>5. CASE ThreadSettles
  <2>1. /\ batch' = NoBatch /\ threaded' = threaded /\ disk' = disk
        /\ kept' = kept /\ handed' = handed /\ mem' = mem /\ req' = req
        /\ flight \in {"landed", "refused", "failed"} /\ flight' = "no"
    BY <1>5 DEF ThreadSettles, countVars
  <2>2. glass \in SlotType(GlassSaves) /\ kept.glass \in Waiting(GlassSaves)
        /\ stopping \in BOOLEAN /\ lost \in BOOLEAN
    BY DEF TypeOK, BatchType
  <2>3. batch'.glass = None
    BY <2>1 DEF NoBatch
  <2>4. /\ Agree(glass', None, "no", disk, kept.glass, lost')
        /\ glass'.pending = None \/ glass'.pending = glass.pending
    <3>1. CASE flight = "failed" /\ glass' = Unsettled(glass) /\ lost' = (lost \/ stopping)
      <4>1. Agree(glass, batch.glass, flight, disk, kept.glass, lost)
        BY DEF GlassInv
      <4>2. Agree(Unsettled(glass), None, "no", disk, kept.glass, lost \/ stopping)
        BY <2>2, <3>1, <4>1, UnsettledAgrees
      <4>3. Unsettled(glass).pending \in {None, glass.pending}
        BY <2>2 DEF Unsettled, Emptied, SlotType
      <4> QED BY <3>1, <4>2, <4>3
    <3>2. CASE /\ flight # "failed" /\ UNCHANGED <<rushed, lost>>
               /\ glass' = Settled(glass, batch.glass, flight = "landed")
      <4>1. Agree(Settled(glass, batch.glass, flight = "landed"), None, "no", disk,
                  kept.glass, lost)
        BY <2>1, <3>2, SettledAgrees
      <4>2. Settled(glass, batch.glass, flight = "landed").pending \in {None, glass.pending}
        BY <2>2 DEF Settled, Emptied, SlotType
      <4> QED BY <3>2, <4>1, <4>2
    <3> QED BY <1>5, <3>1, <3>2, Zenon DEF ThreadSettles
  <2>5. OnlyTheThread' /\ Counted'
    BY <2>1 DEF GlassInv, OnlyTheThread, Counted
  <2>6. PlacesGoOn
    BY <2>1 DEF PlacesGoOn, TypeOK, DiskType, Numbered
  <2>7. Agree(glass, batch.glass, flight, disk, kept.glass, lost)'
    BY <2>1, <2>3, <2>4
  <2> QED BY <2>1, <2>3, <2>4, <2>5, <2>6, <2>7, BackgroundStep DEF AgreesOn
<1>6. CASE ThreadCloses \/ ThreadEnds
  <2>1. /\ glass' = glass /\ batch' = batch /\ disk' = disk
        /\ kept' = kept /\ lost' = lost /\ handed' = handed /\ mem' = mem /\ req' = req
        /\ flight \in {"closing", "closed"} /\ flight' \in {"closed", "no"}
        /\ threaded' = threaded \/ flight' = "no"
    BY <1>6 DEF ThreadCloses, ThreadEnds, saverVars, countVars
  <2>2. batch = NoBatch /\ batch.glass = None /\ OnlyTheThread'
    BY <1>6, <2>1 DEF GlassInv, OnlyTheThread, NoBatch, ThreadCloses, ThreadEnds
  <2>3. Agree(glass, batch.glass, flight, disk, kept.glass, lost)'
    BY <2>1, <2>2
       DEF GlassInv, Agree, KeptOf, WaitingOf, OnItsWay, WrittenOf, RefusedOf, DiskOrWaiting
  <2>4. Counted'
    BY <2>1 DEF GlassInv, Counted
  <2>5. PlacesGoOn
    BY <2>1 DEF PlacesGoOn, TypeOK, DiskType, Numbered
  <2> QED BY <2>1, <2>2, <2>3, <2>4, <2>5, BackgroundStep DEF AgreesOn
<1> QED BY <1>1, <1>2, <1>3, <1>4, <1>5, <1>6 DEF Thread

LEMMA TimeInv == ASSUME TypeOK, GlassInv, Time PROVE GlassInv' /\ PlacesGoOn
<1>1. /\ batch' = batch /\ flight' = flight /\ threaded' = threaded
      /\ disk' = disk /\ kept' = kept /\ lost' = lost /\ handed' = handed
      /\ mem' = mem /\ req' = req
  BY DEF Time, GlassDueComes, LookDueComes, SecondPasses, RetryPasses, writeVars, countVars
<1>2. glass'.pending = glass.pending /\ glass'.written = glass.written
  <2>1. glass' = glass \/ glass' = [glass EXCEPT !.due = "now"]
    BY DEF Time, GlassDueComes, LookDueComes, SecondPasses, RetryPasses
  <2> QED BY <2>1 DEF TypeOK, SlotType
<1>3. handed' \in Nat /\ handed' >= handed
  BY <1>1 DEF TypeOK
<1> QED BY <1>1, <1>2, <1>3, NothingChangesAgrees, BackgroundStep

(* A commit: whatever waits is of an older glass now.                      *)
LEMMA CommitGlassInv ==
    ASSUME TypeOK, GlassInv, NEW script \in Scripts \cup {NoScript}, NEW D \in SUBSET Scripts,
           NEW places \in [D -> Places], script # NoScript => script \in D,
           CommitGlass(script, places)
    PROVE  GlassInv' /\ PlacesGoOn
<1> DEFINE v == [script |-> script, rev |-> disk.rev + 1, place |-> places[script]]
<1>1. /\ disk.rev \in Nat /\ handed \in Nat
      /\ \A s \in Scripts : disk.place[s] \in Numbered(Places) /\ disk.place[s].n \in Nat
      /\ glass.pending # None => glass.pending.v.rev \in Nat
      /\ batch.glass # None => batch.glass.v.rev \in Nat
      /\ glass.written # None => glass.written.rev \in Nat
  BY DEF TypeOK, DiskType, Numbered, SlotType, BatchType, Waiting, GlassSaves
<1>2. /\ glass' = glass /\ batch' = batch /\ flight' = flight /\ threaded' = threaded
      /\ lost' = lost /\ handed' = handed + 1
  BY DEF CommitGlass, saverVars, writeVars
<1>3. /\ disk'.script = script /\ disk'.rev = disk.rev + 1
      /\ \A s \in Scripts : disk'.place[s] = IF s \in D THEN [v |-> places[s], n |-> handed + 1]
                                                       ELSE disk.place[s]
  BY DEF CommitGlass, TypeOK, DiskType
<1>4. kept'.glass = IF script = NoScript THEN None ELSE [v |-> v, n |-> handed + 1]
  BY DEF CommitGlass, TypeOK, BatchType
<1>5. req'.pc = "committed"
  BY DEF CommitGlass, TypeOK, RequestType
<1> HIDE DEF v
<1>6. \A s \in Scripts : disk'.place[s].n >= disk.place[s].n /\ disk'.place[s].n <= handed + 1
  <2> SUFFICES ASSUME NEW s \in Scripts
               PROVE  disk'.place[s].n >= disk.place[s].n /\ disk'.place[s].n <= handed + 1
    OBVIOUS
  <2>1. disk.place[s].n <= handed /\ disk.place[s].n \in Nat
    BY <1>1 DEF GlassInv, Counted
  <2>2. CASE s \in D
    <3>1. disk'.place[s] = [v |-> places[s], n |-> handed + 1]
      BY <1>3, <2>2
    <3> QED BY <1>1, <2>1, <3>1
  <2>3. CASE s \notin D
    <3>1. disk'.place[s] = disk.place[s]
      BY <1>3, <2>3
    <3> QED BY <1>1, <2>1, <3>1
  <2> QED BY <2>2, <2>3
<1>7. Agree(glass, batch.glass, flight, disk, kept.glass, lost)
  BY DEF GlassInv
<1>8. /\ glass.pending # None => glass.pending.v.rev < disk'.rev
      /\ batch.glass # None => batch.glass.v.rev < disk'.rev
      /\ glass.written # None => glass.written.rev < disk'.rev
  BY <1>1, <1>3, <1>7 DEF Agree, WaitingOf, OnItsWay, WrittenOf
<1>9. KeptOf(kept'.glass, disk') /\ DiskOrWaiting(glass, kept'.glass, disk', lost)
  <2>1. CASE script = NoScript
    BY <1>4, <2>1 DEF KeptOf, DiskOrWaiting
  <2>2. CASE script # NoScript
    <3>1. kept'.glass = [v |-> v, n |-> handed + 1] /\ script \in D
      BY <1>4, <2>2
    <3>2. disk'.place[script] = [v |-> places[script], n |-> handed + 1]
      BY <1>3, <3>1
    <3>3. v.script = script /\ v.rev = disk.rev + 1 /\ v.place = places[script]
      BY DEF v
    <3> QED BY <1>1, <1>3, <3>1, <3>2, <3>3 DEF KeptOf, DiskOrWaiting
  <2> QED BY <2>1, <2>2
<1>10. /\ WaitingOf(glass, kept'.glass, disk') /\ OnItsWay(glass, batch.glass, flight, kept'.glass, disk')
       /\ WrittenOf(glass, batch.glass, flight, disk')
  BY <1>1, <1>3, <1>8 DEF WaitingOf, OnItsWay, WrittenOf
<1>11. RefusedOf(batch.glass, flight, disk')
  BY <1>7, <1>8 DEF Agree, RefusedOf
<1>12. Agree(glass, batch.glass, flight, disk, kept.glass, lost)'
  BY <1>2, <1>9, <1>10, <1>11 DEF Agree
<1>13. Counted'
  BY <1>1, <1>2, <1>4, <1>6 DEF Counted
<1>14. MemoryShows' /\ OnlyTheThread' /\ OlderGlass' /\ Idle'
  BY <1>2, <1>5, <1>8 DEF GlassInv, Idle, MemoryShows, OnlyTheThread, OlderGlass, NoBatch
<1> QED BY <1>6, <1>12, <1>13, <1>14 DEF GlassInv, PlacesGoOn

LEMMA RememberInv == ASSUME TypeOK, GlassInv, Remember PROVE GlassInv' /\ PlacesGoOn
<1>1. /\ batch' = batch /\ flight' = flight /\ threaded' = threaded /\ disk' = disk
      /\ kept' = kept /\ lost' = lost /\ handed' = handed /\ req.pc = "committed"
  BY DEF Remember, writeVars, countVars
<1>2. glass'.pending = None /\ glass'.written = None
  BY DEF Remember, TypeOK, SlotType, Emptied
<1>3. mem'.script = disk.script /\ mem'.rev = disk.rev /\ req'.pc = "idle"
  BY DEF Remember, TypeOK, MemoryType, RequestType
<1>4. /\ Agree(glass, batch.glass, flight, disk, kept.glass, lost)
      /\ glass.pending # None => glass.pending.v.rev < disk.rev
      /\ batch.glass # None => batch.glass.v.rev < disk.rev
  BY <1>1 DEF GlassInv, OlderGlass
<1>5. /\ disk.rev \in Nat /\ \A s \in Scripts : disk.place[s].n \in Nat
      /\ glass.pending # None => glass.pending.v.rev \in Nat
      /\ batch.glass # None => batch.glass.v.rev \in Nat
  BY DEF TypeOK, DiskType, Numbered, SlotType, BatchType, Waiting, GlassSaves
<1>6. DiskOrWaiting(glass', kept.glass, disk, lost)
  <2>1. kept.glass # None => glass.pending # kept.glass
    BY <1>4, <1>5 DEF Agree, KeptOf
  <2> QED BY <1>4, <2>1 DEF Agree, DiskOrWaiting
<1>7. Agree(glass', batch.glass, flight, disk, kept.glass, lost)
  BY <1>2, <1>4, <1>5, <1>6 DEF Agree, WaitingOf, OnItsWay, WrittenOf
<1>8. Agree(glass, batch.glass, flight, disk, kept.glass, lost)'
  BY <1>1, <1>7
<1>9. Counted' /\ MemoryShows' /\ OnlyTheThread' /\ OlderGlass' /\ Idle' /\ PlacesGoOn
  BY <1>1, <1>3, <1>5
     DEF GlassInv, Idle, Counted, MemoryShows, OnlyTheThread, OlderGlass, PlacesGoOn, NoBatch
<1> QED BY <1>8, <1>9 DEF GlassInv

(* An edit of a script that is not on the glass.                           *)
LEMMA EditInv ==
    ASSUME TypeOK, GlassInv, NEW script \in Scripts, NEW carried \in Places, Edit(script, carried)
    PROVE  GlassInv' /\ PlacesGoOn
<1>1. /\ glass' = glass /\ batch' = batch /\ flight' = flight /\ threaded' = threaded
      /\ kept' = kept /\ lost' = lost /\ handed' = handed + 1 /\ mem' = mem /\ req' = req
      /\ req.pc = "idle" /\ script # mem.script
  BY DEF Edit, saverVars, writeVars
<1>2. /\ disk'.script = disk.script /\ disk'.rev = disk.rev
      /\ \A s \in Scripts : disk'.place[s] = IF s = script
                                             THEN [v |-> carried, n |-> handed + 1]
                                             ELSE disk.place[s]
  BY DEF Edit, TypeOK, DiskType
<1>3. script # disk.script
  BY <1>1 DEF GlassInv, MemoryShows
<1>4. /\ handed \in Nat /\ \A s \in Scripts : disk.place[s].n \in Nat
      /\ kept.glass # None => kept.glass.v.script \in Scripts /\ kept.glass.n \in Nat
      /\ batch.glass # None => batch.glass.v.script \in Scripts
      /\ glass.written # None => glass.written.script \in Scripts
  BY NoneIsNoSave
     DEF TypeOK, DiskType, Numbered, BatchType, Waiting, GlassSaves, SlotType
<1>5. \A s \in Scripts : s = disk.script => disk'.place[s] = disk.place[s]
  BY <1>2, <1>3
<1>6. Agree(glass, batch.glass, flight, disk, kept.glass, lost)
  BY DEF GlassInv
<1>7. Agree(glass, batch.glass, flight, disk', kept.glass, lost)
  BY <1>2, <1>4, <1>5, <1>6
     DEF Agree, KeptOf, WaitingOf, OnItsWay, WrittenOf, RefusedOf, DiskOrWaiting
<1>8. Counted' /\ PlacesGoOn
  BY <1>1, <1>2, <1>4 DEF GlassInv, Counted, PlacesGoOn
<1>9. MemoryShows' /\ OnlyTheThread' /\ OlderGlass' /\ Idle'
  BY <1>1, <1>2 DEF GlassInv, Idle, MemoryShows, OnlyTheThread, OlderGlass, NoBatch
<1>10. Agree(glass, batch.glass, flight, disk, kept.glass, lost)'
  BY <1>1, <1>7
<1> QED BY <1>8, <1>9, <1>10 DEF GlassInv

LEMMA PrompterInv == ASSUME TypeOK, RestoreKnown, GlassInv, Prompter PROVE GlassInv' /\ PlacesGoOn
<1>0. "now" \in Urgencies /\ "coalesced" \in Urgencies /\ handed \in Nat /\ req \in RequestType
  BY DEF Urgencies, TypeOK
<1>1. ASSUME NEW place \in Places, NEW urgency \in Urgencies, KeepPlace(place, urgency)
      PROVE  GlassInv' /\ PlacesGoOn
  <2> DEFINE save == [script |-> mem.script, rev |-> mem.rev, place |-> place]
  <2>1. /\ KeepGlass(save, urgency) /\ mem.script # NoScript /\ mem' = mem /\ req' = req
        /\ req.pc \notin {"off", "committed"}
        /\ batch' = batch /\ flight' = flight /\ threaded' = threaded
    BY <1>1 DEF KeepPlace, Unlocked, writeVars
  <2>2. save \in GlassSaves
    BY <2>1, PlaceSaveType
  <2>3. save.script = disk.script /\ save.rev = disk.rev
    BY <2>1 DEF GlassInv, MemoryShows
  <2> HIDE DEF save
  <2>4. AgreesOn
    BY <2>1, <2>2, <2>3, KeepGlassAgrees
  <2> QED BY <2>1, <2>4, LockedStep
<1>2. ASSUME NEW shown \in Shown, NEW laid \in Laid, SetLook(shown, laid)
      PROVE  GlassInv' /\ PlacesGoOn
  <2>1. NextLook(shown, laid) \in LookSaves
    BY NextLookType
  <2>2. /\ KeepLook(NextLook(shown, laid), "coalesced")
        /\ batch' = batch /\ flight' = flight /\ threaded' = threaded
        /\ req.pc \notin {"off", "committed"}
    BY <1>2 DEF SetLook, Unlocked, writeVars
  <2>3. mem'.script = mem.script /\ mem'.rev = mem.rev /\ req'.pc = req.pc
    BY <1>0, <1>2 DEF SetLook, TypeOK, MemoryType, RequestType
  <2>4. AgreesOn
    BY <1>0, <2>1, <2>2, KeepLookAgrees
  <2> QED BY <2>2, <2>3, <2>4, LockedStep
<1>3. ASSUME NEW script \in Scripts, NEW place \in Places, PutOn(script, place)
      PROVE  GlassInv' /\ PlacesGoOn
  <2> DEFINE D == {script, mem.script} \ {NoScript}
             places == [s \in D |-> IF s = script THEN StartOf(disk.place[script].v) ELSE place]
  <2>1. mem.script \in Scripts \cup {NoScript} /\ disk.place[script].v \in Places
    BY DEF TypeOK, MemoryType, DiskType, Numbered
  <2>2. D \in SUBSET Scripts /\ script \in D
    BY <2>1, ConstantsAssumption
  <2>3. StartOf(disk.place[script].v) \in Places
    BY <2>1, ConstantsAssumption DEF StartOf
  <2>4. places \in [D -> Places]
    BY <2>3
  <2>5. CommitGlass(script, places)
    BY <1>3 DEF PutOn
  <2> HIDE DEF D, places
  <2> QED BY <2>2, <2>4, <2>5, CommitGlassInv
<1>4. ASSUME NEW place \in Places, Update(place) \/ Clear(place) PROVE GlassInv' /\ PlacesGoOn
  <2> DEFINE places == [s \in {mem.script} |-> place]
  <2>1. mem.script \in Scripts
    BY <1>4 DEF TypeOK, MemoryType, Update, Clear
  <2>2. places \in [{mem.script} -> Places] /\ {mem.script} \in SUBSET Scripts
    BY <2>1
  <2>3. CommitGlass(mem.script, places) \/ CommitGlass(NoScript, places)
    BY <1>4 DEF Update, Clear
  <2> HIDE DEF places
  <2> QED BY <2>1, <2>2, <2>3, CommitGlassInv
<1>5. ASSUME NEW script \in Scripts, NEW place \in Places, Edit(script, place)
      PROVE  GlassInv' /\ PlacesGoOn
  BY <1>5, EditInv
<1>6. ASSUME NEW place \in Places, RestoreHolds(place) PROVE GlassInv' /\ PlacesGoOn
  <2> DEFINE save == [script |-> mem.script, rev |-> mem.rev, place |-> place]
  <2>1. /\ mem' = mem /\ req.pc = "restored" /\ req'.pc = "settling"
        /\ batch' = batch /\ flight' = flight /\ threaded' = threaded
    BY <1>0, <1>6 DEF RestoreHolds, writeVars, RequestType
  <2>2. CASE mem.script # NoScript
    <3>1. save \in GlassSaves
      BY <2>2, PlaceSaveType
    <3>2. save.script = disk.script /\ save.rev = disk.rev /\ KeepGlass(save, "now")
      BY <1>6, <2>1, <2>2 DEF GlassInv, MemoryShows, RestoreHolds
    <3> HIDE DEF save
    <3>3. AgreesOn
      BY <1>0, <2>1, <3>1, <3>2, KeepGlassAgrees
    <3> QED BY <2>1, <3>3, LockedStep
  <2>3. CASE mem.script = NoScript
    <3>1. Ignored /\ handed' = handed
      BY <1>6, <2>3 DEF RestoreHolds
    <3>2. AgreesOn
      BY <2>1, <3>1, IgnoredAgrees
    <3> QED BY <2>1, <3>2, LockedStep
  <2> QED BY <2>2, <2>3
<1>7. ASSUME NEW archived \in Archived, RestoreCommits(archived) PROVE GlassInv' /\ PlacesGoOn
  <2>1. /\ glass' = glass /\ batch' = batch /\ flight' = flight /\ threaded' = threaded
        /\ kept' = kept /\ lost' = lost /\ handed' = handed + 1 /\ mem' = mem
        /\ req.pc = "idle" /\ req'.pc = "restored"
    BY <1>0, <1>7 DEF RestoreCommits, saverVars, writeVars, RequestType
  <2>2. disk'.script = disk.script /\ disk'.rev = disk.rev /\ disk'.place = disk.place
    BY <1>7 DEF RestoreCommits, TypeOK, DiskType
  <2>3. handed' \in Nat /\ handed' >= handed
    BY <1>0, <2>1
  <2> QED BY <2>1, <2>2, <2>3, NothingChangesAgrees, LockedStep
<1>8. CASE Remember
  BY <1>8, RememberInv
<1>9. CASE RestoreSettles
  <2> DEFINE taken == NextLook(req.back[1], req.back[2])
  <2>1. /\ req.pc = "settling" /\ req'.pc = "idle"
        /\ batch' = batch /\ flight' = flight /\ threaded' = threaded
        /\ mem'.script = mem.script /\ mem'.rev = mem.rev
    BY <1>0, <1>9 DEF RestoreSettles, writeVars, RequestType, TypeOK, MemoryType
  <2>2. taken \in LookSaves
    <3>1. req.back \in Archived
      BY <2>1 DEF RestoreKnown
    <3>2. req.back[1] \in Shown /\ req.back[2] \in Laid
      BY <3>1, ConstantsAssumption
    <3> QED BY <3>2, NextLookType
  <2>3. KeepLook(taken, "now") \/ (Ignored /\ handed' = handed)
    <3>1. CASE taken # mem.look
      BY <1>9, <3>1 DEF RestoreSettles
    <3>2. CASE taken = mem.look
      BY <1>9, <3>2 DEF RestoreSettles
    <3> QED BY <3>1, <3>2
  <2> HIDE DEF taken
  <2>4. AgreesOn
    BY <1>0, <2>1, <2>2, <2>3, KeepLookAgrees, IgnoredAgrees
  <2> QED BY <2>1, <2>4, LockedStep
<1> QED BY <1>1, <1>2, <1>3, <1>4, <1>5, <1>6, <1>7, <1>8, <1>9, Zenon DEF Prompter

LEMMA WrittenNowAgrees ==
    ASSUME TypeOK, GlassInv, WriteHere(glass, look), ~threaded, threaded' = threaded,
           batch' = batch, flight' = flight, kept' = kept, handed' = handed
    PROVE  AgreesOn
<1> DEFINE k == kept.glass
<1>1. /\ glass \in SlotType(GlassSaves) /\ look \in SlotType(LookSaves)
      /\ k \in Waiting(GlassSaves) /\ handed \in Nat
  BY DEF TypeOK, BatchType
<1>2. /\ flight = "no" /\ batch.glass = None /\ Counted
      /\ Agree(glass, None, "no", disk, k, lost)
  BY DEF GlassInv, OnlyTheThread, NoBatch
<1> HIDE DEF k
<1>3. /\ Agree(glass', None, "no", disk', k, lost')
      /\ \A s \in Scripts : disk'.place[s].n >= disk.place[s].n
      /\ \A m \in Nat : /\ \A s \in Scripts : disk.place[s].n <= m
                        /\ k # None => k.n <= m
                        => \A s \in Scripts : disk'.place[s].n <= m
      /\ disk'.script = disk.script /\ disk'.rev = disk.rev
  BY <1>1, <1>2, WriteHereAgrees
<1>4. Counted'
  BY <1>1, <1>2, <1>3 DEF Counted, k
<1>5. OnlyTheThread'
  BY DEF GlassInv, OnlyTheThread, NoBatch
<1> QED BY <1>2, <1>3, <1>4, <1>5 DEF AgreesOn, PlacesGoOn, k

LEMMA RequestLoopInv == ASSUME TypeOK, GlassInv, RequestLoop PROVE GlassInv' /\ PlacesGoOn
<1>0. "now" \in Urgencies /\ handed \in Nat /\ req \in RequestType
      /\ glass \in SlotType(GlassSaves)
  BY DEF Urgencies, TypeOK
<1>1. CASE FlushBegins \/ FinishBegins
  <2>1. /\ req.pc \notin {"off", "committed"} /\ req'.pc \notin {"off", "committed"}
        /\ mem' = mem
        /\ threaded' = threaded /\ batch' = batch /\ flight' = flight
        /\ kept' = kept /\ handed' = handed
    BY <1>0, <1>1 DEF FlushBegins, FinishBegins, writeVars, RequestType
  <2>2. CASE threaded
    <3>1. disk' = disk /\ lost' = lost /\ glass' = DueNow(glass)
      BY <1>1, <2>2 DEF FlushBegins, FinishBegins, MakeDueNow
    <3>2. glass'.pending = glass.pending /\ glass'.written = glass.written
      BY <1>0, <3>1 DEF DueNow, SlotType
    <3>3. AgreesOn
      BY <1>0, <2>1, <3>1, <3>2, NothingChangesAgrees
    <3> QED BY <2>1, <3>3, LockedStep
  <2>3. CASE ~threaded
    <3>1. WriteHere(glass, look)
      BY <1>1, <2>3 DEF FlushBegins, FinishBegins
    <3>2. AgreesOn
      BY <2>1, <2>3, <3>1, WrittenNowAgrees
    <3> QED BY <2>1, <3>2, LockedStep
  <2> QED BY <2>2, <2>3
<1>2. ASSUME NEW place \in Places, StopKeeps(place) PROVE GlassInv' /\ PlacesGoOn
  <2> DEFINE save == [script |-> mem.script, rev |-> mem.rev, place |-> place]
  <2>1. /\ mem' = mem /\ req.pc = "idle" /\ req'.pc = "stop"
        /\ batch' = batch /\ flight' = flight /\ threaded' = threaded
    BY <1>0, <1>2 DEF StopKeeps, writeVars, RequestType
  <2>2. CASE mem.script # NoScript
    <3>1. save \in GlassSaves
      BY <2>2, PlaceSaveType
    <3>2. save.script = disk.script /\ save.rev = disk.rev /\ KeepGlass(save, "now")
      BY <1>2, <2>1, <2>2 DEF GlassInv, MemoryShows, StopKeeps
    <3> HIDE DEF save
    <3>3. AgreesOn
      BY <1>0, <2>1, <3>1, <3>2, KeepGlassAgrees
    <3> QED BY <2>1, <3>3, LockedStep
  <2>3. CASE mem.script = NoScript
    <3>1. Ignored /\ handed' = handed
      BY <1>2, <2>3 DEF StopKeeps
    <3>2. AgreesOn
      BY <2>1, <3>1, IgnoredAgrees
    <3> QED BY <2>1, <3>2, LockedStep
  <2> QED BY <2>2, <2>3
<1>3. CASE \/ FlushLooks \/ FlushGivesUp \/ FlushChecks \/ StopSkips
           \/ FinishLooks \/ FinishGivesUp \/ FinishChecks \/ FinishEnds
  <2>1. /\ glass' = glass /\ batch' = batch /\ flight' = flight /\ threaded' = threaded
        /\ disk' = disk /\ kept' = kept /\ lost' = lost /\ handed' = handed /\ mem' = mem
    BY <1>3 DEF FlushLooks, FlushGivesUp, FlushChecks, StopSkips, FinishLooks, FinishGivesUp,
                FinishChecks, FinishEnds, saverVars, writeVars, countVars
  <2>2. req.pc \notin {"off", "committed"}
    BY <1>3 DEF FlushLooks, FlushGivesUp, FlushChecks, StopSkips, FinishLooks, FinishGivesUp,
                FinishChecks, FinishEnds
  <2>3. req'.pc \notin {"off", "committed"}
    BY <1>0, <1>3, <2>2
       DEF FlushLooks, FlushGivesUp, FlushChecks, StopSkips, FinishLooks, FinishGivesUp,
           FinishChecks, FinishEnds, Answers, RequestType
  <2>4. AgreesOn
    BY <1>0, <2>1, NothingChangesAgrees
  <2> QED BY <2>1, <2>2, <2>3, <2>4, LockedStep
<1> QED BY <1>1, <1>2, <1>3, Zenon DEF RequestLoop

LEMMA EmptyAgrees ==
    ASSUME NEW d, NEW l
    PROVE  Agree(EmptySlot, None, "no", d, None, l)
BY DEF EmptySlot, Agree, KeptOf, WaitingOf, OnItsWay, WrittenOf, RefusedOf, DiskOrWaiting

LEMMA ProcessInv ==
    ASSUME TypeOK, GlassInv, Start \/ Crash
    PROVE  GlassInv' /\ PlacesGoOn
<1>0. \A s \in Scripts : disk.place[s].n \in Nat
  BY DEF TypeOK, DiskType, Numbered
<1>1. CASE Crash
  <2>1. /\ glass' = EmptySlot /\ batch' = NoBatch /\ flight' = "no" /\ disk' = disk
        /\ kept' = NoBatch /\ req'.pc = "off" /\ handed' = handed
    BY <1>1 DEF Crash, countVars
  <2>2. batch'.glass = None /\ kept'.glass = None
    BY <2>1 DEF NoBatch
  <2>3. Agree(glass, batch.glass, flight, disk, kept.glass, lost)'
    BY <2>1, <2>2, EmptyAgrees
  <2>4. Counted' /\ MemoryShows' /\ OnlyTheThread' /\ OlderGlass' /\ Idle' /\ PlacesGoOn
    BY <1>0, <2>1, <2>2
       DEF GlassInv, Idle, Counted, MemoryShows, OnlyTheThread, OlderGlass, PlacesGoOn
  <2> QED BY <2>3, <2>4 DEF GlassInv
<1>2. CASE Start
  <2> DEFINE shown == [v |-> [script |-> disk.script, rev |-> disk.rev,
                              place |-> disk.place[disk.script].v],
                       n |-> disk.place[disk.script].n]
  <2>1. /\ glass' = EmptySlot /\ batch' = batch /\ flight' = flight
        /\ handed' = handed + 1 /\ req'.pc = "idle" /\ req.pc = "off"
        /\ mem'.script = disk.script /\ mem'.rev = disk.rev
        /\ kept'.glass = IF disk.script = NoScript THEN None ELSE shown
    BY <1>2 DEF Start, TypeOK, RequestType
  <2>2. disk'.script = disk.script /\ disk'.rev = disk.rev /\ disk'.place = disk.place
    <3> DEFINE h == [v |-> [disk.look.v EXCEPT !.rev = @ + StartStep], n |-> handed + 1]
    <3>1. UNCHANGED <<disk, recent, retry, failures>> \/ disk' = disk
              \/ disk' = [disk EXCEPT !.look = h]
      BY <1>2, Zenon DEF Start
    <3> HIDE DEF h
    <3> QED BY <3>1 DEF TypeOK, DiskType
  <2>3. flight = "no" /\ batch = NoBatch /\ batch.glass = None
    BY <2>1 DEF GlassInv, Idle, OnlyTheThread, NoBatch
  <2>4. disk.script # NoScript => disk.script \in Scripts
    BY DEF TypeOK, DiskType
  <2>5. Agree(EmptySlot, None, "no", disk', kept'.glass, lost')
    BY <1>0, <2>1, <2>2, <2>4
       DEF EmptySlot, Agree, KeptOf, WaitingOf, OnItsWay, WrittenOf, RefusedOf, DiskOrWaiting
  <2>6. Agree(glass, batch.glass, flight, disk, kept.glass, lost)'
    BY <2>1, <2>3, <2>5
  <2>7. Counted'
    BY <1>0, <2>1, <2>2, <2>4 DEF GlassInv, Counted, TypeOK
  <2>8. MemoryShows' /\ OnlyTheThread' /\ OlderGlass' /\ Idle'
    BY <2>1, <2>2, <2>3 DEF MemoryShows, OnlyTheThread, OlderGlass, Idle, NoBatch
  <2>9. PlacesGoOn
    BY <1>0, <2>2 DEF PlacesGoOn
  <2> QED BY <2>6, <2>7, <2>8, <2>9 DEF GlassInv
<1> QED BY <1>1, <1>2

LEMMA InitInv == Init => GlassInv
<1> SUFFICES ASSUME Init PROVE GlassInv
  OBVIOUS
<1>1. /\ glass = EmptySlot /\ batch = NoBatch /\ kept = NoBatch /\ flight = "no"
      /\ req.pc = "off" /\ handed = 0 /\ batch.glass = None /\ kept.glass = None
      /\ \A s \in Scripts : disk.place[s].n = 0
  BY DEF Init, NoBatch
<1>2. Agree(glass, batch.glass, flight, disk, kept.glass, lost)
  BY <1>1, EmptyAgrees
<1> QED BY <1>1, <1>2 DEF GlassInv, Counted, MemoryShows, OnlyTheThread, OlderGlass, Idle

LEMMA StutterInv ==
    ASSUME TypeOK, GlassInv, UNCHANGED vars
    PROVE  GlassInv' /\ PlacesGoOn
<1>1. /\ glass' = glass /\ threaded' = threaded /\ batch' = batch /\ flight' = flight
      /\ mem' = mem /\ req' = req /\ disk' = disk /\ kept' = kept /\ lost' = lost
      /\ handed' = handed
  BY DEF vars
<1>2. handed' \in Nat /\ handed' >= handed
  BY <1>1 DEF TypeOK
<1> QED BY <1>1, <1>2, NothingChangesAgrees, BackgroundStep

LEMMA StepInv ==
    TypeOK /\ RestoreKnown /\ GlassInv /\ [Next]_vars => GlassInv' /\ PlacesGoOn
BY ThreadInv, TimeInv, PrompterInv, RequestLoopInv, ProcessInv, StutterInv, Zenon DEF Next

LEMMA GlassInvAlways == Spec => []GlassInv
<1>1. Init => GlassInv
  BY InitInv
<1>2. (TypeOK /\ RestoreKnown) /\ GlassInv /\ [Next]_vars => GlassInv'
  BY StepInv
<1> QED BY <1>1, <1>2, SaverTypeCorrect, PTL DEF Spec

(* When no place waits, the saved data holds the newest place and pace     *)
(* there was: a hand-off, a write that is refused, a value equal to one    *)
(* already written and a settled write never lose one                      *)
(* (saver.rs: Slot, take_batch, finish_batch; store.rs: write_glass_save). *)
THEOREM NoPlaceLost == Spec => []PlaceKept
<1>1. TypeOK /\ GlassInv => PlaceKept
  <2> SUFFICES ASSUME TypeOK, GlassInv, ~lost, glass.pending = None, kept.glass # None
               PROVE  disk.place[kept.glass.v.script].v = kept.glass.v.place
    BY DEF PlaceKept, PlaceOnDisk
  <2> QED BY DEF GlassInv, Agree, DiskOrWaiting
<1> QED BY <1>1, SaverTypeCorrect, GlassInvAlways, PTL

(* A script's place on the disk never goes back to an older one, whatever  *)
(* the order in which the saver's writes and the transactions that change  *)
(* the glass reach the disk (store.rs: write_glass_save's condition).      *)
THEOREM NoPlaceGoesBack == Spec => NeverBack
<1>1. TypeOK /\ RestoreKnown /\ GlassInv /\ [Next]_vars
          => [\A s \in Scripts : disk'.place[s].n >= disk.place[s].n]_vars
  BY StepInv DEF PlacesGoOn
<1> QED BY <1>1, SaverTypeCorrect, GlassInvAlways, PTL DEF Spec, NeverBack

(***************************************************************************)
(* The saver's phases: who runs, who sleeps, and what a stop leaves.       *)
(***************************************************************************)
(* Only the thread writes on its connection, and it ends before the saver  *)
(* is stopped; a stop is the request loop's last wait; the thread sleeps   *)
(* only with nothing on its way and no stop begun; a write is given up     *)
(* only at a stop; and a stop with the thread is told "done" only when the *)
(* thread has ended.                                                       *)
Phases ==
    /\ ~threaded => flight = "no" /\ ~conn /\ ~asleep.thread
    /\ stopping => req.pc \in {"finish", "stopped"}
    /\ stopped => ~threaded /\ req.pc \in {"finish", "stopped"}
    /\ flight \in {"closing", "closed"} => stopping
    /\ flight = "closed" => ~conn
    /\ req.pc = "flush" => threaded
    /\ req.pc \in {"off", "flushed", "finishing", "finished"} => ~threaded
    /\ asleep.thread => flight = "no" /\ ~stopping
    /\ lost => stopping
    /\ req.pc = "stopped" /\ req.ok /\ stopping => stopped

(* Whoever waits for the thread is woken by what it waits for, or the      *)
(* thread is awake and will look again; and the thread sleeps without a    *)
(* deadline only when nothing waits.                                       *)
Heard ==
    /\ asleep.waiter /\ req.pc = "flush" /\ Quiet => ~asleep.thread
    /\ asleep.waiter /\ req.pc = "finish" => ~stopped
    /\ asleep.thread => NothingPending \/ asleep.until

(* The thread closes only when nothing waits, and nothing is accepted then. *)
AllWritten ==
    stopping /\ (flight \in {"closing", "closed"} \/ stopped) => NothingPending

PhasesInv == Phases /\ Heard /\ AllWritten

(* What a step may do: keep the phases, and write nothing once stopped.    *)
PhasesKept == PhasesInv' /\ (stopped => disk' = disk)

LEMMA FlagTypes ==
    ASSUME TypeOK
    PROVE  /\ threaded \in BOOLEAN /\ stopping \in BOOLEAN /\ stopped \in BOOLEAN
           /\ conn \in BOOLEAN /\ lost \in BOOLEAN
           /\ flight \in {"no", "begun", "landed", "refused", "failed", "closing", "closed"}
           /\ asleep \in SleepType /\ req \in RequestType
           /\ glass \in SlotType(GlassSaves) /\ look \in SlotType(LookSaves)
BY Zenon DEF TypeOK

(* What a hand-off does to the phases: once a stop has begun nothing, and  *)
(* before it, with the thread, it wakes whoever sleeps.                    *)
KeptInPhase ==
    /\ lost' = lost
    /\ Refuses => glass' = glass /\ look' = look /\ disk' = disk
    /\ \/ asleep' = NobodySleeps
       \/ asleep' = asleep /\ (threaded => glass' = glass /\ look' = look)

LEMMA IgnoredInPhase == ASSUME Ignored PROVE KeptInPhase
BY DEF Ignored, KeptInPhase

LEMMA HandedOverInPhase ==
    ASSUME TypeOK, ~Refuses, NEW g, NEW l, HandedOver(g, l)
    PROVE  KeptInPhase
<1>1. CASE threaded
  BY <1>1 DEF HandedOver, KeptInPhase
<1>2. CASE ~threaded
  <2>1. WriteHere(g, l) /\ asleep' = asleep
    BY <1>2 DEF HandedOver
  <2>2. lost' = lost \/ lost' = (lost \/ stopping)
    BY <2>1 DEF WriteHere
  <2>3. lost' = lost
    BY <2>2 DEF Refuses, TypeOK
  <2> QED BY <1>2, <2>1, <2>3 DEF KeptInPhase
<1> QED BY <1>1, <1>2

LEMMA KeepsInPhase ==
    ASSUME TypeOK
    PROVE  /\ \A save, urgency : KeepGlass(save, urgency) => KeptInPhase
           /\ \A save, urgency : KeepLook(save, urgency) => KeptInPhase
<1>1. ASSUME NEW save, NEW urgency, KeepGlass(save, urgency) PROVE KeptInPhase
  BY <1>1, IgnoredInPhase, HandedOverInPhase DEF KeepGlass
<1>2. ASSUME NEW save, NEW urgency, KeepLook(save, urgency) PROVE KeptInPhase
  BY <1>2, IgnoredInPhase, HandedOverInPhase DEF KeepLook
<1> QED BY <1>1, <1>2

(* The request loop moves among the steps that are no wait for the saver.  *)
Running == {"idle", "committed", "restored", "settling", "stop"}

LEMMA RunningStep ==
    ASSUME TypeOK, PhasesInv, KeptInPhase,
           UNCHANGED <<threaded, stopping, stopped, flight, conn>>, req'.ok = req.ok,
           req'.pc = req.pc \/ (req.pc \in Running /\ req'.pc \in Running)
    PROVE  PhasesKept
<1>1. asleep'.thread => asleep.thread
  BY DEF KeptInPhase, NobodySleeps
<1>2. Phases'
  BY <1>1 DEF PhasesInv, Phases, KeptInPhase, Running
<1>3. Heard'
  <2>1. CASE asleep' = NobodySleeps
    BY <2>1 DEF Heard, NobodySleeps
  <2>2. CASE asleep' = asleep /\ (threaded => glass' = glass /\ look' = look)
    <3>1. asleep'.thread => NothingPending' \/ asleep'.until
      BY <2>2 DEF PhasesInv, Phases, Heard, NothingPending
    <3> QED BY <2>2, <3>1 DEF PhasesInv, Phases, Heard, Running, Quiet, NothingPending
  <2> QED BY <2>1, <2>2 DEF KeptInPhase
<1>4. AllWritten' /\ (stopped => disk' = disk)
  BY DEF PhasesInv, AllWritten, KeptInPhase, Refuses, NothingPending
<1> QED BY <1>2, <1>3, <1>4 DEF PhasesKept, PhasesInv

LEMMA PrompterPhases == ASSUME TypeOK, PhasesInv, Prompter PROVE PhasesKept
<1>0. req \in RequestType
  BY FlagTypes
<1>1. UNCHANGED <<threaded, stopping, stopped, flight, conn>>
  BY DEF Prompter, KeepPlace, SetLook, PutOn, Update, Clear, CommitGlass, Edit, RestoreCommits,
         RestoreHolds, RestoreSettles, Remember, saverVars, writeVars
<1>2. CASE \/ \E place \in Places, urgency \in Urgencies : KeepPlace(place, urgency)
           \/ \E shown \in Shown, laid \in Laid : SetLook(shown, laid)
  <2>1. KeptInPhase
    BY <1>2, KeepsInPhase DEF KeepPlace, SetLook
  <2>2. req'.ok = req.ok /\ req'.pc = req.pc
    BY <1>0, <1>2 DEF KeepPlace, SetLook, RequestType
  <2> QED BY <1>1, <2>1, <2>2, RunningStep
<1>3. CASE (\E place \in Places : RestoreHolds(place)) \/ RestoreSettles
  <2>1. KeptInPhase
    BY <1>3, KeepsInPhase, IgnoredInPhase DEF RestoreHolds, RestoreSettles
  <2>2. req'.ok = req.ok /\ req.pc \in Running /\ req'.pc \in Running
    BY <1>0, <1>3 DEF RestoreHolds, RestoreSettles, RequestType, Running
  <2> QED BY <1>1, <2>1, <2>2, RunningStep
<1>4. CASE \/ \E script \in Scripts, place \in Places : PutOn(script, place) \/ Edit(script, place)
           \/ \E place \in Places : Update(place) \/ Clear(place)
           \/ \E archived \in Archived : RestoreCommits(archived)
           \/ Remember
  <2>1. req.pc \in Running /\ ~Refuses
    BY <1>4 DEF PutOn, Update, Clear, CommitGlass, Edit, RestoreCommits, Remember, Running,
                PhasesInv, Phases, Refuses
  <2>2. req'.ok = req.ok /\ req'.pc \in Running
    BY <1>0, <1>4, <2>1 DEF PutOn, Update, Clear, CommitGlass, Edit, RestoreCommits, Remember,
                            RequestType, Running
  <2>3. lost' = lost
    BY <1>4 DEF PutOn, Update, Clear, CommitGlass, Edit, RestoreCommits, Remember
  <2>4. asleep' = NobodySleeps \/ (asleep' = asleep /\ glass' = glass /\ look' = look)
    BY <1>4 DEF PutOn, Update, Clear, CommitGlass, Edit, RestoreCommits, Remember, saverVars
  <2>5. KeptInPhase
    BY <2>1, <2>3, <2>4 DEF KeptInPhase
  <2> QED BY <1>1, <2>1, <2>2, <2>5, RunningStep
<1> QED BY <1>2, <1>3, <1>4, Zenon DEF Prompter

LEMMA TimePhases == ASSUME TypeOK, PhasesInv, Time PROVE PhasesKept
<1>1. /\ threaded' = threaded /\ stopping' = stopping /\ stopped' = stopped
      /\ flight' = flight /\ conn' = conn /\ asleep' = asleep /\ req' = req /\ lost' = lost
      /\ disk' = disk
  BY DEF Time, GlassDueComes, LookDueComes, SecondPasses, RetryPasses, writeVars
<1>2. glass'.pending = glass.pending /\ look'.pending = look.pending
  BY FlagTypes DEF Time, GlassDueComes, LookDueComes, SecondPasses, RetryPasses, SlotType
<1> QED BY <1>1, <1>2
        DEF PhasesKept, PhasesInv, Phases, Heard, AllWritten, Quiet, NothingPending

LEMMA ThreadLooksPhases == ASSUME TypeOK, PhasesInv, ThreadLooks PROVE PhasesKept
<1> DEFINE may == stopping \/ ~retry
           dg == IF may THEN Deduped(glass) ELSE glass
           dl == IF may THEN Deduped(look) ELSE look
           b == IF may THEN BatchOf(dg, dl, stopping) ELSE NoBatch
<1>1. /\ threaded' = threaded /\ stopping' = stopping /\ stopped' = stopped
      /\ conn' = conn /\ req' = req /\ lost' = lost /\ disk' = disk
      /\ threaded /\ flight = "no" /\ ~asleep.thread /\ ~stopped
  BY DEF ThreadLooks, ThreadIdle, PhasesInv, Phases
<1>2. CASE flight' = "begun" /\ asleep' = asleep
  BY <1>1, <1>2 DEF PhasesKept, PhasesInv, Phases, Heard, AllWritten, Quiet, NothingPending
<1>3. CASE b = NoBatch /\ stopping /\ glass' = dg /\ look' = dl /\ flight' = "closing"
           /\ asleep' = asleep
  <2>1. dg.pending = None /\ dl.pending = None
    BY <1>3 DEF BatchOf, TakenFrom, NoBatch
  <2> HIDE DEF dg, dl, b
  <2> QED BY <1>1, <1>3, <2>1
          DEF PhasesKept, PhasesInv, Phases, Heard, AllWritten, Quiet, NothingPending
<1>4. CASE /\ ~stopping /\ flight' = flight
           /\ glass' = dg /\ look' = dl /\ asleep' = Sleeps(dg, dl)
  <2> HIDE DEF dg, dl, b, may
  <2>1. /\ ~asleep'.waiter /\ asleep'.thread
        /\ asleep'.until <=> ~(dg.pending = None /\ dl.pending = None)
    BY <1>4 DEF Sleeps
  <2>2. NothingPending' \/ asleep'.until
    BY <1>4, <2>1 DEF NothingPending
  <2> QED BY <1>1, <1>4, <2>1, <2>2 DEF PhasesKept, PhasesInv, Phases, Heard, AllWritten
<1> QED BY <1>2, <1>3, <1>4 DEF ThreadLooks

LEMMA ThreadPhases == ASSUME TypeOK, PhasesInv, Thread PROVE PhasesKept
<1>1. CASE ThreadWakes
  <2>1. /\ threaded' = threaded /\ stopping' = stopping /\ stopped' = stopped
        /\ flight' = flight /\ conn' = conn /\ req' = req /\ lost' = lost
        /\ disk' = disk /\ glass' = glass /\ look' = look
        /\ asleep'.thread = FALSE /\ asleep'.waiter = asleep.waiter
    BY <1>1, FlagTypes DEF ThreadWakes, writeVars, SleepType
  <2> QED BY <2>1 DEF PhasesKept, PhasesInv, Phases, Heard, AllWritten, Quiet, NothingPending
<1>2. CASE ThreadWrites \/ ThreadFails
  <2>1. /\ threaded' = threaded /\ stopping' = stopping /\ stopped' = stopped
        /\ req' = req /\ lost' = lost /\ glass' = glass /\ look' = look /\ asleep' = asleep
        /\ flight = "begun" /\ flight' \in {"landed", "refused", "failed"}
    BY <1>2 DEF ThreadWrites, ThreadFails, saverVars
  <2>2. threaded /\ ~stopped
    BY <2>1, FlagTypes DEF PhasesInv, Phases
  <2> QED BY <2>1, <2>2, FlagTypes
          DEF PhasesKept, PhasesInv, Phases, Heard, AllWritten, Quiet, NothingPending
<1>3. CASE ThreadSettles
  <2>1. /\ threaded' = threaded /\ stopping' = stopping /\ stopped' = stopped
        /\ req' = req /\ conn' = conn /\ disk' = disk /\ asleep' = NobodySleeps
        /\ flight \in {"landed", "refused", "failed"} /\ flight' = "no"
        /\ lost' = lost \/ lost' = (lost \/ stopping)
    BY <1>3 DEF ThreadSettles
  <2>2. threaded /\ ~stopped
    BY <2>1, FlagTypes DEF PhasesInv, Phases
  <2> QED BY <2>1, <2>2, FlagTypes
          DEF PhasesKept, PhasesInv, Phases, Heard, AllWritten, NobodySleeps, NothingPending
<1>4. CASE ThreadCloses
  <2>1. /\ threaded' = threaded /\ stopping' = stopping /\ stopped' = stopped
        /\ req' = req /\ lost' = lost /\ glass' = glass /\ look' = look /\ asleep' = asleep
        /\ disk' = disk /\ flight = "closing" /\ flight' = "closed" /\ conn' = FALSE
    BY <1>4 DEF ThreadCloses, saverVars
  <2> QED BY <2>1 DEF PhasesKept, PhasesInv, Phases, Heard, AllWritten, Quiet, NothingPending
<1>5. CASE ThreadEnds
  <2>1. /\ threaded' = FALSE /\ stopping' = stopping /\ stopped' = TRUE
        /\ req' = req /\ lost' = lost /\ glass' = glass /\ look' = look
        /\ conn' = conn /\ asleep' = NobodySleeps
        /\ disk' = disk /\ flight = "closed" /\ flight' = "no"
    BY <1>5 DEF ThreadEnds
  <2> QED BY <2>1, FlagTypes
          DEF PhasesKept, PhasesInv, Phases, Heard, AllWritten, NothingPending, NobodySleeps
<1> QED BY <1>1, <1>2, <1>3, <1>4, <1>5, ThreadLooksPhases DEF Thread

LEMMA RequestLoopPhases == ASSUME TypeOK, PhasesInv, RequestLoop PROVE PhasesKept
<1>0. req \in RequestType /\ asleep \in SleepType
  BY FlagTypes
<1>1. CASE (\E place \in Places : StopKeeps(place)) \/ StopSkips
  <2>1. KeptInPhase
    <3>1. CASE \E place \in Places : StopKeeps(place)
      BY <3>1, KeepsInPhase, IgnoredInPhase DEF StopKeeps
    <3>2. CASE StopSkips
      BY <3>2 DEF StopSkips, saverVars, KeptInPhase
    <3> QED BY <1>1, <3>1, <3>2
  <2>2. /\ req'.ok = req.ok /\ req.pc \in Running /\ req'.pc \in Running
        /\ UNCHANGED <<threaded, stopping, stopped, flight, conn>>
    BY <1>0, <1>1 DEF StopKeeps, StopSkips, RequestType, Running, saverVars, writeVars
  <2> QED BY <2>1, <2>2, RunningStep
<1>2. CASE FlushBegins \/ FinishBegins
  <2>1. /\ threaded' = threaded /\ stopped' = stopped /\ flight' = flight /\ conn' = conn
        /\ req.pc \in {"idle", "stop"} /\ req'.ok = req.ok /\ ~stopping /\ ~stopped
        /\ ~lost
    BY <1>0, <1>2 DEF FlushBegins, FinishBegins, writeVars, RequestType, PhasesInv, Phases
  <2>2. CASE threaded
    <3>1. /\ asleep' = NobodySleeps /\ lost' = lost /\ stopping' \in BOOLEAN
          /\ (req'.pc = "flush" /\ stopping' = stopping) \/ req'.pc = "finish"
      BY <1>0, <1>2, <2>2, FlagTypes DEF FlushBegins, FinishBegins, RequestType
    <3> QED BY <2>1, <2>2, <3>1
            DEF PhasesKept, PhasesInv, Phases, Heard, AllWritten, NobodySleeps
  <2>3. CASE ~threaded
    <3>1. /\ asleep' = asleep /\ stopping' = stopping
          /\ req'.pc \in {"flushed", "finishing"} /\ WriteHere(glass, look)
      BY <1>0, <1>2, <2>3 DEF FlushBegins, FinishBegins, RequestType
    <3>2. lost' = lost \/ lost' = (lost \/ stopping)
      BY <3>1 DEF WriteHere
    <3>3. ~lost' /\ ~stopping'
      BY <2>1, <3>1, <3>2, FlagTypes
    <3>4. asleep.thread = FALSE /\ flight = "no" /\ ~conn
      BY <2>3, FlagTypes DEF PhasesInv, Phases, SleepType
    <3>5. Phases'
      BY <2>1, <2>3, <3>1, <3>3, <3>4 DEF Phases
    <3> QED BY <2>1, <3>1, <3>3, <3>4, <3>5 DEF PhasesKept, PhasesInv, Heard, AllWritten
  <2> QED BY <2>2, <2>3
<1>3. CASE \/ FlushLooks \/ FlushGivesUp \/ FlushChecks
           \/ FinishLooks \/ FinishGivesUp \/ FinishChecks \/ FinishEnds
  <2>1. /\ threaded' = threaded /\ stopping' = stopping /\ flight' = flight /\ conn' = conn
        /\ lost' = lost /\ glass' = glass /\ look' = look /\ disk' = disk
    BY <1>3 DEF FlushLooks, FlushGivesUp, FlushChecks, FinishLooks, FinishGivesUp, FinishChecks,
                FinishEnds, writeVars
  <2>2. asleep'.thread = asleep.thread /\ asleep'.until = asleep.until
    BY <1>0, <1>3 DEF FlushLooks, FlushGivesUp, FlushChecks, FinishLooks, FinishGivesUp,
                      FinishChecks, FinishEnds, Answers, SleepType
  <2>3. CASE FlushLooks \/ FinishLooks
    <3>1. /\ stopped' = stopped
          /\ \/ req.pc = "flush" /\ req'.pc = "idle"
             \/ req' = req /\ req.pc = "flush" /\ ~Quiet
             \/ req.pc = "finish" /\ stopped /\ req'.pc = "stopped"
             \/ req' = req /\ req.pc = "finish" /\ ~stopped
      BY <1>0, <2>3 DEF FlushLooks, FinishLooks, Answers, RequestType
    <3> QED BY <2>1, <2>2, <3>1
            DEF PhasesKept, PhasesInv, Phases, Heard, AllWritten, Quiet, NothingPending
  <2>4. CASE FlushGivesUp \/ FlushChecks \/ FinishGivesUp \/ FinishChecks \/ FinishEnds
    <3>1. /\ \/ req.pc \in {"flush", "flushed"} /\ req'.pc = "idle" /\ stopped' = stopped
             \/ req.pc = "finish" /\ req'.pc = "stopped" /\ ~req'.ok /\ stopped' = stopped
             \/ req.pc = "finishing" /\ req'.pc = "finished" /\ stopped' = stopped
             \/ req.pc = "finished" /\ req'.pc = "stopped" /\ stopped' = TRUE
      BY <1>0, <2>4 DEF FlushGivesUp, FlushChecks, FinishGivesUp, FinishChecks, FinishEnds,
                        Answers, RequestType
    <3> QED BY <2>1, <2>2, <3>1
            DEF PhasesKept, PhasesInv, Phases, Heard, AllWritten, NothingPending
  <2> QED BY <1>3, <2>3, <2>4
<1> QED BY <1>1, <1>2, <1>3, Zenon DEF RequestLoop

LEMMA ProcessPhases == ASSUME TypeOK, PhasesInv, Start \/ Crash PROVE PhasesKept
<1>1. CASE Crash
  <2>1. /\ threaded' = FALSE /\ stopping' = FALSE /\ stopped' = FALSE /\ flight' = "no"
        /\ conn' = FALSE /\ asleep' = NobodySleeps /\ req'.pc = "off" /\ lost' = FALSE
        /\ disk' = disk
    BY <1>1 DEF Crash
  <2> QED BY <2>1 DEF PhasesKept, PhasesInv, Phases, Heard, AllWritten, NobodySleeps
<1>2. CASE Start
  <2>1. /\ threaded' \in BOOLEAN /\ stopping' = stopping /\ stopped' = stopped
        /\ flight' = flight /\ conn' = conn /\ asleep' = asleep /\ lost' = lost
        /\ req.pc = "off" /\ req'.pc = "idle"
    BY <1>2, FlagTypes, ConstantsAssumption DEF Start, RequestType
  <2> QED BY <2>1 DEF PhasesKept, PhasesInv, Phases, Heard, AllWritten
<1> QED BY <1>1, <1>2

LEMMA PhasesStep == TypeOK /\ PhasesInv /\ [Next]_vars => PhasesKept
<1> SUFFICES ASSUME TypeOK, PhasesInv, [Next]_vars PROVE PhasesKept
  OBVIOUS
<1>1. CASE UNCHANGED vars
  <2>1. /\ threaded' = threaded /\ stopping' = stopping /\ stopped' = stopped
        /\ flight' = flight /\ conn' = conn /\ asleep' = asleep /\ req' = req /\ lost' = lost
        /\ disk' = disk /\ glass' = glass /\ look' = look
    BY <1>1 DEF vars
  <2> QED BY <2>1 DEF PhasesKept, PhasesInv, Phases, Heard, AllWritten, Quiet, NothingPending
<1> QED BY <1>1, PrompterPhases, TimePhases, ThreadPhases, RequestLoopPhases, ProcessPhases, Zenon
        DEF Next

LEMMA PhasesAlways == Spec => []PhasesInv
<1>1. Init => PhasesInv
  BY DEF Init, PhasesInv, Phases, Heard, AllWritten, NobodySleeps
<1>2. TypeOK /\ PhasesInv /\ [Next]_vars => PhasesInv'
  BY PhasesStep DEF PhasesKept
<1> QED BY <1>1, <1>2, SaverTypeCorrect, PTL DEF Spec

(* Nobody sleeps through what they wait for: a flush hears of slots that   *)
(* emptied without a write, a stop of the thread's end, the thread of the  *)
(* stop, and the thread never sleeps without a deadline over a place or a  *)
(* look that waits (saver.rs: handed_over, run, next_wake, flush, finish). *)
THEOREM NobodySleepsThroughASave == Spec => []SleepersHear
<1>1. PhasesInv => SleepersHear
  BY DEF PhasesInv, Phases, Heard, SleepersHear
<1> QED BY <1>1, PhasesAlways, PTL

(* Once the saver is stopped, its thread ended or the stop's own write     *)
(* done, its connection is closed and it writes no more, whatever is still *)
(* handed to it (saver.rs: run's end, finish, keep_glass, keep_look).  A   *)
(* stop that gave up waiting is not one of these.                          *)
THEOREM NothingIsWrittenAfterTheStop == Spec => AfterStop
<1>1. TypeOK /\ PhasesInv /\ [Next]_vars => [stopped /\ stopped' => ~conn /\ disk' = disk]_vars
  BY PhasesStep DEF PhasesKept, PhasesInv, Phases
<1> QED BY <1>1, SaverTypeCorrect, PhasesAlways, PTL DEF Spec, AfterStop

(***************************************************************************)
(* The look.                                                               *)
(***************************************************************************)
(* The look's slot g, the part b of the write as far as fl, the disk's     *)
(* look d, the newest look k and l (whether the saver gave up) agree: what *)
(* waits is the newest there is; a write on its way has left something     *)
(* waiting; what it wrote, and what counts as written, is what the disk    *)
(* holds unless a restore wrote it since; and the newest look is on the    *)
(* disk or waits, unless a restore wrote the disk's.                       *)
NewestWaits(g, k) == g.pending # None => g.pending = k

TakenWaits(g, b) == b # None => g.pending # None /\ b.n # 0

Committed(b, fl) == b # None /\ fl \in {"landed", "refused"}

CommittedHolds(b, fl, d) == Committed(b, fl) => d.n = 0 \/ d.v = b.v

WrittenHolds(g, b, fl, d) ==
    g.written # None /\ ~Committed(b, fl) => d.n = 0 \/ d.v = g.written

NewestHolds(g, d, k, l) ==
    k # None => k.n # 0 /\ (d.n # 0 => l \/ d.v = k.v \/ g.pending = k)

LookAgree(g, b, fl, d, k, l) ==
    /\ NewestWaits(g, k) /\ TakenWaits(g, b) /\ CommittedHolds(b, fl, d)
    /\ WrittenHolds(g, b, fl, d) /\ NewestHolds(g, d, k, l)

LookInv == LookAgree(look, batch.look, flight, disk.look, kept.look, lost)

(* What a step may do: keep the agreement, and leave the disk's look to    *)
(* the saver.                                                              *)
LookHolds == LookInv' /\ (disk'.look = disk.look \/ disk'.look.n # 0)

LEMMA LookTypes ==
    ASSUME TypeOK
    PROVE  /\ look \in SlotType(LookSaves) /\ glass \in SlotType(GlassSaves)
           /\ batch.look \in Waiting(LookSaves) /\ kept.look \in Waiting(LookSaves)
           /\ disk.look \in Numbered(LookSaves) /\ disk \in DiskType
           /\ kept \in BatchType /\ batch \in BatchType
           /\ lost \in BOOLEAN /\ stopping \in BOOLEAN /\ handed \in Nat
           /\ mem \in MemoryType
<1>1. /\ disk \in DiskType /\ batch \in BatchType /\ kept \in BatchType
      /\ look \in SlotType(LookSaves) /\ glass \in SlotType(GlassSaves)
      /\ lost \in BOOLEAN /\ stopping \in BOOLEAN /\ handed \in Nat /\ mem \in MemoryType
  BY Zenon DEF TypeOK
<1> QED BY <1>1 DEF DiskType, BatchType

LEMMA SameLook ==
    ASSUME LookInv, look'.pending = look.pending, look'.written = look.written,
           batch'.look = batch.look, flight' = flight, disk'.look = disk.look,
           kept'.look = kept.look, lost' = lost
    PROVE  LookHolds
BY DEF LookHolds, LookInv, LookAgree, NewestWaits, TakenWaits, Committed, CommittedHolds,
       WrittenHolds, NewestHolds

LEMMA DedupedLook ==
    ASSUME NEW g \in SlotType(LookSaves), NEW fl, NEW d, NEW l,
           NEW k \in Waiting(LookSaves), LookAgree(g, None, fl, d, k, l)
    PROVE  LookAgree(Deduped(g), None, fl, d, k, l)
<1>1. CASE g.pending # None /\ g.pending.v = g.written
  <2>1. Deduped(g).pending = None /\ Deduped(g).written = g.written
    BY <1>1 DEF Deduped, Emptied, SlotType
  <2>2. g.written # None
    BY <1>1, NoneIsNoSave, ConstantsAssumption DEF SlotType, Waiting, Numbered
  <2> QED BY <1>1, <2>1, <2>2 DEF LookAgree, NewestWaits, TakenWaits, Committed, CommittedHolds,
                                  WrittenHolds, NewestHolds
<1>2. CASE ~(g.pending # None /\ g.pending.v = g.written)
  BY <1>2 DEF Deduped
<1> QED BY <1>1, <1>2

(* The write that is begun took what waits, or nothing.                    *)
LEMMA TakenLook ==
    ASSUME NEW g \in SlotType(LookSaves), NEW d, NEW l, NEW k \in Waiting(LookSaves),
           NEW b \in {None, g.pending}, LookAgree(g, None, "no", d, k, l)
    PROVE  LookAgree(Marked(g, b), b, "begun", d, k, l)
<1>1. Marked(g, b).pending = g.pending /\ Marked(g, b).written = g.written
  BY DEF Marked, SlotType
<1> QED BY <1>1 DEF LookAgree, NewestWaits, TakenWaits, Committed, CommittedHolds,
                    WrittenHolds, NewestHolds

LEMMA WrittenLook ==
    ASSUME NEW g \in SlotType(LookSaves), NEW d, NEW l, NEW k, NEW b \in Waiting(LookSaves),
           NEW fl \in {"landed", "refused"}, LookAgree(g, b, "begun", d, k, l)
    PROVE  LookAgree(g, b, fl, IF b # None THEN b ELSE d, k, l)
BY DEF LookAgree, NewestWaits, TakenWaits, Committed, CommittedHolds, WrittenHolds, NewestHolds

LEMMA FailedLook ==
    ASSUME NEW g \in SlotType(LookSaves), NEW d, NEW l \in BOOLEAN, NEW k,
           NEW b \in Waiting(LookSaves), NEW fl \in {"begun", "failed"}, stopping \in BOOLEAN,
           LookAgree(g, b, fl, d, k, l)
    PROVE  /\ LookAgree(g, b, "failed", d, k, l)
           /\ LookAgree(Unsettled(g), None, "no", d, k, l \/ stopping)
<1>1. LookAgree(g, b, "failed", d, k, l)
  BY DEF LookAgree, NewestWaits, TakenWaits, Committed, CommittedHolds, WrittenHolds, NewestHolds
<1>2. /\ Unsettled(g).written = g.written
      /\ Unsettled(g).pending = IF stopping THEN None ELSE g.pending
  BY DEF Unsettled, Emptied, SlotType
<1>3. LookAgree(Unsettled(g), None, "no", d, k, l \/ stopping)
  BY <1>2 DEF LookAgree, NewestWaits, TakenWaits, Committed, CommittedHolds, WrittenHolds,
              NewestHolds
<1> QED BY <1>1, <1>3

LEMMA SettledLook ==
    ASSUME NEW g \in SlotType(LookSaves), NEW d, NEW l, NEW k \in Waiting(LookSaves),
           NEW b \in Waiting(LookSaves), NEW fl \in {"landed", "refused"},
           LookAgree(g, b, fl, d, k, l)
    PROVE  LookAgree(Settled(g, b, TRUE), None, "no", d, k, l)
<1>1. CASE b = None
  <2>1. Settled(g, b, TRUE).pending = g.pending /\ Settled(g, b, TRUE).written = g.written
    BY <1>1 DEF Settled, SlotType
  <2> QED BY <1>1, <2>1 DEF LookAgree, NewestWaits, TakenWaits, Committed, CommittedHolds,
                            WrittenHolds, NewestHolds
<1>2. CASE b # None
  <2>1. /\ Settled(g, b, TRUE).written = b.v
        /\ Settled(g, b, TRUE).pending =
               IF g.pending # None /\ g.pending.v = b.v THEN None ELSE g.pending
    BY <1>2 DEF Settled, Emptied, SlotType
  <2>2. g.pending = k /\ k # None /\ (d.n = 0 \/ d.v = b.v)
    BY <1>2 DEF LookAgree, NewestWaits, TakenWaits, Committed, CommittedHolds
  <2> QED BY <1>2, <2>1, <2>2 DEF LookAgree, NewestWaits, TakenWaits, Committed, CommittedHolds,
                                  WrittenHolds, NewestHolds
<1> QED BY <1>1, <1>2

LEMMA MarkedLook ==
    ASSUME NEW g \in SlotType(LookSaves), NEW b
    PROVE  Marked(g, b) \in SlotType(LookSaves)
BY DEF Marked, SlotType

LEMMA WrittenDiskLook ==
    ASSUME disk \in DiskType, NEW b
    PROVE  WrittenDisk(b).look = IF b.look # None THEN b.look ELSE disk.look
BY DEF WrittenDisk, DiskType

(* A write made on the caller's thread.                                    *)
LEMMA WriteHereLook ==
    ASSUME TypeOK, NEW g, NEW l \in SlotType(LookSaves), NEW k \in Waiting(LookSaves),
           LookAgree(l, None, "no", disk.look, k, lost), WriteHere(g, l)
    PROVE  /\ LookAgree(look', None, "no", disk'.look, k, lost')
           /\ disk'.look = disk.look \/ disk'.look.n # 0
<1> DEFINE dg == Deduped(g)
           dl == Deduped(l)
           b == BatchOf(dg, dl, TRUE)
<1>1. dl \in SlotType(LookSaves) /\ LookAgree(dl, None, "no", disk.look, k, lost)
  BY SlotOperations, NoneIsNoSave, DedupedLook
<1>2. b.look = dl.pending
  BY DEF BatchOf, TakenFrom
<1>3. b.look \in Waiting(LookSaves)
  BY <1>1, <1>2 DEF SlotType
<1>4. /\ Marked(dl, b.look) \in SlotType(LookSaves)
      /\ LookAgree(Marked(dl, b.look), b.look, "begun", disk.look, k, lost)
  BY <1>1, <1>2, MarkedLook, TakenLook
<1> HIDE DEF dg, dl, b
<1>5. CASE look' = dl /\ UNCHANGED <<disk, lost>>
  BY <1>1, <1>5
<1>6. CASE look' = Settled(Marked(dl, b.look), b.look, TRUE) /\ disk' = WrittenDisk(b)
           /\ lost' = lost
  <2>1. disk'.look = IF b.look # None THEN b.look ELSE disk.look
    BY <1>6, LookTypes, WrittenDiskLook
  <2>2. LookAgree(Marked(dl, b.look), b.look, "landed", disk'.look, k, lost)
    BY <1>3, <1>4, <2>1, WrittenLook
  <2>3. LookAgree(look', None, "no", disk'.look, k, lost')
    BY <1>3, <1>4, <1>6, <2>2, SettledLook
  <2>4. b.look # None => b.look.n # 0
    BY <1>4 DEF LookAgree, TakenWaits
  <2> QED BY <2>1, <2>3, <2>4
<1>7. CASE look' = Unsettled(Marked(dl, b.look)) /\ lost' = (lost \/ stopping) /\ disk' = disk
  BY <1>3, <1>4, <1>7, LookTypes, FailedLook
<1> QED BY <1>5, <1>6, <1>7, Zenon DEF WriteHere, dg, dl, b

(* The newest look takes the place of what waited.                         *)
LEMMA HandOverLook ==
    ASSUME NEW g \in SlotType(LookSaves), NEW b, NEW fl, NEW d, NEW l, NEW k, NEW due,
           NEW h \in Numbered(LookSaves), h.n # 0, LookAgree(g, b, fl, d, k, l)
    PROVE  LookAgree(HandOver(g, h, due), b, fl, d, h, l)
<1>1. HandOver(g, h, due).pending = h /\ HandOver(g, h, due).written = g.written
  BY DEF HandOver, SlotType
<1> QED BY <1>1, NoneIsNoSave
        DEF LookAgree, NewestWaits, TakenWaits, Committed, CommittedHolds, WrittenHolds,
            NewestHolds

(* What the hand-offs need and leave of the look.                          *)
LookKeeps(k) ==
    /\ LookAgree(look', batch'.look, flight', disk'.look, k, lost')
    /\ disk'.look = disk.look \/ disk'.look.n # 0

LEMMA HandedOverLook ==
    ASSUME TypeOK, OnlyTheThread, NEW g, NEW l \in SlotType(LookSaves),
           NEW k \in Waiting(LookSaves),
           LookAgree(l, batch.look, flight, disk.look, k, lost), HandedOver(g, l),
           batch' = batch, flight' = flight
    PROVE  LookKeeps(k)
<1>1. CASE threaded
  <2>1. look' = l /\ disk' = disk /\ lost' = lost
    BY <1>1 DEF HandedOver
  <2> QED BY <2>1 DEF LookKeeps
<1>2. CASE ~threaded
  <2>1. flight = "no" /\ batch.look = None /\ WriteHere(g, l)
    BY <1>2 DEF OnlyTheThread, NoBatch, HandedOver
  <2>2. /\ LookAgree(look', None, "no", disk'.look, k, lost')
        /\ disk'.look = disk.look \/ disk'.look.n # 0
    BY <2>1, WriteHereLook
  <2> QED BY <2>1, <2>2 DEF LookKeeps
<1> QED BY <1>1, <1>2

LEMMA KeepGlassLook ==
    ASSUME TypeOK, OnlyTheThread, LookInv, batch' = batch, flight' = flight,
           Ignored \/ \E save, urgency : KeepGlass(save, urgency)
    PROVE  LookHolds /\ kept'.look = kept.look
<1>1. CASE Ignored
  BY <1>1, SameLook DEF Ignored
<1>2. ASSUME NEW save, NEW urgency, KeepGlass(save, urgency), ~Ignored
      PROVE  LookHolds /\ kept'.look = kept.look
  <2> DEFINE h == [v |-> save, n |-> handed + 1]
  <2>1. /\ kept' = [kept EXCEPT !.glass = h]
        /\ HandedOver(HandOver(glass, h, DueAt(urgency)), look)
    BY <1>2 DEF KeepGlass
  <2>2. kept'.look = kept.look
    BY <2>1, LookTypes DEF BatchType
  <2> HIDE DEF h
  <2>3. LookKeeps(kept.look)
    BY <2>1, LookTypes, HandedOverLook DEF LookInv
  <2> QED BY <2>2, <2>3 DEF LookKeeps, LookHolds, LookInv
<1> QED BY <1>1, <1>2

LEMMA KeepLookLook ==
    ASSUME TypeOK, OnlyTheThread, LookInv, batch' = batch, flight' = flight,
           NEW save \in LookSaves, NEW urgency, KeepLook(save, urgency)
    PROVE  /\ LookHolds
           /\ ~Refuses => kept'.look # None /\ kept'.look.v = save
<1> DEFINE h == [v |-> save, n |-> handed + 1]
           g == HandOver(look, h, DueAt(urgency))
<1>1. CASE Refuses
  <2>1. Ignored
    BY <1>1 DEF KeepLook
  <2> QED BY <1>1, <2>1, KeepGlassLook
<1>2. CASE ~Refuses
  <2>1. kept' = [kept EXCEPT !.look = h] /\ HandedOver(glass, g)
    BY <1>2 DEF KeepLook
  <2>2. h \in Numbered(LookSaves) /\ h.n # 0 /\ DueAt(urgency) \in {"now", "later"}
    BY LookTypes DEF Numbered, DueAt
  <2>3. kept'.look = h /\ h # None
    BY <2>1, <2>2, LookTypes, NoneIsNoSave DEF BatchType
  <2>4. h.v = save
    OBVIOUS
  <2> HIDE DEF h
  <2>5. /\ g \in SlotType(LookSaves)
        /\ LookAgree(g, batch.look, flight, disk.look, h, lost)
    BY <2>2, LookTypes, NoneIsNoSave, SlotOperations, HandOverLook DEF LookInv
  <2> HIDE DEF g
  <2>6. LookKeeps(h)
    BY <2>1, <2>2, <2>5, HandedOverLook DEF Waiting
  <2> QED BY <2>3, <2>4, <2>6 DEF LookKeeps, LookHolds, LookInv
<1> QED BY <1>1, <1>2

LEMMA ThreadLook == ASSUME TypeOK, OnlyTheThread, LookInv, Thread PROVE LookHolds
<1>1. CASE ThreadLooks
  <2> DEFINE may == stopping \/ ~retry
             dg == IF may THEN Deduped(glass) ELSE glass
             dl == IF may THEN Deduped(look) ELSE look
             b == IF may THEN BatchOf(dg, dl, stopping) ELSE NoBatch
  <2>1. /\ disk' = disk /\ kept' = kept /\ lost' = lost /\ flight = "no" /\ batch.look = None
    BY <1>1 DEF ThreadLooks, ThreadIdle, OnlyTheThread, NoBatch
  <2>2. /\ dl \in SlotType(LookSaves)
        /\ LookAgree(dl, None, "no", disk.look, kept.look, lost)
    BY <2>1, LookTypes, SlotOperations, NoneIsNoSave, DedupedLook DEF LookInv
  <2>3. b.look \in {None, dl.pending}
    BY DEF BatchOf, TakenFrom, NoBatch
  <2> HIDE DEF may, dg, dl, b
  <2>4. CASE look' = Marked(dl, b.look) /\ batch' = b /\ flight' = "begun"
    BY <2>1, <2>2, <2>3, <2>4, LookTypes, TakenLook DEF LookHolds, LookInv
  <2>5. CASE look' = dl /\ batch' = batch /\ flight' \in {"no", "closing"}
    <3>1. LookAgree(look', batch'.look, flight', disk'.look, kept'.look, lost')
      BY <2>1, <2>2, <2>5 DEF LookAgree, NewestWaits, TakenWaits, Committed, CommittedHolds,
                              WrittenHolds, NewestHolds
    <3> QED BY <2>1, <3>1 DEF LookHolds, LookInv
  <2>6. \/ look' = Marked(dl, b.look) /\ batch' = b /\ flight' = "begun"
        \/ look' = dl /\ UNCHANGED <<batch, asleep, recent, rushed>> /\ flight' = "closing"
        \/ look' = dl /\ UNCHANGED <<batch, flight, recent, rushed>>
    BY <1>1, Zenon DEF ThreadLooks, may, dg, dl, b
  <2> QED BY <2>1, <2>4, <2>5, <2>6
<1>2. CASE ThreadWrites
  <2>1. /\ look' = look /\ kept' = kept /\ lost' = lost /\ batch' = batch
        /\ flight = "begun" /\ flight' \in {"landed", "refused"} /\ disk' = WrittenDisk(batch)
    BY <1>2 DEF ThreadWrites, saverVars
  <2>2. disk'.look = IF batch.look # None THEN batch.look ELSE disk.look
    BY <2>1, LookTypes, WrittenDiskLook
  <2>3. LookInv'
    BY <2>1, <2>2, LookTypes, WrittenLook DEF LookInv
  <2> QED BY <2>2, <2>3 DEF LookHolds, LookInv, LookAgree, TakenWaits
<1>3. CASE ThreadFails
  <2>1. /\ look' = look /\ kept' = kept /\ lost' = lost /\ batch' = batch
        /\ flight = "begun" /\ flight' = "failed" /\ disk' = disk
    BY <1>3 DEF ThreadFails, saverVars
  <2>2. LookAgree(look, batch.look, "failed", disk.look, kept.look, lost)
    BY <2>1, LookTypes, FailedLook DEF LookInv
  <2> QED BY <2>1, <2>2 DEF LookHolds, LookInv
<1>4. CASE ThreadSettles
  <2>1. /\ kept' = kept /\ disk' = disk /\ batch' = NoBatch /\ flight' = "no"
        /\ \/ flight = "failed" /\ look' = Unsettled(look) /\ lost' = (lost \/ stopping)
           \/ /\ flight \in {"landed", "refused"} /\ lost' = lost
              /\ look' = Settled(look, batch.look, TRUE)
    BY <1>4 DEF ThreadSettles
  <2>2. LookAgree(look', None, "no", disk.look, kept.look, lost')
    BY <2>1, LookTypes, FailedLook, SettledLook DEF LookInv
  <2> QED BY <2>1, <2>2 DEF LookHolds, LookInv, NoBatch
<1>5. CASE ThreadWakes
  BY <1>5, SameLook DEF ThreadWakes, writeVars
<1>6. CASE ThreadCloses \/ ThreadEnds
  <2>1. /\ look' = look /\ kept' = kept /\ lost' = lost /\ batch' = batch /\ disk' = disk
        /\ flight \in {"closing", "closed"} /\ flight' \in {"no", "closed"}
        /\ batch.look = None
    BY <1>6 DEF ThreadCloses, ThreadEnds, saverVars, OnlyTheThread, NoBatch
  <2> QED BY <2>1 DEF LookHolds, LookInv, LookAgree, NewestWaits, TakenWaits, Committed,
                      CommittedHolds, WrittenHolds, NewestHolds
<1> QED BY <1>1, <1>2, <1>3, <1>4, <1>5, <1>6 DEF Thread

LEMMA TimeLook == ASSUME TypeOK, LookInv, Time PROVE LookHolds
<1>1. /\ batch' = batch /\ flight' = flight /\ disk' = disk /\ kept' = kept /\ lost' = lost
  BY DEF Time, GlassDueComes, LookDueComes, SecondPasses, RetryPasses, writeVars
<1>2. look'.pending = look.pending /\ look'.written = look.written
  BY LookTypes DEF Time, GlassDueComes, LookDueComes, SecondPasses, RetryPasses, SlotType
<1> QED BY <1>1, <1>2, SameLook

(* An archive's look: until somebody changes the look again, it is on the  *)
(* disk or the saver's own look is, and it is in the memory once the       *)
(* restore is over; the saver's newest look is the memory's.               *)
Parts(v) == <<v.shown, v.laid>>

Remembered ==
    req.pc # "off" /\ ~Refuses => kept.look # None /\ kept.look.v = mem.look

BroughtBack == req.back # None /\ disk.look.n = 0 => Parts(disk.look.v) = req.back

ShownBack ==
    req.back # None /\ req.pc \notin {"restored", "settling"} => Parts(mem.look) = req.back

OffForgets == req.pc = "off" => req.back = None

RestoreInv == Remembered /\ BroughtBack /\ ShownBack /\ OffForgets

LookStep == LookInv' /\ RestoreInv'

(* A step that is none of the look's nor of a restore's.                   *)
LEMMA OtherStep ==
    ASSUME RestoreInv, LookHolds, kept'.look = kept.look, mem'.look = mem.look,
           req'.back = req.back,
           req'.pc = req.pc \/ {req.pc, req'.pc} \cap {"off", "restored", "settling"} = {},
           Refuses => Refuses'
    PROVE  LookStep
BY DEF LookStep, LookHolds, RestoreInv, Remembered, BroughtBack, ShownBack, OffForgets, Parts

LEMMA ReqMoves ==
    ASSUME TypeOK, NEW pc
    PROVE  /\ [req EXCEPT !.pc = pc].pc = pc /\ [req EXCEPT !.pc = pc].back = req.back
           /\ \A back : /\ [req EXCEPT !.back = back].pc = req.pc
                        /\ [req EXCEPT !.back = back].back = back
                        /\ [req EXCEPT !.pc = pc, !.back = back].pc = pc
                        /\ [req EXCEPT !.pc = pc, !.back = back].back = back
           /\ \A ok : /\ [req EXCEPT !.pc = pc, !.ok = ok].pc = pc
                      /\ [req EXCEPT !.pc = pc, !.ok = ok].back = req.back
BY DEF TypeOK, RequestType

LEMMA ArchivedParts ==
    ASSUME NEW archived \in Archived
    PROVE  <<archived[1], archived[2]>> = archived
BY ConstantsAssumption

LEMMA PrompterLook ==
    ASSUME TypeOK, RestoreKnown, OnlyTheThread, Phases, LookInv, RestoreInv, Prompter
    PROVE  LookStep
<1>0. batch' = batch /\ flight' = flight /\ Refuses' = Refuses
  <2>1. batch' = batch /\ flight' = flight /\ stopping' = stopping /\ stopped' = stopped
    BY DEF Prompter, KeepPlace, SetLook, PutOn, Update, Clear, CommitGlass, Edit, RestoreCommits,
           RestoreHolds, RestoreSettles, Remember, saverVars, writeVars
  <2> QED BY <2>1 DEF Refuses
<1>1. CASE \E place \in Places, urgency \in Urgencies : KeepPlace(place, urgency)
  <2>1. /\ mem' = mem /\ req' = req
        /\ \E save, urgency : KeepGlass(save, urgency)
    BY <1>1 DEF KeepPlace
  <2> QED BY <1>0, <2>1, KeepGlassLook, OtherStep
<1>2. ASSUME NEW shown \in Shown, NEW laid \in Laid, SetLook(shown, laid) PROVE LookStep
  <2> DEFINE next == NextLook(shown, laid)
  <2>1. next \in LookSaves
    BY NextLookType
  <2> HIDE DEF next
  <2>2. /\ mem' = [mem EXCEPT !.look = next] /\ KeepLook(next, "coalesced")
        /\ req' = IF req.pc = "restored" THEN req ELSE [req EXCEPT !.back = None]
        /\ req.pc \notin {"off", "settling"}
    BY <1>2 DEF SetLook, Unlocked, next
  <2>3. LookHolds /\ (~Refuses => kept'.look # None /\ kept'.look.v = next)
    BY <1>0, <2>1, <2>2, KeepLookLook
  <2>4. mem'.look = next
    BY <2>2, LookTypes DEF MemoryType
  <2>5. /\ req'.pc = req.pc
        /\ (req.pc = "restored" /\ req'.back = req.back) \/ req'.back = None
    BY <2>2, ReqMoves
  <2> QED BY <1>0, <2>2, <2>3, <2>4, <2>5
          DEF LookStep, LookHolds, RestoreInv, Remembered, BroughtBack, ShownBack, OffForgets
<1>3. ASSUME NEW place \in Places, RestoreHolds(place) PROVE LookStep
  <2>1. /\ mem' = mem /\ req.pc = "restored" /\ req' = [req EXCEPT !.pc = "settling"]
        /\ Ignored \/ \E save, urgency : KeepGlass(save, urgency)
    BY <1>3 DEF RestoreHolds
  <2>2. LookHolds /\ kept'.look = kept.look
    BY <1>0, <2>1, KeepGlassLook
  <2>3. req'.pc = "settling" /\ req'.back = req.back
    BY <2>1, ReqMoves
  <2> QED BY <1>0, <2>1, <2>2, <2>3
          DEF LookStep, LookHolds, RestoreInv, Remembered, BroughtBack, ShownBack, OffForgets
<1>4. CASE RestoreSettles
  <2> DEFINE taken == NextLook(req.back[1], req.back[2])
  <2>1. req.pc = "settling" /\ req' = [req EXCEPT !.pc = "idle"] /\ ~Refuses
    BY <1>4 DEF RestoreSettles, Phases, Refuses
  <2>2. req.back \in Archived /\ req.back[1] \in Shown /\ req.back[2] \in Laid
    BY <2>1, ConstantsAssumption DEF RestoreKnown
  <2>3. taken \in LookSaves /\ Parts(taken) = req.back
    BY <2>2, NextLookType, ArchivedParts DEF NextLook, Parts
  <2>4. req'.pc = "idle" /\ req'.back = req.back
    BY <2>1, ReqMoves
  <2> HIDE DEF taken
  <2>5. /\ LookHolds /\ mem'.look = taken
        /\ kept'.look # None /\ kept'.look.v = mem'.look
    <3>1. CASE taken # mem.look
      <4>1. mem' = [mem EXCEPT !.look = taken] /\ KeepLook(taken, "now")
        BY <1>4, <3>1 DEF RestoreSettles, taken
      <4>2. mem'.look = taken
        BY <4>1, LookTypes DEF MemoryType
      <4> QED BY <1>0, <2>1, <2>3, <4>1, <4>2, KeepLookLook
    <3>2. CASE taken = mem.look
      <4>1. mem' = mem /\ Ignored
        BY <1>4, <3>2 DEF RestoreSettles, taken
      <4>2. LookHolds /\ kept'.look = kept.look
        BY <1>0, <4>1, KeepGlassLook
      <4> QED BY <2>1, <3>2, <4>1, <4>2 DEF RestoreInv, Remembered
    <3> QED BY <3>1, <3>2
  <2> QED BY <1>0, <2>1, <2>3, <2>4, <2>5
          DEF LookStep, LookHolds, RestoreInv, Remembered, BroughtBack, ShownBack, OffForgets
<1>5. ASSUME NEW archived \in Archived, RestoreCommits(archived) PROVE LookStep
  <2>1. /\ look' = look /\ kept' = kept /\ lost' = lost /\ mem' = mem /\ req.pc = "idle"
    BY <1>5 DEF RestoreCommits, saverVars
  <2>2. req'.pc = "restored" /\ req'.back = archived
    BY <1>5, ReqMoves DEF RestoreCommits
  <2>3. \/ disk'.look = disk.look /\ archived = Parts(disk.look.v)
        \/ disk'.look.n = 0 /\ Parts(disk'.look.v) = archived
    BY <1>5, LookTypes, ArchivedParts DEF RestoreCommits, DiskType, Parts
  <2>4. LookInv'
    BY <1>0, <2>1, <2>3 DEF LookInv, LookAgree, NewestWaits, TakenWaits, Committed,
                            CommittedHolds, WrittenHolds, NewestHolds
  <2> QED BY <1>0, <2>1, <2>2, <2>3, <2>4
          DEF LookStep, RestoreInv, Remembered, BroughtBack, ShownBack, OffForgets
<1>6. CASE \/ \E script \in Scripts, place \in Places : PutOn(script, place) \/ Edit(script, place)
           \/ \E place \in Places : Update(place) \/ Clear(place)
           \/ Remember
  <2>1. look' = look /\ lost' = lost
    BY <1>6 DEF PutOn, Update, Clear, CommitGlass, Edit, Remember, saverVars
  <2>2. disk'.look = disk.look
    BY <1>6, LookTypes DEF PutOn, Update, Clear, CommitGlass, Edit, Remember, DiskType
  <2>3. kept'.look = kept.look /\ mem'.look = mem.look
    BY <1>6, LookTypes DEF PutOn, Update, Clear, CommitGlass, Edit, Remember, BatchType,
                           MemoryType
  <2>4. /\ req'.back = req.back
        /\ req.pc \in {"idle", "committed"} /\ req'.pc \in {"idle", "committed"}
    <3>1. /\ req.pc \in {"idle", "committed"}
          /\ \/ req' = req
             \/ req' = [req EXCEPT !.pc = "committed"]
             \/ req' = [req EXCEPT !.pc = "idle"]
      BY <1>6 DEF PutOn, Update, Clear, CommitGlass, Edit, Remember
    <3> QED BY <3>1, FlagTypes DEF RequestType
  <2>5. LookHolds
    BY <1>0, <2>1, <2>2, <2>3, SameLook
  <2> QED BY <1>0, <2>3, <2>4, <2>5, OtherStep
<1> QED BY <1>1, <1>2, <1>3, <1>4, <1>5, <1>6, Zenon DEF Prompter

LEMMA RequestLoopLook ==
    ASSUME TypeOK, OnlyTheThread, LookInv, RestoreInv, RequestLoop
    PROVE  LookStep
<1>1. /\ batch' = batch /\ flight' = flight /\ mem' = mem
      /\ req'.back = req.back
      /\ {req.pc, req'.pc} \cap {"off", "restored", "settling"} = {}
  <2>1. batch' = batch /\ flight' = flight /\ mem' = mem
    BY DEF RequestLoop, FlushBegins, FinishBegins, StopKeeps, StopSkips, FlushLooks,
           FlushGivesUp, FlushChecks, FinishLooks, FinishGivesUp, FinishChecks, FinishEnds,
           writeVars
  <2>2. /\ req.pc \notin {"off", "restored", "settling"}
        /\ \/ req' = req
           \/ \E pc \in {"idle", "flush", "flushed", "stop", "finish", "finishing", "finished",
                         "stopped"} :
                 \/ req' = [req EXCEPT !.pc = pc]
                 \/ \E ok : req' = [req EXCEPT !.pc = pc, !.ok = ok]
    BY DEF RequestLoop, FlushBegins, FinishBegins, StopKeeps, StopSkips, FlushLooks,
           FlushGivesUp, FlushChecks, FinishLooks, FinishGivesUp, FinishChecks, FinishEnds,
           Answers
  <2>3. ASSUME NEW pc \in {"idle", "flush", "flushed", "stop", "finish", "finishing",
                           "finished", "stopped"},
               \/ req' = [req EXCEPT !.pc = pc]
               \/ \E ok : req' = [req EXCEPT !.pc = pc, !.ok = ok]
        PROVE  req'.pc = pc /\ req'.back = req.back
    BY <2>3, FlagTypes DEF RequestType
  <2> QED BY <2>1, <2>2, <2>3
<1>2. Refuses => Refuses'
  BY FlagTypes DEF RequestLoop, FlushBegins, FinishBegins, StopKeeps, StopSkips, FlushLooks,
         FlushGivesUp, FlushChecks, FinishLooks, FinishGivesUp, FinishChecks, FinishEnds,
         saverVars, Refuses
<1>3. LookHolds /\ kept'.look = kept.look
  <2>1. CASE FlushBegins \/ FinishBegins
    <3>1. kept' = kept
      BY <2>1 DEF FlushBegins, FinishBegins
    <3>2. CASE threaded
      <4>1. look' = DueNow(look) /\ disk' = disk /\ lost' = lost
        BY <2>1, <3>2 DEF FlushBegins, FinishBegins, MakeDueNow
      <4>2. look'.pending = look.pending /\ look'.written = look.written
        BY <4>1, LookTypes DEF DueNow, SlotType
      <4> QED BY <1>1, <3>1, <4>1, <4>2, SameLook
    <3>3. CASE ~threaded
      <4>1. WriteHere(glass, look) /\ flight = "no" /\ batch.look = None
        BY <2>1, <3>3 DEF FlushBegins, FinishBegins, OnlyTheThread, NoBatch
      <4>2. LookAgree(look, None, "no", disk.look, kept.look, lost)
        BY <4>1 DEF LookInv
      <4>3. /\ LookAgree(look', None, "no", disk'.look, kept.look, lost')
            /\ disk'.look = disk.look \/ disk'.look.n # 0
        BY <4>1, <4>2, LookTypes, WriteHereLook
      <4> QED BY <1>1, <3>1, <4>1, <4>3 DEF LookHolds, LookInv
    <3> QED BY <3>2, <3>3
  <2>2. CASE \E place \in Places : StopKeeps(place)
    <3>1. Ignored \/ \E save, urgency : KeepGlass(save, urgency)
      BY <2>2 DEF StopKeeps
    <3> QED BY <1>1, <3>1, KeepGlassLook
  <2>3. CASE \/ FlushLooks \/ FlushGivesUp \/ FlushChecks \/ StopSkips
             \/ FinishLooks \/ FinishGivesUp \/ FinishChecks \/ FinishEnds
    <3>1. look' = look /\ disk' = disk /\ lost' = lost /\ kept' = kept
      BY <2>3 DEF FlushLooks, FlushGivesUp, FlushChecks, StopSkips, FinishLooks, FinishGivesUp,
                  FinishChecks, FinishEnds, saverVars
    <3> QED BY <1>1, <3>1, SameLook
  <2> QED BY <2>1, <2>2, <2>3, Zenon DEF RequestLoop
<1> QED BY <1>1, <1>2, <1>3, OtherStep

LEMMA ProcessLook ==
    ASSUME TypeOK, OnlyTheThread, Idle, Phases, LookInv, RestoreInv, Start \/ Crash
    PROVE  LookStep
<1>1. CASE Crash
  <2>1. /\ look' = EmptySlot /\ batch' = NoBatch /\ kept' = NoBatch
        /\ req' = [pc |-> "off", ok |-> FALSE, back |-> None]
    BY <1>1 DEF Crash
  <2> QED BY <2>1 DEF NoBatch, EmptySlot, LookStep, LookInv, LookAgree, NewestWaits, TakenWaits,
                      Committed, CommittedHolds, WrittenHolds, NewestHolds, RestoreInv,
                      Remembered, BroughtBack, ShownBack, OffForgets
<1>2. CASE Start
  <2> DEFINE loaded == [disk.look.v EXCEPT !.rev = @ + StartStep]
             h == [v |-> loaded, n |-> handed + 1]
             waiting == [EmptySlot EXCEPT !.pending = h, !.due = "now"]
  <2>1. loaded \in LookSaves /\ h.n # 0 /\ h.v = loaded
    BY LookTypes, ConstantsAssumption DEF Numbered, LookSaves
  <2>2. h # None
    BY <2>1, LookTypes, NoneIsNoSave DEF Numbered
  <2>3. /\ mem'.look = loaded /\ kept'.look = h /\ batch' = batch /\ flight' = flight
        /\ req' = [req EXCEPT !.pc = "idle"] /\ req.pc = "off" /\ lost' = lost
    BY <1>2 DEF Start
  <2>4. flight = "no" /\ batch.look = None /\ req'.pc = "idle" /\ req'.back = None
    BY <2>3, ReqMoves DEF Idle, OnlyTheThread, NoBatch, RestoreInv, OffForgets
  <2> HIDE DEF loaded, h
  <2>5. \/ look' = waiting /\ disk' = disk
        \/ look' = [EmptySlot EXCEPT !.written = loaded] /\ disk' = [disk EXCEPT !.look = h]
    <3>1. \/ look' = waiting /\ UNCHANGED <<disk, recent, retry, failures>>
          \/ look' = [EmptySlot EXCEPT !.written = loaded] /\ disk' = [disk EXCEPT !.look = h]
          \/ look' = waiting /\ UNCHANGED disk
      BY <1>2, Zenon DEF Start, loaded, h
    <3> QED BY <3>1
  <2>6. LookInv'
    <3>1. CASE look' = waiting
      <4>1. look'.pending = h /\ look'.written = None
        BY <3>1 DEF EmptySlot
      <4> QED BY <2>1, <2>2, <2>3, <2>4, <4>1
              DEF LookInv, LookAgree, NewestWaits, TakenWaits, Committed, CommittedHolds,
                  WrittenHolds, NewestHolds
    <3>2. CASE look' = [EmptySlot EXCEPT !.written = loaded] /\ disk' = [disk EXCEPT !.look = h]
      <4>1. look'.pending = None /\ look'.written = loaded /\ disk'.look = h
        BY <3>2, LookTypes DEF EmptySlot, DiskType
      <4> QED BY <2>1, <2>2, <2>3, <2>4, <4>1
              DEF LookInv, LookAgree, NewestWaits, TakenWaits, Committed, CommittedHolds,
                  WrittenHolds, NewestHolds
    <3> QED BY <2>5, <3>1, <3>2
  <2> QED BY <2>1, <2>2, <2>3, <2>4, <2>6
          DEF LookStep, RestoreInv, Remembered, BroughtBack, ShownBack, OffForgets
<1> QED BY <1>1, <1>2

LEMMA LookInvStep ==
    /\ TypeOK /\ RestoreKnown /\ GlassInv /\ PhasesInv
    /\ LookInv /\ RestoreInv /\ [Next]_vars
    => LookInv' /\ RestoreInv'
<1> SUFFICES ASSUME TypeOK, RestoreKnown, GlassInv, PhasesInv, LookInv, RestoreInv, [Next]_vars
             PROVE  LookStep
  BY DEF LookStep
<1>0. OnlyTheThread /\ Idle /\ Phases
  BY DEF GlassInv, PhasesInv
<1>1. CASE Thread
  <2>1. mem' = mem /\ req' = req /\ kept' = kept
    BY <1>1 DEF Thread, ThreadLooks, ThreadWakes, ThreadWrites, ThreadFails,
                ThreadSettles, ThreadCloses, ThreadEnds
  <2>2. stopping' = stopping /\ (stopped' = stopped \/ stopped' = TRUE)
    BY <1>1 DEF Thread, ThreadLooks, ThreadWakes, ThreadWrites, ThreadFails,
                ThreadSettles, ThreadCloses, ThreadEnds, saverVars
  <2>3. Refuses => Refuses'
    BY <2>2 DEF Refuses
  <2> QED BY <1>0, <1>1, <2>1, <2>3, ThreadLook, OtherStep
<1>2. CASE Time
  <2>1. mem' = mem /\ req' = req /\ kept' = kept /\ (Refuses => Refuses')
    BY <1>2 DEF Time, GlassDueComes, LookDueComes, SecondPasses, RetryPasses, Refuses
  <2> QED BY <1>2, <2>1, TimeLook, OtherStep
<1>3. CASE UNCHANGED vars
  <2>1. /\ mem' = mem /\ req' = req /\ kept' = kept /\ (Refuses => Refuses') /\ look' = look
        /\ batch' = batch /\ flight' = flight /\ disk' = disk /\ lost' = lost
    BY <1>3 DEF vars, Refuses
  <2> QED BY <2>1, SameLook, OtherStep
<1> QED BY <1>0, <1>1, <1>2, <1>3, PrompterLook, RequestLoopLook, ProcessLook, Zenon DEF Next

LEMMA InitLook == Init => LookInv /\ RestoreInv
<1> SUFFICES ASSUME Init PROVE LookInv /\ RestoreInv
  OBVIOUS
<1>1. /\ look = EmptySlot /\ batch = NoBatch /\ kept = NoBatch
      /\ req = [pc |-> "off", ok |-> FALSE, back |-> None]
  BY DEF Init
<1> QED BY <1>1 DEF NoBatch, EmptySlot, LookInv, LookAgree, NewestWaits, TakenWaits, Committed,
                    CommittedHolds, WrittenHolds, NewestHolds, RestoreInv, Remembered,
                    BroughtBack, ShownBack, OffForgets

LEMMA LookInvAlways == Spec => [](LookInv /\ RestoreInv)
<1>1. (TypeOK /\ RestoreKnown) /\ GlassInv /\ PhasesInv /\ (LookInv /\ RestoreInv) /\ [Next]_vars
          => LookInv' /\ RestoreInv'
  BY LookInvStep
<1> QED BY <1>1, InitLook, SaverTypeCorrect, GlassInvAlways, PhasesAlways, PTL DEF Spec

(* When no look waits, the disk holds the newest look, size and look       *)
(* revision the prompter gave, unless an archive's restore wrote the       *)
(* disk's since (saver.rs: Slot, take_batch, finish_batch).                *)
THEOREM NoLookLost == Spec => []LookKept
<1>1. LookInv => LookKept
  BY DEF LookInv, LookAgree, NewestHolds, LookKept, LookOnDisk, LookIsTheSavers
<1> QED BY <1>1, LookInvAlways, PTL

LEMMA BothKept == Spec => [](PlaceKept /\ LookKept)
BY NoPlaceLost, NoLookLost, PTL

(* With the thread, a stop that was told "done" in time has the last       *)
(* place, pace and look on the disk and no write on its way, unless the    *)
(* thread's last write failed, which the answer does not tell (saver.rs:   *)
(* run, finish_batch, finish).                                             *)
THEOREM StopsAreToldTrue == Spec => []StopTold
<1>1. PhasesInv /\ PlaceKept /\ LookKept => StopTold
  BY DEF PhasesInv, Phases, AllWritten, NothingPending, PlaceKept, LookKept, StopTold
<1> QED BY <1>1, PhasesAlways, BothKept, PTL

(* A flush that answers true left nothing unwritten (saver.rs: flush,      *)
(* nothing_pending), whatever was handed over while it waited.             *)
THEOREM FlushesAreToldTrue == Spec => FlushTold
<1> DEFINE told == req.pc \in {"flush", "flushed"} /\ req'.pc = "idle" /\ req'.ok
                       => PlaceOnDisk /\ LookOnDisk
<1>1. ASSUME TypeOK, PhasesInv, PlaceKept, LookKept, [Next]_vars,
             req.pc \in {"flush", "flushed"}, req'.pc = "idle", req'.ok
      PROVE  PlaceOnDisk /\ LookOnDisk
  <2>0. req \in RequestType
    BY <1>1, FlagTypes
  <2>1. FlushLooks \/ FlushGivesUp \/ FlushChecks
    <3>1. ~Thread /\ ~Time /\ ~UNCHANGED vars /\ ~Start
      BY <1>1 DEF Thread, ThreadLooks, ThreadWakes, ThreadWrites, ThreadFails, ThreadSettles,
                  ThreadCloses, ThreadEnds, Time, GlassDueComes, LookDueComes, SecondPasses,
                  RetryPasses, vars, Start
    <3>2. ~Crash
      BY <1>1 DEF Crash
    <3>3. ~Prompter
      BY <1>1, <2>0 DEF Prompter, KeepPlace, SetLook, PutOn, Update, Clear, CommitGlass, Edit,
                        RestoreCommits, RestoreHolds, RestoreSettles, Remember, RequestType
    <3>4. RequestLoop
      BY <1>1, <3>1, <3>2, <3>3, Zenon DEF Next
    <3> QED BY <1>1, <3>4 DEF RequestLoop, FlushBegins, FinishBegins, StopKeeps, StopSkips,
                              FinishLooks, FinishGivesUp, FinishChecks, FinishEnds
  <2>2. NothingPending
    BY <1>1, <2>0, <2>1 DEF FlushLooks, FlushGivesUp, FlushChecks, Answers, Quiet, RequestType
  <2>3. ~lost
    BY <1>1 DEF PhasesInv, Phases
  <2> QED BY <1>1, <2>2, <2>3 DEF NothingPending, PlaceKept, LookKept
<1>2. TypeOK /\ PhasesInv /\ (PlaceKept /\ LookKept) /\ [Next]_vars => [told]_vars
  BY <1>1
<1> QED BY <1>2, SaverTypeCorrect, PhasesAlways, BothKept, PTL DEF Spec, FlushTold

(* A look an archive brought back stands once the saver is quiet, though a *)
(* write of an older look was on its way when the restore committed        *)
(* (archive.rs: restore_prompter_archive; commands.rs:                     *)
(* after_archive_restore).                                                 *)
THEOREM RestoredLooksStand == Spec => []RestoredLookStands
<1>1. PhasesInv /\ (LookInv /\ RestoreInv) => RestoredLookStands
  BY DEF PhasesInv, Phases, LookInv, LookAgree, NewestHolds, RestoreInv, Remembered, BroughtBack,
         ShownBack, Parts, Refuses, RestoredLookStands
<1> QED BY <1>1, PhasesAlways, LookInvAlways, PTL

(***************************************************************************)
(* When a save is due.                                                     *)
(***************************************************************************)
(* The slot g, the part b of the write as far as fl and whether the slot   *)
(* was asked for sooner (r): what is due now was asked for, unless the     *)
(* write on its way took it and nothing newer has come.                    *)
AskedFor(g, b, fl, r) ==
    /\ DueIn(g) /\ ~g.taken => r
    /\ g.taken => /\ fl \notin {"no", "closing", "closed"}
                  /\ b # None
                  /\ g.pending # None => g.pending = b

(* Without the thread nothing is taken, and dues mean nothing.             *)
DueInv ==
    /\ threaded => /\ AskedFor(glass, batch.glass, flight, rushed.glass)
                   /\ AskedFor(look, batch.look, flight, rushed.look)
    /\ ~threaded => ~glass.taken /\ ~look.taken

LEMMA DueTypes ==
    ASSUME TypeOK
    PROVE  /\ glass \in SlotType(GlassSaves) /\ look \in SlotType(LookSaves)
           /\ rushed \in [glass : BOOLEAN, look : BOOLEAN]
           /\ threaded \in BOOLEAN /\ stopping \in BOOLEAN
           /\ batch.glass \in Waiting(GlassSaves) /\ batch.look \in Waiting(LookSaves)
<1>1. /\ glass \in SlotType(GlassSaves) /\ look \in SlotType(LookSaves)
      /\ rushed \in [glass : BOOLEAN, look : BOOLEAN]
      /\ threaded \in BOOLEAN /\ stopping \in BOOLEAN /\ batch \in BatchType
  BY Zenon DEF TypeOK
<1> QED BY <1>1 DEF BatchType

(* The operations on a slot leave it asked for.                            *)
LEMMA SlotsAskedFor ==
    ASSUME NEW S, None \notin Numbered(S), NEW g \in SlotType(S), NEW b \in Waiting(S), NEW fl,
           NEW r \in BOOLEAN, AskedFor(g, b, fl, r)
    PROVE  /\ \A h \in Numbered(S), due \in {"now", "later"} :
                  AskedFor(HandOver(g, h, due), b, fl, r \/ due = "now")
           /\ AskedFor([g EXCEPT !.due = "now"], b, fl, TRUE)
           /\ AskedFor(DueNow(g), b, fl, TRUE)
           /\ AskedFor(Deduped(g), b, fl, r)
           /\ AskedFor([Emptied(g) EXCEPT !.written = None], b, fl, r)
<1>1. ASSUME NEW h \in Numbered(S), NEW due \in {"now", "later"}
      PROVE  AskedFor(HandOver(g, h, due), b, fl, r \/ due = "now")
  <2>1. /\ HandOver(g, h, due).pending = h /\ HandOver(g, h, due).taken = FALSE
        /\ HandOver(g, h, due).due =
               IF g.pending # None /\ ~g.taken /\ g.due = "now" THEN "now" ELSE due
    BY DEF HandOver, SlotType
  <2> QED BY <2>1 DEF AskedFor, DueIn
<1>2. AskedFor([g EXCEPT !.due = "now"], b, fl, TRUE)
  BY DEF AskedFor, SlotType
<1>3. AskedFor(DueNow(g), b, fl, TRUE)
  BY <1>2 DEF DueNow, AskedFor
<1>4. AskedFor(Deduped(g), b, fl, r)
  BY DEF AskedFor, SlotType, Deduped, Emptied, DueIn
<1>5. AskedFor([Emptied(g) EXCEPT !.written = None], b, fl, r)
  BY DEF AskedFor, SlotType, Emptied, DueIn
<1> QED BY <1>1, <1>2, <1>3, <1>4, <1>5

(* A batch taken from a slot nothing had taken.                            *)
LEMMA TakingAsked ==
    ASSUME NEW S, None \notin Numbered(S), NEW g \in SlotType(S), NEW c, NEW all \in BOOLEAN,
           NEW r \in BOOLEAN, AskedFor(g, c, "no", r), NEW fl, NEW b, b = TakenFrom(g, all),
           fl = "begun"
    PROVE  AskedFor(Marked(g, b), b, fl, r /\ b = None)
<1>1. /\ Marked(g, b).taken = (b # None) /\ Marked(g, b).pending = g.pending
      /\ Marked(g, b).due = g.due
  BY DEF Marked, SlotType
<1>2. b = None \/ b = g.pending
  BY DEF TakenFrom
<1>3. ~g.taken
  BY DEF AskedFor
<1> QED BY <1>1, <1>2, <1>3 DEF AskedFor, DueIn

(* A write's end.                                                          *)
LEMMA EndingAsked ==
    ASSUME NEW S, None \notin Numbered(S), NEW g \in SlotType(S), NEW b \in Waiting(S), NEW fl,
           NEW r \in BOOLEAN, AskedFor(g, b, fl, r)
    PROVE  /\ AskedFor(Unsettled(g), None, "no", r \/ g.taken)
           /\ \A landed \in BOOLEAN : AskedFor(Settled(g, b, landed), None, "no", r)
<1>1. AskedFor(Unsettled(g), None, "no", r \/ g.taken)
  <2>1. /\ Unsettled(g).taken = FALSE
        /\ DueIn(Unsettled(g)) => DueIn(g)
    BY DEF Unsettled, Emptied, SlotType, DueIn
  <2> QED BY <2>1 DEF AskedFor
<1>2. ASSUME NEW landed \in BOOLEAN PROVE AskedFor(Settled(g, b, landed), None, "no", r)
  <2>1. /\ Settled(g, b, landed).taken = FALSE
        /\ DueIn(Settled(g, b, landed)) =>
               DueIn(g) /\ ~(b # None /\ g.pending.v = b.v)
    BY DEF Settled, Emptied, SlotType, DueIn
  <2>2. g.taken /\ g.pending # None => b # None /\ g.pending.v = b.v
    BY DEF AskedFor
  <2> QED BY <2>1, <2>2 DEF AskedFor, DueIn
<1> QED BY <1>1, <1>2

(* The same, of the saver's own slots.                                     *)
LEMMA OwnSlotsAskedFor ==
    ASSUME TypeOK, DueInv, threaded
    PROVE  /\ \A h \in Numbered(GlassSaves), due \in {"now", "later"} :
                  AskedFor(HandOver(glass, h, due), batch.glass, flight,
                           rushed.glass \/ due = "now")
           /\ AskedFor([glass EXCEPT !.due = "now"], batch.glass, flight, TRUE)
           /\ AskedFor(DueNow(glass), batch.glass, flight, TRUE)
           /\ AskedFor(Deduped(glass), batch.glass, flight, rushed.glass)
           /\ AskedFor([Emptied(glass) EXCEPT !.written = None], batch.glass, flight,
                       rushed.glass)
           /\ AskedFor(Unsettled(glass), None, "no", rushed.glass \/ glass.taken)
           /\ \A landed \in BOOLEAN :
                  AskedFor(Settled(glass, batch.glass, landed), None, "no", rushed.glass)
           /\ \A h \in Numbered(LookSaves), due \in {"now", "later"} :
                  AskedFor(HandOver(look, h, due), batch.look, flight,
                           rushed.look \/ due = "now")
           /\ AskedFor([look EXCEPT !.due = "now"], batch.look, flight, TRUE)
           /\ AskedFor(DueNow(look), batch.look, flight, TRUE)
           /\ AskedFor(Deduped(look), batch.look, flight, rushed.look)
           /\ AskedFor(Unsettled(look), None, "no", rushed.look \/ look.taken)
           /\ \A landed \in BOOLEAN :
                  AskedFor(Settled(look, batch.look, landed), None, "no", rushed.look)
<1>1. /\ glass \in SlotType(GlassSaves) /\ rushed.glass \in BOOLEAN
      /\ batch.glass \in Waiting(GlassSaves)
      /\ AskedFor(glass, batch.glass, flight, rushed.glass)
  BY DueTypes DEF DueInv
<1>2. /\ look \in SlotType(LookSaves) /\ rushed.look \in BOOLEAN
      /\ batch.look \in Waiting(LookSaves)
      /\ AskedFor(look, batch.look, flight, rushed.look)
  BY DueTypes DEF DueInv
<1>3. /\ None \notin Numbered(GlassSaves) /\ None \notin Numbered(LookSaves)
  BY NoneIsNoSave
<1> QED BY <1>1, <1>2, <1>3, SlotsAskedFor, EndingAsked, Zenon

(* A write made on the caller's thread leaves nothing taken.               *)
LEMMA WriteHereTakesNone ==
    ASSUME TypeOK, NEW g \in SlotType(GlassSaves), NEW l \in SlotType(LookSaves),
           WriteHere(g, l), ~g.taken, ~l.taken
    PROVE  ~glass'.taken /\ ~look'.taken
<1>1. ASSUME NEW S, None \notin Numbered(S), NEW s \in SlotType(S), ~s.taken
      PROVE  /\ ~Deduped(s).taken
             /\ \A b, landed : ~Settled(Marked(s, b), b, landed).taken
             /\ \A b : ~Unsettled(Marked(s, b)).taken
  BY <1>1 DEF Deduped, Emptied, Marked, Settled, Unsettled, SlotType
<1>2. Deduped(g) \in SlotType(GlassSaves) /\ Deduped(l) \in SlotType(LookSaves)
  BY SlotOperations, NoneIsNoSave
<1>3. ~Deduped(g).taken /\ ~Deduped(l).taken
  BY <1>1, NoneIsNoSave
<1>4. /\ \A b, landed : /\ ~Settled(Marked(Deduped(g), b), b, landed).taken
                        /\ ~Settled(Marked(Deduped(l), b), b, landed).taken
      /\ \A b : ~Unsettled(Marked(Deduped(g), b)).taken /\ ~Unsettled(Marked(Deduped(l), b)).taken
  BY <1>1, <1>2, <1>3, NoneIsNoSave
<1> QED BY <1>3, <1>4 DEF WriteHere

LEMMA HandedOverDue ==
    ASSUME TypeOK, NEW g \in SlotType(GlassSaves), NEW l \in SlotType(LookSaves),
           HandedOver(g, l), batch' = batch, flight' = flight, threaded' = threaded,
           threaded => /\ AskedFor(g, batch.glass, flight, rushed'.glass)
                       /\ AskedFor(l, batch.look, flight, rushed'.look),
           ~threaded => ~g.taken /\ ~l.taken
    PROVE  DueInv'
<1>1. CASE threaded
  BY <1>1 DEF HandedOver, DueInv
<1>2. CASE ~threaded
  BY <1>2, WriteHereTakesNone DEF HandedOver, DueInv
<1> QED BY <1>1, <1>2

LEMMA IgnoredDue ==
    ASSUME DueInv, glass' = glass, look' = look, rushed' = rushed, batch' = batch,
           flight' = flight, threaded' = threaded
    PROVE  DueInv'
BY DEF DueInv

LEMMA KeepsDue ==
    ASSUME TypeOK, DueInv, batch' = batch, flight' = flight, threaded' = threaded,
           NEW urgency, Ignored \/ (\E save \in GlassSaves : KeepGlass(save, urgency))
                                \/ (\E save \in LookSaves : KeepLook(save, urgency))
    PROVE  DueInv'
<1> DEFINE due == DueAt(urgency)
<1>0. due \in {"now", "later"} /\ handed + 1 \in Nat
  BY LookTypes DEF DueAt
<1> HIDE DEF due
<1>1. CASE Ignored
  BY <1>1, IgnoredDue DEF Ignored
<1>2. ASSUME NEW save \in GlassSaves, KeepGlass(save, urgency), ~Ignored PROVE DueInv'
  <2> DEFINE h == [v |-> save, n |-> handed + 1]
             g == HandOver(glass, h, due)
  <2>1. h \in Numbered(GlassSaves)
    BY <1>0 DEF Numbered
  <2>2. /\ rushed' = [rushed EXCEPT !.glass = @ \/ due = "now"]
        /\ HandedOver(g, look)
    BY <1>2 DEF KeepGlass, due
  <2>3. rushed'.look = rushed.look /\ rushed'.glass = (rushed.glass \/ due = "now")
    BY <2>2, DueTypes
  <2>4. g.taken = FALSE
    BY DueTypes DEF HandOver, SlotType
  <2>5. g \in SlotType(GlassSaves)
    BY <1>0, <2>1, DueTypes, SlotOperations, NoneIsNoSave
  <2>6. threaded => AskedFor(g, batch.glass, flight, rushed.glass \/ due = "now")
    BY <1>0, <2>1, OwnSlotsAskedFor
  <2> HIDE DEF g, h
  <2> QED BY <2>2, <2>3, <2>4, <2>5, <2>6, DueTypes, HandedOverDue DEF DueInv
<1>3. ASSUME NEW save \in LookSaves, KeepLook(save, urgency), ~Ignored PROVE DueInv'
  <2> DEFINE h == [v |-> save, n |-> handed + 1]
             l == HandOver(look, h, due)
  <2>1. h \in Numbered(LookSaves)
    BY <1>0 DEF Numbered
  <2>2. /\ rushed' = [rushed EXCEPT !.look = @ \/ due = "now"]
        /\ HandedOver(glass, l)
    BY <1>3 DEF KeepLook, due
  <2>3. rushed'.glass = rushed.glass /\ rushed'.look = (rushed.look \/ due = "now")
    BY <2>2, DueTypes
  <2>4. l.taken = FALSE
    BY DueTypes DEF HandOver, SlotType
  <2>5. l \in SlotType(LookSaves)
    BY <1>0, <2>1, DueTypes, SlotOperations, NoneIsNoSave
  <2>6. threaded => AskedFor(l, batch.look, flight, rushed.look \/ due = "now")
    BY <1>0, <2>1, OwnSlotsAskedFor
  <2> HIDE DEF l, h
  <2> QED BY <2>2, <2>3, <2>4, <2>5, <2>6, DueTypes, HandedOverDue DEF DueInv
<1> QED BY <1>1, <1>2, <1>3

LEMMA ThreadDue == ASSUME TypeOK, OnlyTheThread, DueInv, Thread PROVE DueInv'
<1>1. CASE ThreadLooks
  <2> DEFINE may == stopping \/ ~retry
             dg == IF may THEN Deduped(glass) ELSE glass
             dl == IF may THEN Deduped(look) ELSE look
             b == IF may THEN BatchOf(dg, dl, stopping) ELSE NoBatch
  <2>1. threaded /\ threaded' = threaded /\ flight = "no" /\ batch = NoBatch
    BY <1>1 DEF ThreadLooks, ThreadIdle, OnlyTheThread
  <2>2. /\ dg \in SlotType(GlassSaves) /\ dl \in SlotType(LookSaves)
        /\ AskedFor(dg, None, "no", rushed.glass) /\ AskedFor(dl, None, "no", rushed.look)
    <3>1. dg \in SlotType(GlassSaves) /\ dl \in SlotType(LookSaves)
      BY DueTypes, SlotOperations, NoneIsNoSave
    <3>2. batch.glass = None /\ batch.look = None
      BY <2>1 DEF NoBatch
    <3>3. AskedFor(glass, None, "no", rushed.glass) /\ AskedFor(look, None, "no", rushed.look)
      BY <2>1, <3>2 DEF DueInv
    <3>4. /\ AskedFor(Deduped(glass), None, "no", rushed.glass)
          /\ AskedFor(Deduped(look), None, "no", rushed.look)
      BY <2>1, <3>2, OwnSlotsAskedFor
    <3> QED BY <3>1, <3>3, <3>4
  <2>3. CASE b # NoBatch
    <3>1. b.glass = TakenFrom(dg, stopping) /\ b.look = TakenFrom(dl, stopping)
      BY <2>3 DEF BatchOf
    <3>2. /\ AskedFor(Marked(dg, b.glass), b.glass, "begun", rushed.glass /\ b.glass = None)
          /\ AskedFor(Marked(dl, b.look), b.look, "begun", rushed.look /\ b.look = None)
      BY <2>2, <3>1, DueTypes, TakingAsked, NoneIsNoSave
    <3>3. /\ glass' = Marked(dg, b.glass) /\ look' = Marked(dl, b.look)
          /\ batch' = b /\ flight' = "begun"
          /\ rushed' = [glass |-> rushed.glass /\ b.glass = None,
                        look |-> rushed.look /\ b.look = None]
      BY <1>1, <2>3, Zenon DEF ThreadLooks
    <3> HIDE DEF may, dg, dl, b
    <3>4. rushed'.glass = (rushed.glass /\ b.glass = None)
          /\ rushed'.look = (rushed.look /\ b.look = None)
      BY <3>3
    <3> QED BY <2>1, <3>2, <3>3, <3>4 DEF DueInv
  <2>4. CASE b = NoBatch
    <3>1. /\ glass' = dg /\ look' = dl /\ batch' = batch /\ rushed' = rushed
          /\ flight' \in {"no", "closing"}
      BY <1>1, <2>1, <2>4 DEF ThreadLooks
    <3> HIDE DEF may, dg, dl, b
    <3>2. ~dg.taken /\ ~dl.taken
      BY <2>2 DEF AskedFor
    <3> QED BY <2>1, <2>2, <3>1, <3>2 DEF DueInv, AskedFor, NoBatch
  <2> QED BY <2>3, <2>4
<1>2. CASE ThreadWakes
  BY <1>2, IgnoredDue DEF ThreadWakes, writeVars
<1>3. CASE ThreadWrites \/ ThreadFails
  <2>1. /\ glass' = glass /\ look' = look /\ rushed' = rushed /\ batch' = batch
        /\ threaded' = threaded /\ flight' \in {"landed", "refused", "failed"}
    BY <1>3 DEF ThreadWrites, ThreadFails, saverVars
  <2> QED BY <2>1 DEF DueInv, AskedFor
<1>4. CASE ThreadSettles
  <2>1. /\ threaded' = threaded /\ batch' = NoBatch /\ flight' = "no" /\ threaded
    BY <1>4, DueTypes DEF ThreadSettles, OnlyTheThread
  <2>2. CASE flight = "failed"
    <3>1. /\ glass' = Unsettled(glass) /\ look' = Unsettled(look)
          /\ rushed'.glass = (rushed.glass \/ glass.taken)
          /\ rushed'.look = (rushed.look \/ look.taken)
      BY <1>4, <2>2 DEF ThreadSettles
    <3>2. /\ AskedFor(Unsettled(glass), None, "no", rushed.glass \/ glass.taken)
          /\ AskedFor(Unsettled(look), None, "no", rushed.look \/ look.taken)
      BY <2>1, OwnSlotsAskedFor
    <3> QED BY <2>1, <3>1, <3>2 DEF DueInv, NoBatch
  <2>3. CASE flight # "failed"
    <3>1. /\ glass' = Settled(glass, batch.glass, flight = "landed")
          /\ look' = Settled(look, batch.look, TRUE) /\ rushed' = rushed
      BY <1>4, <2>3 DEF ThreadSettles
    <3>2. (flight = "landed") \in BOOLEAN /\ TRUE \in BOOLEAN
      OBVIOUS
    <3>3. /\ AskedFor(Settled(glass, batch.glass, flight = "landed"), None, "no", rushed.glass)
          /\ AskedFor(Settled(look, batch.look, TRUE), None, "no", rushed.look)
      BY <2>1, <3>2, OwnSlotsAskedFor
    <3> QED BY <2>1, <3>1, <3>3 DEF DueInv, NoBatch
  <2> QED BY <2>2, <2>3
<1>5. CASE ThreadCloses
  <2>1. /\ glass' = glass /\ look' = look /\ rushed' = rushed /\ batch' = batch
        /\ threaded' = threaded /\ flight = "closing"
    BY <1>5 DEF ThreadCloses, saverVars
  <2>2. threaded
    BY <2>1, DueTypes DEF OnlyTheThread
  <2>3. ~glass.taken /\ ~look.taken
    BY <2>1, <2>2 DEF DueInv, AskedFor
  <2> QED BY <2>1, <2>2, <2>3 DEF DueInv, AskedFor
<1>6. CASE ThreadEnds
  <2>1. /\ glass' = glass /\ look' = look /\ threaded' = FALSE /\ flight = "closed"
    BY <1>6 DEF ThreadEnds
  <2>2. threaded
    BY <2>1, DueTypes DEF OnlyTheThread
  <2> QED BY <2>1, <2>2 DEF DueInv, AskedFor
<1> QED BY <1>1, <1>2, <1>3, <1>4, <1>5, <1>6 DEF Thread

LEMMA TimeDue == ASSUME TypeOK, DueInv, Time PROVE DueInv'
<1>1. batch' = batch /\ flight' = flight /\ threaded' = threaded
  BY DEF Time, GlassDueComes, LookDueComes, SecondPasses, RetryPasses, writeVars
<1>2. CASE GlassDueComes
  <2>1. /\ glass' = [glass EXCEPT !.due = "now"] /\ look' = look
        /\ rushed'.glass = TRUE /\ rushed'.look = rushed.look
    BY <1>2, DueTypes DEF GlassDueComes
  <2>2. threaded => AskedFor(glass', batch.glass, flight, TRUE)
    BY <2>1, OwnSlotsAskedFor
  <2>3. glass'.taken = glass.taken
    BY <2>1, DueTypes DEF SlotType
  <2> QED BY <1>1, <2>1, <2>2, <2>3 DEF DueInv
<1>3. CASE LookDueComes
  <2>1. /\ look' = [look EXCEPT !.due = "now"] /\ glass' = glass
        /\ rushed'.look = TRUE /\ rushed'.glass = rushed.glass
    BY <1>3, DueTypes DEF LookDueComes
  <2>2. threaded => AskedFor(look', batch.look, flight, TRUE)
    BY <2>1, OwnSlotsAskedFor
  <2>3. look'.taken = look.taken
    BY <2>1, DueTypes DEF SlotType
  <2> QED BY <1>1, <2>1, <2>2, <2>3 DEF DueInv
<1>4. CASE SecondPasses \/ RetryPasses
  BY <1>1, <1>4, IgnoredDue DEF SecondPasses, RetryPasses
<1> QED BY <1>2, <1>3, <1>4 DEF Time

LEMMA PrompterDue ==
    ASSUME TypeOK, RestoreKnown, DueInv, Prompter
    PROVE  DueInv'
<1>0. batch' = batch /\ flight' = flight /\ threaded' = threaded
  BY DEF Prompter, KeepPlace, SetLook, PutOn, Update, Clear, CommitGlass, Edit, RestoreCommits,
         RestoreHolds, RestoreSettles, Remember, saverVars, writeVars
<1>1. ASSUME NEW place \in Places, NEW urgency \in Urgencies, KeepPlace(place, urgency)
      PROVE  DueInv'
  BY <1>0, <1>1, PlaceSaveType, KeepsDue DEF KeepPlace
<1>2. ASSUME NEW shown \in Shown, NEW laid \in Laid, SetLook(shown, laid) PROVE DueInv'
  BY <1>0, <1>2, NextLookType, KeepsDue DEF SetLook
<1>3. ASSUME NEW place \in Places, RestoreHolds(place) PROVE DueInv'
  BY <1>0, <1>3, PlaceSaveType, KeepsDue DEF RestoreHolds
<1>4. CASE RestoreSettles
  <2> DEFINE taken == NextLook(req.back[1], req.back[2])
  <2>1. req.back[1] \in Shown /\ req.back[2] \in Laid
    BY <1>4, ConstantsAssumption DEF RestoreSettles, RestoreKnown
  <2>2. taken \in LookSaves
    BY <2>1, NextLookType
  <2>3. KeepLook(taken, "now") \/ Ignored
    BY <1>4 DEF RestoreSettles
  <2> HIDE DEF taken
  <2> QED BY <1>0, <2>2, <2>3, KeepsDue
<1>5. CASE Remember
  <2>1. /\ glass' = [Emptied(glass) EXCEPT !.written = None] /\ look' = look
        /\ rushed' = rushed
    BY <1>5 DEF Remember
  <2>2. threaded => AskedFor(glass', batch.glass, flight, rushed.glass)
    BY <2>1, OwnSlotsAskedFor
  <2>3. glass'.taken = glass.taken
    BY <2>1, DueTypes DEF SlotType, Emptied
  <2> QED BY <1>0, <2>1, <2>2, <2>3 DEF DueInv
<1>6. CASE \/ \E script \in Scripts, place \in Places : PutOn(script, place) \/ Edit(script, place)
           \/ \E place \in Places : Update(place) \/ Clear(place)
           \/ \E archived \in Archived : RestoreCommits(archived)
  <2>1. glass' = glass /\ look' = look /\ rushed' = rushed
    BY <1>6 DEF PutOn, Update, Clear, CommitGlass, Edit, RestoreCommits, saverVars
  <2> QED BY <1>0, <2>1, IgnoredDue
<1> QED BY <1>1, <1>2, <1>3, <1>4, <1>5, <1>6, Zenon DEF Prompter

LEMMA RequestLoopDue == ASSUME TypeOK, OnlyTheThread, DueInv, RequestLoop PROVE DueInv'
<1>0. batch' = batch /\ flight' = flight /\ threaded' = threaded
  BY DEF RequestLoop, FlushBegins, FinishBegins, StopKeeps, StopSkips, FlushLooks, FlushGivesUp,
         FlushChecks, FinishLooks, FinishGivesUp, FinishChecks, FinishEnds, writeVars
<1>1. CASE FlushBegins \/ FinishBegins
  <2>1. CASE threaded
    <3>1. /\ glass' = DueNow(glass) /\ look' = DueNow(look)
          /\ rushed'.glass = TRUE /\ rushed'.look = TRUE
      <4>1. MakeDueNow
        BY <1>1, <2>1 DEF FlushBegins, FinishBegins
      <4> QED BY <4>1 DEF MakeDueNow
    <3>2. /\ AskedFor(glass', batch.glass, flight, TRUE)
          /\ AskedFor(look', batch.look, flight, TRUE)
      BY <2>1, <3>1, OwnSlotsAskedFor
    <3> QED BY <1>0, <2>1, <3>1, <3>2 DEF DueInv
  <2>2. CASE ~threaded
    <3>1. WriteHere(glass, look)
      BY <1>1, <2>2 DEF FlushBegins, FinishBegins
    <3> QED BY <1>0, <2>2, <3>1, DueTypes, WriteHereTakesNone DEF DueInv
  <2> QED BY <2>1, <2>2
<1>2. ASSUME NEW place \in Places, StopKeeps(place) PROVE DueInv'
  BY <1>0, <1>2, PlaceSaveType, KeepsDue DEF StopKeeps
<1>3. CASE \/ FlushLooks \/ FlushGivesUp \/ FlushChecks \/ StopSkips
           \/ FinishLooks \/ FinishGivesUp \/ FinishChecks \/ FinishEnds
  <2>1. glass' = glass /\ look' = look /\ rushed' = rushed
    BY <1>3 DEF FlushLooks, FlushGivesUp, FlushChecks, StopSkips, FinishLooks, FinishGivesUp,
                FinishChecks, FinishEnds, saverVars
  <2> QED BY <1>0, <2>1, IgnoredDue
<1> QED BY <1>1, <1>2, <1>3, Zenon DEF RequestLoop

LEMMA ProcessDue == ASSUME TypeOK, Idle, DueInv, Start \/ Crash PROVE DueInv'
<1>1. CASE Crash
  BY <1>1 DEF Crash, DueInv, EmptySlot
<1>2. CASE Start
  <2>1. /\ glass' = EmptySlot /\ ~look'.taken /\ rushed' = [rushed EXCEPT !.look = TRUE]
        /\ look'.taken = FALSE
    BY <1>2 DEF Start, EmptySlot
  <2>2. rushed'.look = TRUE
    BY <2>1, DueTypes
  <2> QED BY <2>1, <2>2 DEF DueInv, AskedFor, DueIn, EmptySlot
<1> QED BY <1>1, <1>2

LEMMA DueInvStep ==
    TypeOK /\ RestoreKnown /\ GlassInv /\ DueInv /\ [Next]_vars => DueInv'
<1> SUFFICES ASSUME TypeOK, RestoreKnown, GlassInv, DueInv, [Next]_vars PROVE DueInv'
  OBVIOUS
<1>0. OnlyTheThread /\ Idle
  BY DEF GlassInv
<1>1. CASE UNCHANGED vars
  BY <1>1, IgnoredDue DEF vars
<1> QED BY <1>0, <1>1, ThreadDue, TimeDue, PrompterDue, RequestLoopDue, ProcessDue, Zenon DEF Next

(* A save is due at once only for a reason of its own: one handed over     *)
(* while a write is on its way does not inherit the due of the one the     *)
(* write took (saver.rs: Slot::hand_over, take_batch, finish_batch).       *)
THEOREM SavesAreDueForAReason == Spec => []DueForAReason
<1>1. Init => DueInv
  <2> SUFFICES ASSUME Init PROVE DueInv
    OBVIOUS
  <2>1. threaded = FALSE /\ glass = EmptySlot /\ look = EmptySlot
    BY DEF Init
  <2> QED BY <2>1 DEF DueInv, EmptySlot
<1>2. (TypeOK /\ RestoreKnown) /\ GlassInv /\ DueInv /\ [Next]_vars => DueInv'
  BY DueInvStep
<1>3. DueInv => DueForAReason
  BY DEF DueInv, AskedFor, DueForAReason
<1> QED BY <1>1, <1>2, <1>3, SaverTypeCorrect, GlassInvAlways, PTL DEF Spec

=============================================================================
