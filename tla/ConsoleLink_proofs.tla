------------------------ MODULE ConsoleLink_proofs --------------------------
(***************************************************************************)
(* The console link for every set of faders and switches and every length  *)
(* of its waits: a flush writes over no edit, and a Console that reads     *)
(* aligned shows what the desk holds of every value no mishap befell since *)
(* a pull read it.                                                         *)
(*                                                                         *)
(* The second rests on what the link may forget.  A send leaves pending    *)
(* when a line answers it, when a read-back asked after it no longer lists *)
(* its fader, or when it expires.  So the last line of a value under way   *)
(* must be the desk's, or one the link will drop (Honest); a fader a read- *)
(* back left out must be off (Absent); and a send that expires is marked,  *)
(* or, within a pull, was left out of the pull's dump (OlderSends), which  *)
(* the pull then writes off.  What a pull has learned so far (Begun,       *)
(* Waited, Ended) is what it may call aligned at its end.  All of it is of *)
(* the values that are not doubted (Straight).                             *)
(*                                                                         *)
(* A send is answered in time whatever happens besides, unless the passes  *)
(* are late (Soon): one that was asked after waits for a line that says    *)
(* what the desk holds (ListsIt), or, of a fader that is off, for the      *)
(* answer that leaves it out to go quiet (AwaitsQuiet).                    *)
(***************************************************************************)
EXTENDS ConsoleLink, FiniteSetTheorems, TLAPS

(* What a sequence of lines says of a value: whether one is of it, what    *)
(* the last one says, and that there is but one.                           *)
Holds(s, k) == \E i \in 1 .. Len(s) : s[i].of = k
Ends(s, k, v) ==
    \E i \in 1 .. Len(s) :
       /\ s[i].of = k /\ s[i].value = v
       /\ \A j \in 1 .. Len(s) : j > i => s[j].of # k
Alone(s, k) == \A i, j \in 1 .. Len(s) : s[i].of = k /\ s[j].of = k => i = j

OnWay(k) == Holds(toApp, k)
EditOf(k) == editing # None /\ editing.of = k
UnderWay(k) == OnWay(k) \/ pending[k] # None \/ EditOf(k)

(* What the app will hold of k when what the desk said of it is written.   *)
Rest(k) ==
    IF queued[k] # None THEN queued[k]
    ELSE IF flushing # None /\ flushing.reports[k] # None THEN flushing.reports[k]
    ELSE app[k]

(* The app holds the value, or something that will settle it is under way. *)
Known(k) == UnderWay(k) \/ Rest(k) = desk[k]
Off(k) == UnderWay(k) \/ desk[k] = 0

(* A pull goes on exactly while its request waits; who holds the lock.     *)
Pulls == sync.at \in {"begun", "waiting"}

Shape ==
    /\ touch = "out" => toApp = <<>>
    /\ touch = "back" => toApp # <<>>
    /\ pull # None <=> Pulls
    /\ editing = None \/ flushing = None
    /\ flushing # None /\ flushing.by = "pull" => sync.at = "ended"
    /\ sync.at = "loading" => sync.cause = Load

(* What befell in a pull is doubted after it, too.                         *)
Noted == anew \subseteq doubted /\ (Reads \/ anew = {})

(* A report a flush took is of a value no send waits for.                  *)
Reports ==
    flushing # None => \A k \in Keys : flushing.reports[k] # None => pending[k] = None

(* What holds whatever is excused; the rest, when every mishap is.         *)
Safe == TypeOK /\ Shape /\ Noted /\ Reports

(* The values no mishap befell; in a pull, none since it began.            *)
Straight == Keys \ (IF Reads THEN anew ELSE doubted)

(* A pull's own flush leaves nothing of a level its dump left out.         *)
Written ==
    sync.at = "flushed" \/ (flushing # None /\ flushing.by = "pull") =>
        \A k \in Straight \cap (Faders \ sync.seen) : queued[k] \in {None, 0}

(* A read-back is asked after the send it is for.                          *)
AskedAfter ==
    \A k \in Keys : pending[k] # None /\ pending[k].asked # None => pending[k].asked <= pending[k].sent

(* The one line of k on its way is older than a send the desk took: the    *)
(* link will drop it.                                                      *)
Crossed(k) ==
    /\ Alone(toApp, k)
    /\ \/ EditOf(k) /\ editing.value = desk[k]
       \/ ~EditOf(k) /\ pending[k] # None /\ pending[k].value = desk[k] /\ ~Answers(k)

(* The last line of a value says what the desk holds, or is crossed.       *)
Honest ==
    sync.at # "loading" =>
       \A k \in Straight, v \in Values : Ends(toApp, k, v) => v = desk[k] \/ Crossed(k)

(* A load the desk took may have changed k and nobody was told.            *)
Loading(k) ==
    sync.at = "loading" \/ (sync.at = "begun" /\ sync.cause = Load /\ k \notin pull.seen)

(* A fader whose read-back was asked and lists it no more is off.          *)
Absent ==
    touch # "out" =>
       \A k \in Faders :
          pending[k] # None /\ outstanding[Submix] # None /\ ReadBackAnswers(k) /\ ~Loading(k)
             => desk[k] = 0 \/ OnWay(k) \/ EditOf(k)

(* Something will take aligned away, or the desk is known to be lost.      *)
InTouch == touch \in {"in", "again"}
Doubt ==
    \/ marks # NoMarks
    \/ flushing # None /\ flushing.marks # NoMarks
    \/ ~InTouch

(* An aligned Console knows every value it does not doubt, or is in doubt. *)
Trusted ==
    confidence = "aligned" /\ sync.cause # Load =>
       Doubt \/ \A k \in Keys \ doubted : Known(k)

(* A pull knows what it has seen; from its dump on it knows, too, that a   *)
(* fader it has not seen is off.                                           *)
Begun ==
    sync.at = "begun" /\ InTouch => \A k \in Straight \cap pull.seen : Known(k)

Learned(k, seen) == IF k \in Faders \ seen THEN Off(k) ELSE Known(k)

Waited ==
    sync.at = "waiting" /\ InTouch => \A k \in Straight : Learned(k, pull.seen)

Over == sync.at \in {"ended", "flushed"} /\ sync.complete /\ InTouch

Ended == Over => \A k \in Straight : Learned(k, sync.seen)

(* A send a pull is younger than was not answered because the dump left it *)
(* out; when it expires, the fader is off.                                 *)
LeftOut(k, seen) == OnWay(k) \/ EditOf(k) \/ (k \in Faders \ seen /\ desk[k] = 0)

OlderSends ==
    Pulls =>
       \A k \in Keys : pending[k] # None /\ pending[k].sent > pull.started =>
          /\ k \notin pull.seen
          /\ sync.at = "waiting" /\ InTouch => LeftOut(k, pull.seen)

(* What a desk that came back tells in a pull, before the first is read.   *)
SentSince(k) == pending[k] # None /\ (sync.at = "waiting" => pending[k].sent <= pull.started)
Recalled ==
    touch = "back" /\ sync.at \in {"waiting", "ended", "flushed"} =>
       \A k \in Keys : (k \in Faders /\ desk[k] = 0) \/ OnWay(k) \/ EditOf(k) \/ SentSince(k)

Told ==
    /\ Written /\ AskedAfter /\ Honest /\ Absent /\ Trusted
    /\ Begun /\ Waited /\ Ended /\ OlderSends /\ Recalled

Inv == Safe /\ Told

-----------------------------------------------------------------------------
\* Sequences of lines.
LEMMA EmptyIs == \A k, v : ~Holds(<<>>, k) /\ ~Ends(<<>>, k, v) /\ Alone(<<>>, k)
  BY DEF Holds, Ends, Alone

LEMMA TailIs ==
  ASSUME NEW s \in Seq(Lines), s # <<>>
  PROVE  /\ Tail(s) \in Seq(Lines) /\ Head(s) \in Lines
         /\ Len(Tail(s)) = Len(s) - 1 /\ Len(s) \in Nat \ {0} /\ Head(s) = s[1]
         /\ \A i \in 1 .. Len(Tail(s)) : Tail(s)[i] = s[i + 1]
  OBVIOUS

LEMMA TailHolds ==
  ASSUME NEW s \in Seq(Lines), s # <<>>, NEW k, NEW v
  PROVE  /\ Holds(s, k) <=> Head(s).of = k \/ Holds(Tail(s), k)
         /\ Ends(Tail(s), k, v) => Ends(s, k, v)
         /\ Head(s).of = k /\ ~Holds(Tail(s), k) => Ends(s, k, Head(s).value)
         /\ Alone(s, k) => Alone(Tail(s), k)
         /\ Alone(s, k) /\ Head(s).of = k => ~Holds(Tail(s), k)
  <1> DEFINE t == Tail(s)
  <1>1. /\ Len(t) = Len(s) - 1 /\ Len(s) \in Nat \ {0} /\ Head(s) = s[1]
        /\ \A i \in 1 .. Len(t) : t[i] = s[i + 1]
    BY TailIs
  <1> HIDE DEF t
  <1>2. \A i \in 1 .. Len(s) : i = 1 \/ (i - 1 \in 1 .. Len(t) /\ t[i - 1] = s[i])
    BY <1>1
  <1>3. \A i \in 1 .. Len(t) : i + 1 \in 1 .. Len(s) /\ t[i] = s[i + 1]
    BY <1>1
  <1>4. Holds(s, k) <=> s[1].of = k \/ Holds(t, k)
    <2>1. Holds(s, k) => s[1].of = k \/ Holds(t, k)
      BY <1>2 DEF Holds
    <2>2. s[1].of = k => Holds(s, k)
      BY <1>1 DEF Holds
    <2>3. Holds(t, k) => Holds(s, k)
      BY <1>3 DEF Holds
    <2> QED  BY <2>1, <2>2, <2>3
  <1>5. ASSUME Ends(t, k, v) PROVE Ends(s, k, v)
    <2>1. PICK i \in 1 .. Len(t) : /\ t[i].of = k /\ t[i].value = v
                                   /\ \A j \in 1 .. Len(t) : j > i => t[j].of # k
      BY <1>5 DEF Ends
    <2>2. i + 1 \in 1 .. Len(s) /\ s[i + 1].of = k /\ s[i + 1].value = v
      BY <1>3, <2>1
    <2>3. \A j \in 1 .. Len(s) : j > i + 1 => s[j].of # k
      BY <1>1, <1>2, <2>1
    <2> QED  BY <2>2, <2>3 DEF Ends
  <1>6. ASSUME s[1].of = k, ~Holds(t, k) PROVE Ends(s, k, s[1].value)
    <2>1. \A j \in 1 .. Len(s) : j > 1 => s[j].of # k
      BY <1>2, <1>6 DEF Holds
    <2> QED  BY <1>1, <1>6, <2>1 DEF Ends
  <1>7. Alone(s, k) => Alone(t, k)
    BY <1>1, <1>3 DEF Alone
  <1>8. Alone(s, k) /\ s[1].of = k => ~Holds(t, k)
    BY <1>1, <1>3 DEF Alone, Holds
  <1> QED  BY <1>1, <1>4, <1>5, <1>6, <1>7, <1>8 DEF t

LEMMA JoinIs ==
  ASSUME NEW s \in Seq(Lines), NEW t \in Seq(Lines)
  PROVE  /\ s \o t \in Seq(Lines)
         /\ Len(s) \in Nat /\ Len(t) \in Nat /\ Len(s \o t) = Len(s) + Len(t)
         /\ \A i \in 1 .. Len(s) : (s \o t)[i] = s[i]
         /\ \A i \in 1 .. Len(t) : (s \o t)[Len(s) + i] = t[i]
  OBVIOUS

LEMMA JoinHolds ==
  ASSUME NEW s \in Seq(Lines), NEW t \in Seq(Lines), NEW k, NEW v
  PROVE  /\ Holds(s \o t, k) <=> Holds(s, k) \/ Holds(t, k)
         /\ Ends(s \o t, k, v) => Ends(t, k, v) \/ (~Holds(t, k) /\ Ends(s, k, v))
         /\ ~Holds(t, k) /\ Alone(s, k) => Alone(s \o t, k)
  <1> DEFINE u == s \o t
  <1>1. /\ Len(s) \in Nat /\ Len(t) \in Nat /\ Len(u) = Len(s) + Len(t)
        /\ \A i \in 1 .. Len(s) : u[i] = s[i]
        /\ \A i \in 1 .. Len(t) : u[Len(s) + i] = t[i]
    BY JoinIs
  <1> HIDE DEF u
  <1>2. \A i \in 1 .. Len(u) : \/ i \in 1 .. Len(s) /\ u[i] = s[i]
                               \/ i - Len(s) \in 1 .. Len(t) /\ u[i] = t[i - Len(s)] /\ i > Len(s)
    <2> SUFFICES ASSUME NEW i \in 1 .. Len(u), i \notin 1 .. Len(s)
                 PROVE  i - Len(s) \in 1 .. Len(t) /\ u[i] = t[i - Len(s)] /\ i > Len(s)
      BY <1>1
    <2>1. i - Len(s) \in 1 .. Len(t) /\ i = Len(s) + (i - Len(s)) /\ i > Len(s)
      BY <1>1
    <2> QED  BY <1>1, <2>1
  <1>3. \A i \in 1 .. Len(t) : Len(s) + i \in 1 .. Len(u) /\ u[Len(s) + i] = t[i]
    BY <1>1
  <1>4. \A i \in 1 .. Len(s) : i \in 1 .. Len(u) /\ u[i] = s[i]
    BY <1>1
  <1>5. Holds(u, k) <=> Holds(s, k) \/ Holds(t, k)
    <2>1. Holds(u, k) => Holds(s, k) \/ Holds(t, k)
      BY <1>2 DEF Holds
    <2>2. Holds(s, k) => Holds(u, k)
      BY <1>4 DEF Holds
    <2>3. Holds(t, k) => Holds(u, k)
      BY <1>3 DEF Holds
    <2> QED  BY <2>1, <2>2, <2>3
  <1>6. ASSUME Ends(u, k, v) PROVE Ends(t, k, v) \/ (~Holds(t, k) /\ Ends(s, k, v))
    <2>1. PICK i \in 1 .. Len(u) : /\ u[i].of = k /\ u[i].value = v
                                   /\ \A j \in 1 .. Len(u) : j > i => u[j].of # k
      BY <1>6 DEF Ends
    <2>2. CASE i \in 1 .. Len(s) /\ u[i] = s[i]
      <3>1. \A j \in 1 .. Len(s) : j > i => s[j].of # k
        BY <1>4, <2>1
      <3>2. \A j \in 1 .. Len(t) : t[j].of # k
        <4> SUFFICES ASSUME NEW j \in 1 .. Len(t) PROVE t[j].of # k
          OBVIOUS
        <4>1. Len(s) + j \in 1 .. Len(u) /\ u[Len(s) + j] = t[j] /\ Len(s) + j > i
          BY <1>1, <1>3, <2>2
        <4> QED  BY <2>1, <4>1
      <3> QED  BY <2>1, <2>2, <3>1, <3>2 DEF Ends, Holds
    <2>3. CASE i - Len(s) \in 1 .. Len(t) /\ u[i] = t[i - Len(s)]
      <3>1. \A j \in 1 .. Len(t) : j > i - Len(s) => t[j].of # k
        BY <1>1, <1>3, <2>1
      <3> QED  BY <2>1, <2>3, <3>1 DEF Ends
    <2> QED  BY <1>2, <2>2, <2>3
  <1>7. ASSUME ~Holds(t, k), Alone(s, k) PROVE Alone(u, k)
    <2>1. \A i \in 1 .. Len(u) : u[i].of = k => i \in 1 .. Len(s) /\ s[i].of = k
      BY <1>2, <1>7 DEF Holds
    <2> QED  BY <1>7, <2>1 DEF Alone
  <1> QED  BY <1>5, <1>6, <1>7 DEF u

LEMMA OneIs ==
  ASSUME NEW x \in Lines
  PROVE  /\ <<x>> \in Seq(Lines)
         /\ \A k : Holds(<<x>>, k) <=> x.of = k
         /\ \A k, v : Ends(<<x>>, k, v) => x.of = k /\ v = x.value
  BY DEF Holds, Ends

LEMMA AppendIs == ASSUME NEW s \in Seq(Lines), NEW x \in Lines PROVE Append(s, x) = s \o <<x>>
  OBVIOUS

\* The desk's lines.
LEMMA SeqOfIs ==
  ASSUME NEW S, IsFiniteSet(S)
  PROVE  /\ SetToSeq(S) \in Seq(S)
         /\ \A i \in 1 .. Len(SetToSeq(S)) : SetToSeq(S)[i] \in S
         /\ \A x \in S : \E i \in 1 .. Len(SetToSeq(S)) : SetToSeq(S)[i] = x
  <1> DEFINE n == Cardinality(S)
             f == SetToSeq(S)
  <1>1. n \in Nat /\ ExistsBijection(1 .. n, S)
    BY FS_CardinalityType
  <1>2. \E g \in [1 .. n -> S] : IsInjective(g)
    BY <1>1 DEF ExistsBijection, Bijection, Injection
  <1>3. f \in [1 .. n -> S] /\ IsInjective(f)
    BY <1>2 DEF SetToSeq
  <1>4. f \in Injection(1 .. n, S)
    BY <1>3 DEF Injection
  <1>5. IsFiniteSet(1 .. n) /\ Cardinality(1 .. n) = n
    BY <1>1, FS_Interval
  <1> HIDE DEF f
  <1>6. f \in Surjection(1 .. n, S)
    BY <1>4, <1>5, FS_Injection
  <1>7. f \in Seq(S) /\ Len(f) = n
    BY <1>1, <1>3
  <1> QED  BY <1>3, <1>6, <1>7 DEF f, Surjection

LEMMA KeysAre ==
  /\ Faders \cap Switches = {} /\ Keys = Faders \cup Switches
  /\ Status \notin Keys /\ Submix \notin Keys /\ None \notin Keys
  /\ 0 \in Values /\ 1 \in Values /\ Top \in Values /\ Values \subseteq Nat
  /\ \A k \in Keys : Group(k) \in Groups
  /\ \A k \in Faders : Group(k) = Submix
  <1>1. 0 \in Values /\ 1 \in Values /\ Top \in Values /\ Values \subseteq Nat
    <2>1. Top \in Nat \ {0}
      BY ConsoleAssumption
    <2> QED  BY <2>1 DEF Values
  <1>2. Faders \cap Switches = {} /\ {Submix, Status, Dump, Load, None} \cap Keys = {}
    BY ConsoleAssumption
  <1>3. /\ \A k \in Keys : Group(k) \in Groups
        /\ \A k \in Faders : Group(k) = Submix
    BY DEF Keys, Group, Groups
  <1> QED  BY <1>1, <1>2, <1>3 DEF Keys

LEMMA StatusIs ==
  /\ StatusLine \in Lines /\ GoneLine \in Lines
  /\ \A k \in Keys : StatusLine.of # k /\ GoneLine.of # k
  BY KeysAre DEF StatusLine, GoneLine, Lines

LEMMA ListedIs ==
  ASSUME desk \in [Keys -> Values], NEW ks \in SUBSET Keys
  PROVE  /\ Listed(ks) \in Seq(Lines)
         /\ \A k \in Keys : Holds(Listed(ks), k) <=> k \in ks /\ (k \in Switches \/ desk[k] > 0)
         /\ \A k \in Keys : \A v : Ends(Listed(ks), k, v) => v = desk[k]
  <1> DEFINE on == {k \in ks : k \in Switches \/ desk[k] > 0}
             S == {Line(k) : k \in on}
             f == [k \in on |-> Line(k)]
  <1>1. f \in Surjection(on, S)
    BY DEF Surjection
  <1>2. IsFiniteSet(on)
    BY FS_Subset, ConsoleAssumption
  <1>3. IsFiniteSet(S)
    <2> HIDE DEF f, S, on
    <2> QED  BY <1>1, <1>2, FS_Surjection
  <1>4. S \subseteq Lines
    BY DEF Line, Lines
  <1> DEFINE s == SetToSeq(S)
  <1>5. /\ s \in Seq(S) /\ \A i \in 1 .. Len(s) : s[i] \in S
        /\ \A x \in S : \E i \in 1 .. Len(s) : s[i] = x
    BY <1>3, SeqOfIs
  <1>6. s = Listed(ks)
    BY DEF Listed
  <1> HIDE DEF s
  <1>7. s \in Seq(Lines)
    BY <1>4, <1>5
  <1>8. ASSUME NEW k \in Keys
        PROVE  Holds(s, k) <=> k \in on
    <2>1. ASSUME Holds(s, k) PROVE k \in on
      BY <1>5, <2>1 DEF Holds, Line
    <2>2. ASSUME k \in on PROVE Holds(s, k)
      <3>1. PICK i \in 1 .. Len(s) : s[i] = Line(k)
        BY <1>5, <2>2
      <3> QED  BY <3>1 DEF Holds, Line
    <2> QED  BY <2>1, <2>2
  <1>9. ASSUME NEW k \in Keys, NEW v, Ends(s, k, v)
        PROVE  v = desk[k]
    BY <1>5, <1>9 DEF Ends, Line
  <1> QED  BY <1>6, <1>7, <1>8, <1>9

LEMMA AnswersAre ==
  ASSUME desk \in [Keys -> Values], NEW gs \in SUBSET Groups
  PROVE  /\ AnswersOf(gs) \in Seq(Lines)
         /\ \A k \in Keys : Holds(AnswersOf(gs), k) <=> Group(k) \in gs /\ (k \in Switches \/ desk[k] > 0)
         /\ \A k \in Keys : \A v : Ends(AnswersOf(gs), k, v) => v = desk[k]
  <1> DEFINE s == Listed({k \in Keys : Group(k) \in gs})
             t == IF Submix \in gs THEN <<StatusLine>> ELSE <<>>
  <1>1. /\ s \in Seq(Lines)
        /\ \A k \in Keys : Holds(s, k) <=> Group(k) \in gs /\ (k \in Switches \/ desk[k] > 0)
        /\ \A k \in Keys : \A v : Ends(s, k, v) => v = desk[k]
    BY ListedIs
  <1>2. t \in Seq(Lines) /\ \A k \in Keys : ~Holds(t, k) /\ \A v : ~Ends(t, k, v)
    <2>1. CASE Submix \in gs
      BY <2>1, StatusIs, OneIs
    <2>2. CASE Submix \notin gs
      BY <2>2, EmptyIs
    <2> QED  BY <2>1, <2>2
  <1>3. AnswersOf(gs) = s \o t
    BY DEF AnswersOf
  <1> HIDE DEF s, t
  <1>4. \A k, v : /\ Holds(s \o t, k) <=> Holds(s, k) \/ Holds(t, k)
                  /\ Ends(s \o t, k, v) => Ends(t, k, v) \/ Ends(s, k, v)
    BY <1>1, <1>2, JoinHolds
  <1>5. s \o t \in Seq(Lines)
    BY <1>1, <1>2, JoinIs
  <1>6. \A k \in Keys : Holds(s \o t, k) <=> Group(k) \in gs /\ (k \in Switches \/ desk[k] > 0)
    BY <1>1, <1>2, <1>4
  <1>7. \A k \in Keys : \A v : Ends(s \o t, k, v) => v = desk[k]
    BY <1>1, <1>2, <1>4
  <1> QED  BY <1>3, <1>5, <1>6, <1>7

LEMMA DumpIs ==
  ASSUME desk \in [Keys -> Values]
  PROVE  /\ TheDump \in Seq(Lines)
         /\ \A k \in Keys : Holds(TheDump, k) <=> (k \in Switches \/ desk[k] > 0)
         /\ \A k \in Keys : \A v : Ends(TheDump, k, v) => v = desk[k]
  <1> DEFINE s == Listed(Keys)
             t == <<StatusLine>>
  <1>1. /\ s \in Seq(Lines)
        /\ \A k \in Keys : Holds(s, k) <=> (k \in Switches \/ desk[k] > 0)
        /\ \A k \in Keys : \A v : Ends(s, k, v) => v = desk[k]
    BY ListedIs
  <1>2. t \in Seq(Lines) /\ \A k \in Keys : ~Holds(t, k) /\ \A v : ~Ends(t, k, v)
    BY StatusIs, OneIs, EmptyIs
  <1>3. TheDump = t \o s
    BY DEF TheDump
  <1> HIDE DEF s, t
  <1>4. \A k, v : /\ Holds(t \o s, k) <=> Holds(s, k) \/ Holds(t, k)
                  /\ Ends(t \o s, k, v) => Ends(t, k, v) \/ Ends(s, k, v)
    BY <1>1, <1>2, JoinHolds
  <1>5. t \o s \in Seq(Lines)
    BY <1>1, <1>2, JoinIs
  <1>6. \A k \in Keys : Holds(t \o s, k) <=> (k \in Switches \/ desk[k] > 0)
    BY <1>1, <1>2, <1>4
  <1>7. \A k \in Keys : \A v : Ends(t \o s, k, v) => v = desk[k]
    BY <1>1, <1>2, <1>4
  <1> QED  BY <1>3, <1>5, <1>6, <1>7

\* How many lines of a value are on their way.
LEMMA OnTheirWayIs ==
  ASSUME toApp \in Seq(Lines), NEW k
  PROVE  /\ OnTheirWay(k) \in Nat /\ (OnTheirWay(k) = 0 => ~OnWay(k))
         /\ OnTheirWay(k) <= 1 => Alone(toApp, k)
  <1> DEFINE S == {i \in DOMAIN toApp : toApp[i].of = k}
  <1>1. Len(toApp) \in Nat /\ DOMAIN toApp = 1 .. Len(toApp)
    OBVIOUS
  <1>2. IsFiniteSet(1 .. Len(toApp))
    BY <1>1, FS_Interval
  <1>3. S \in SUBSET (1 .. Len(toApp))
    BY <1>1
  <1>4. \A i : i \in S <=> i \in 1 .. Len(toApp) /\ toApp[i].of = k
    BY <1>1
  <1>5. OnTheirWay(k) = Cardinality(S)
    BY DEF OnTheirWay
  <1> HIDE DEF S
  <1>6. IsFiniteSet(S) /\ Cardinality(S) \in Nat
    BY <1>2, <1>3, FS_Subset, FS_CardinalityType
  <1>7. Cardinality(S) = 0 => S = {}
    BY <1>6, FS_EmptySet
  <1>8. Cardinality(S) = 1 => \E x : S = {x}
    BY <1>6, FS_Singleton
  <1>9. OnTheirWay(k) = 0 => ~OnWay(k)
    BY <1>4, <1>5, <1>7 DEF OnWay, Holds
  <1>10. OnTheirWay(k) <= 1 => Alone(toApp, k)
    BY <1>4, <1>5, <1>6, <1>7, <1>8 DEF Alone
  <1> QED  BY <1>5, <1>6, <1>9, <1>10

-----------------------------------------------------------------------------
\* The kinds, and what each step does.
LEMMA NoneIs ==
  /\ None \notin Nat /\ None \notin Sends /\ None \notin Requests /\ None \notin PullProgress
  /\ None \notin Edits /\ None \notin Flushes /\ None \notin Values
  BY NoneAssumption DEF Values

LEMMA AgeIs == \A age \in Nat \cup {None} :
  /\ Older(age) \in Nat \cup {None} /\ (Older(age) = None <=> age = None)
  /\ age # None => Older(age) = age + 1
  BY NoneIs DEF Older

LEMMA MarksAre == NoMarks \in Marks /\ NoReports \in [Keys -> Values \cup {None}]
  BY DEF NoMarks, Marks, NoReports

LEMMA UsesIs ==
  ASSUME TypeOK, NEW what \in {"edits", "turns", "pulls", "faults"}, Uses(what)
  PROVE  left' \in [{"edits", "turns", "pulls", "faults"} -> Nat]
  BY DEF TypeOK, Uses

LEMMA SyncType ==
  /\ Idle \in Syncs /\ Idle.at = "idle" /\ Idle.cause = None /\ ~Idle.complete
  /\ \A s \in Syncs, at \in {"idle", "loading", "begun", "waiting", "ended", "flushed"} :
        /\ [s EXCEPT !.at = at] \in Syncs /\ [s EXCEPT !.at = at].at = at
        /\ [s EXCEPT !.at = at].cause = s.cause /\ [s EXCEPT !.at = at].complete = s.complete
        /\ [s EXCEPT !.at = at].seen = s.seen
  BY DEF Idle, Syncs

\* What a mishap does to the doubts.
LEMMA HitIs ==
  ASSUME NEW mishap \in Mishaps, NEW ks \in SUBSET Keys
  PROVE  Hit(mishap, ks) \in SUBSET Keys /\ (Excused = Mishaps => Hit(mishap, ks) = ks)
  BY DEF Hit

LEMMA BefallsIs ==
  ASSUME TypeOK, NEW ks \in SUBSET Keys, Befalls(ks)
  PROVE  /\ doubted' \subseteq Keys /\ anew' \subseteq Keys
         /\ doubted' = doubted \cup ks /\ anew' = IF Reads THEN anew \cup ks ELSE {}
  BY DEF Befalls, TypeOK

LEMMA HitsAre ==
  ASSUME TypeOK
  PROVE  /\ \A line \in Lines : ReadLate(line) \in SUBSET Keys
         /\ MissedOff \in SUBSET Keys /\ ExpiresInPull \in SUBSET Keys
         /\ \A k \in Keys : CrossedTwice(k) \in SUBSET Keys /\ Tied(k) \in SUBSET Keys
         /\ LostInPull \in SUBSET Keys /\ Unread \in SUBSET Keys
  <1>1. \A line \in Lines : ReadLate(line) \in SUBSET Keys
    BY DEF ReadLate, Hit, Keys
  <1>2. MissedOff \in SUBSET Keys
    <2>1. Seen \in SUBSET Faders
      BY DEF Seen, TypeOK, PullProgress, Syncs
    <2>2. Seen \in SUBSET Keys
      BY <2>1 DEF Keys
    <2> QED  BY <2>2 DEF MissedOff, Hit
  <1>3. ExpiresInPull \in SUBSET Keys
    BY DEF ExpiresInPull, Hit
  <1>4. \A k \in Keys : CrossedTwice(k) \in SUBSET Keys /\ Tied(k) \in SUBSET Keys
    BY DEF CrossedTwice, Tied, Hit
  <1>5. LostInPull \in SUBSET Keys /\ Unread \in SUBSET Keys
    BY DEF LostInPull, Unread, Hit, Keys
  <1> QED  BY <1>1, <1>2, <1>3, <1>4, <1>5

LEMMA InitType == Init => TypeOK
  <1> SUFFICES ASSUME Init PROVE TypeOK
    OBVIOUS
  <1>1. left \in [{"edits", "turns", "pulls", "faults"} -> Nat]
    BY ConsoleAssumption DEF Init
  <1>2. toApp \in Seq(Lines)
    BY DEF Init
  <1>3. /\ desk \in [Keys -> Values] /\ app \in [Keys -> Values] /\ hidden \subseteq Keys
        /\ pending \in [Keys -> Sends \cup {None}] /\ outstanding \in [Groups -> Requests \cup {None}]
        /\ queued \in [Keys -> Values \cup {None}] /\ marks \in Marks
    BY MarksAre DEF Init
  <1>4. /\ touch \in {"in", "out", "back", "again"} /\ pull \in PullProgress \cup {None}
        /\ confidence \in {"aligned", "assumed", "unknown"}
        /\ editing \in Edits \cup {None} /\ flushing \in Flushes \cup {None}
        /\ behind \in Nat /\ doubted \subseteq Keys /\ anew \subseteq Keys
    BY DEF Init
  <1>5. sync = Idle
    BY DEF Init
  <1> QED  BY <1>1, <1>2, <1>3, <1>4, <1>5, SyncType DEF TypeOK

LEMMA DeskType ==
  ASSUME TypeOK, DeskStep
  PROVE  TypeOK'
  <1>1. CASE \E k \in Keys, v \in Values : DeskTurns(k, v)
    <2>1. PICK k \in Keys, v \in Values : DeskTurns(k, v)
      BY <1>1
    <2>2. [of |-> k, value |-> v] \in Lines
      BY DEF Lines
    <2>3. toApp' \in Seq(Lines)
      <3>1. toApp \in Seq(Lines)
        BY DEF TypeOK, Lines
      <3>2. toApp' = toApp \/ toApp' = Append(toApp, [of |-> k, value |-> v])
        BY <2>1 DEF DeskTurns
      <3>3. Append(toApp, [of |-> k, value |-> v]) \in Seq(Lines)
        BY <2>2, <3>1
      <3> QED  BY <3>1, <3>2, <3>3 DEF Lines
    <2>4. desk' \in [Keys -> Values]
      BY <2>1 DEF DeskTurns, TypeOK
    <2>5. left' \in [{"edits", "turns", "pulls", "faults"} -> Nat]
      BY <2>1, UsesIs DEF DeskTurns
    <2>6. UNCHANGED <<hidden, touch, link, saved, editing, flushing, sync, behind, doubts>>
      BY <2>1 DEF DeskTurns
    <2> QED  BY <2>3, <2>4, <2>5, <2>6 DEF TypeOK, link, saved, doubts
  <1>2. CASE \E k \in Keys : DeskHides(k)
    BY <1>2, UsesIs DEF DeskHides, TypeOK, link, saved, doubts
  <1>3. CASE DeskLosesInterface
    <2>1. <<GoneLine, StatusLine>> \in Seq(Lines)
      BY StatusIs
    <2>2. toApp' \in Seq(Lines)
      BY <1>3, <2>1, JoinIs DEF DeskLosesInterface, TypeOK, Lines
    <2> QED  BY <1>3, <2>2, UsesIs DEF DeskLosesInterface, TypeOK, link, saved, doubts, Lines
  <1>4. CASE DeskGoesOut
    BY <1>4, UsesIs DEF DeskGoesOut, TypeOK, link, saved, doubts
  <1>5. CASE DeskComesBack
    <2>1. toApp' \in Seq(Lines)
      BY <1>5, DumpIs, JoinIs DEF DeskComesBack, TypeOK, Lines
    <2> QED  BY <1>5, <2>1 DEF DeskComesBack, TypeOK, link, saved, doubts, Lines
  <1> QED  BY <1>1, <1>2, <1>3, <1>4, <1>5 DEF DeskStep

LEMMA RepliedIs ==
  ASSUME NEW r \in Requests \cup {None}
  PROVE  /\ Replied(r) \in Requests \cup {None} /\ (Replied(r) = None <=> r = None)
         /\ r # None => Replied(r).asked = r.asked /\ Replied(r).last = 0
  BY NoneIs DEF Replied, Requests

\* What a line of a value does to the link.
LEMMA ValueIs ==
  ASSUME TypeOK, NEW k \in Keys, NEW v \in Values, IngestValue(k, v)
  PROVE  /\ outstanding' \in [Groups -> Requests \cup {None}]
         /\ pending' \in [Keys -> Sends \cup {None}] /\ queued' \in [Keys -> Values \cup {None}]
         /\ \A g \in Groups : /\ outstanding'[g] = None <=> outstanding[g] = None
                              /\ outstanding[g] # None => outstanding'[g].asked = outstanding[g].asked
         /\ \A j \in Keys \ {k} : pending'[j] = pending[j] /\ queued'[j] = queued[j]
         /\ \/ /\ pending'[k] = None /\ queued'[k] = v
               /\ pending[k] = None \/ pending[k].value = v \/ Answers(k)
            \/ /\ pending[k] # None /\ pending[k].value # v /\ ~Answers(k)
               /\ pending' = pending /\ queued' = queued
  <1>1. Group(k) \in Groups /\ outstanding \in [Groups -> Requests \cup {None}]
    BY KeysAre DEF TypeOK
  <1>2. outstanding' = [outstanding EXCEPT ![Group(k)] = Replied(outstanding[Group(k)])]
    BY DEF IngestValue
  <1>3. \/ /\ pending'[k] = None /\ queued' = [queued EXCEPT ![k] = v]
           /\ pending' = [pending EXCEPT ![k] = None]
           /\ pending[k] = None \/ pending[k].value = v \/ Answers(k)
        \/ /\ pending[k] # None /\ pending[k].value # v /\ ~Answers(k)
           /\ pending' = pending /\ queued' = queued
    <2>1. CASE pending[k] = None /\ Queues(k, v) /\ UNCHANGED pending
      BY <2>1 DEF Queues, TypeOK
    <2>2. CASE pending[k] # None /\ ValuesMatch(pending[k].value, v) /\ Confirms(k, v)
      BY <2>2 DEF Confirms, Settles, Queues, ValuesMatch, TypeOK
    <2>3. CASE /\ pending[k] # None /\ ~ValuesMatch(pending[k].value, v)
               /\ IF Answers(k) THEN Settles(k) /\ Queues(k, v)
                           ELSE UNCHANGED <<pending, queued>>
      BY <2>3 DEF Settles, Queues, ValuesMatch, TypeOK
    <2> QED  BY <2>1, <2>2, <2>3 DEF IngestValue
  <1>4. Replied(outstanding[Group(k)]) \in Requests \cup {None}
    BY <1>1, RepliedIs
  <1>5. outstanding' \in [Groups -> Requests \cup {None}]
    BY <1>1, <1>2, <1>4
  <1>6. ASSUME NEW g \in Groups
        PROVE  /\ outstanding'[g] = None <=> outstanding[g] = None
               /\ outstanding[g] # None => outstanding'[g].asked = outstanding[g].asked
    BY <1>1, <1>2, RepliedIs
  <1>7. pending' \in [Keys -> Sends \cup {None}] /\ queued' \in [Keys -> Values \cup {None}]
    BY <1>3 DEF TypeOK
  <1>8. \A j \in Keys \ {k} : pending'[j] = pending[j] /\ queued'[j] = queued[j]
    BY <1>3 DEF TypeOK
  <1>9. queued' = [queued EXCEPT ![k] = v] => queued'[k] = v
    BY DEF TypeOK
  <1> QED  BY <1>3, <1>5, <1>6, <1>7, <1>8, <1>9

LEMMA StatusLineIs ==
  ASSUME TypeOK, IngestStatus
  PROVE  /\ outstanding' \in [Groups -> Requests \cup {None}]
         /\ \A g \in Groups : /\ outstanding'[g] = None <=> outstanding[g] = None
                              /\ outstanding[g] # None => outstanding'[g].asked = outstanding[g].asked
         /\ pending' = pending /\ queued' = queued
  <1>1. Submix \in Groups /\ outstanding \in [Groups -> Requests \cup {None}]
    BY DEF TypeOK, Groups
  <1>2. Replied(outstanding[Submix]) \in Requests \cup {None}
    BY <1>1, RepliedIs
  <1>3. CASE outstanding' = outstanding
    BY <1>1, <1>3 DEF IngestStatus
  <1>4. CASE outstanding' = [outstanding EXCEPT ![Submix] = Replied(outstanding[Submix])]
    BY <1>1, <1>2, <1>4, RepliedIs DEF IngestStatus
  <1> QED  BY <1>3, <1>4 DEF IngestStatus

\* A line is read.
LEMMA IngestIs ==
  ASSUME TypeOK, Ingest
  PROVE  /\ toApp \in Seq(Lines) /\ toApp # <<>> /\ toApp' = Tail(toApp) /\ Head(toApp) \in Lines
         /\ TypeOK'
         /\ touch' = (IF touch = "back" THEN "again" ELSE touch)
         /\ touch = "back" => marks'.outOfTouch
         /\ marks # NoMarks => marks' # NoMarks
         /\ pull = None => pull' = None
         /\ pull # None => /\ pull' # None /\ pull'.last = 0 /\ pull'.started = pull.started
                           /\ pull'.seen = pull.seen \cup ({Head(toApp).of} \cap Faders)
         /\ UNCHANGED <<desk, hidden, saved, editing, flushing, sync, behind, left>>
         /\ \/ Head(toApp).of = Status /\ IngestStatus
            \/ Head(toApp).of \in Keys /\ IngestValue(Head(toApp).of, Head(toApp).value)
         /\ Befalls(ReadLate(Head(toApp)) \cup MissedOff)
  <1> DEFINE line == Head(toApp)
  <1>1. /\ toApp \in Seq(Lines) /\ toApp # <<>> /\ toApp' = Tail(toApp)
        /\ UNCHANGED <<desk, hidden, saved, editing, flushing, sync, behind, left>>
    BY DEF Ingest, TypeOK, Lines
  <1>2. line \in Lines /\ toApp' \in Seq(Lines)
    BY <1>1, TailIs
  <1>3. \/ line.of = Status /\ IngestStatus
        \/ line.of \in Keys /\ IngestValue(line.of, line.value)
    BY <1>2 DEF Ingest, Lines
  <1>4. line.value \in Values
    BY <1>2 DEF Lines
  <1>5. marks' = [marks EXCEPT !.outOfTouch = marks.outOfTouch \/ touch = "back",
                               !.gone = marks.gone \/ line = GoneLine]
    BY DEF Ingest
  <1>6. pull' = IF pull = None THEN None
                ELSE [pull EXCEPT !.last = 0, !.seen = pull.seen \cup ({line.of} \cap Faders)]
    BY DEF Ingest
  <1>7. touch' = (IF touch = "back" THEN "again" ELSE touch)
    BY DEF Ingest
  <1>8. Befalls(ReadLate(line) \cup MissedOff)
    BY DEF Ingest
  <1>14. ReadLate(line) \cup MissedOff \in SUBSET Keys
    BY <1>2, HitsAre
  <1>15. doubted' \subseteq Keys /\ anew' \subseteq Keys
    BY <1>8, <1>14, BefallsIs
  <1> HIDE DEF line
  <1>9. marks \in Marks /\ pull \in PullProgress \cup {None}
    BY DEF TypeOK
  <1>10. /\ marks' \in Marks /\ (touch = "back" => marks'.outOfTouch)
         /\ marks # NoMarks => marks' # NoMarks
    BY <1>5, <1>9 DEF Marks, NoMarks
  <1>11. /\ pull' \in PullProgress \cup {None} /\ (pull = None => pull' = None)
         /\ pull # None => /\ pull' # None /\ pull'.last = 0 /\ pull'.started = pull.started
                           /\ pull'.seen = pull.seen \cup ({line.of} \cap Faders)
    <2>1. CASE pull = None
      BY <1>6, <2>1
    <2>2. CASE pull # None
      <3>1. pull.started \in Nat /\ pull.seen \in SUBSET Faders /\ pull \in PullProgress
        BY <1>9, <2>2 DEF PullProgress
      <3>2. pull' = [started |-> pull.started, last |-> 0, seen |-> pull.seen \cup ({line.of} \cap Faders)]
        BY <1>6, <2>2, <3>1 DEF PullProgress
      <3>3. pull' \in PullProgress
        BY <3>1, <3>2 DEF PullProgress
      <3> QED  BY <2>2, <3>2, <3>3, NoneIs
    <2> QED  BY <2>1, <2>2
  <1>12. /\ outstanding' \in [Groups -> Requests \cup {None}]
         /\ pending' \in [Keys -> Sends \cup {None}] /\ queued' \in [Keys -> Values \cup {None}]
    <2>1. CASE line.of = Status /\ IngestStatus
      BY <2>1, StatusLineIs DEF TypeOK
    <2>2. CASE line.of \in Keys /\ IngestValue(line.of, line.value)
      BY <1>4, <2>2, ValueIs
    <2> QED  BY <1>3, <2>1, <2>2
  <1>13. TypeOK'
    BY <1>1, <1>2, <1>7, <1>10, <1>11, <1>12, <1>15 DEF TypeOK, saved, Lines
  <1> QED  BY <1>1, <1>2, <1>3, <1>7, <1>8, <1>10, <1>11, <1>13 DEF line

\* The link's clock moves.
LEMMA TickIs ==
  ASSUME TypeOK, Tick
  PROVE  /\ TypeOK' /\ behind \in Nat /\ behind' = behind + 1
         /\ \A k \in Keys : pending'[k] = None <=> pending[k] = None
         /\ \A k \in Keys : pending[k] # None =>
               /\ pending'[k].value = pending[k].value /\ pending'[k].sent = pending[k].sent + 1
               /\ pending[k].sent \in Nat
               /\ pending'[k].asked = None <=> pending[k].asked = None
               /\ pending[k].asked # None => /\ pending[k].asked \in Nat
                                             /\ pending'[k].asked = pending[k].asked + 1
         /\ \A g \in Groups : outstanding'[g] = None <=> outstanding[g] = None
         /\ \A g \in Groups : outstanding[g] # None =>
               /\ outstanding[g].asked \in Nat /\ outstanding'[g].asked = outstanding[g].asked + 1
         /\ pull' = None <=> pull = None
         /\ pull # None => /\ pull.started \in Nat /\ pull'.started = pull.started + 1
                           /\ pull'.seen = pull.seen
                           /\ pull'.last = None <=> pull.last = None
         /\ UNCHANGED <<desk, hidden, touch, toApp, queued, marks, saved, editing, flushing, sync,
                        doubts, left>>
  <1>1. /\ \A k \in Keys : pending'[k] = None <=> pending[k] = None
        /\ \A k \in Keys : pending[k] # None =>
               /\ pending'[k].value = pending[k].value /\ pending'[k].sent = pending[k].sent + 1
               /\ pending[k].sent \in Nat
               /\ pending'[k].asked = None <=> pending[k].asked = None
               /\ pending[k].asked # None => /\ pending[k].asked \in Nat
                                             /\ pending'[k].asked = pending[k].asked + 1
        /\ pending' \in [Keys -> Sends \cup {None}]
    <2>1. pending' = [k \in Keys |-> IF pending[k] = None THEN None ELSE
           [pending[k] EXCEPT !.sent = Older(pending[k].sent), !.asked = Older(pending[k].asked)]]
      BY DEF Tick
    <2>2. ASSUME NEW k \in Keys, pending[k] # None
          PROVE  /\ pending'[k] \in Sends /\ pending'[k].value = pending[k].value
                 /\ pending'[k].sent = pending[k].sent + 1
                 /\ pending[k].sent \in Nat
                 /\ pending'[k].asked = None <=> pending[k].asked = None
                 /\ pending[k].asked # None => /\ pending[k].asked \in Nat
                                               /\ pending'[k].asked = pending[k].asked + 1
      <3>1. pending[k] \in Sends
        BY <2>2 DEF TypeOK
      <3>2. /\ pending[k].value \in Values /\ pending[k].sent \in Nat
            /\ pending[k].asked \in Nat \cup {None}
        BY <3>1 DEF Sends
      <3>3. pending'[k] = [value |-> pending[k].value, sent |-> Older(pending[k].sent),
                           asked |-> Older(pending[k].asked)]
        BY <2>1, <2>2, <3>1 DEF Sends
      <3>4. /\ Older(pending[k].sent) = pending[k].sent + 1
            /\ Older(pending[k].asked) \in Nat \cup {None}
            /\ Older(pending[k].asked) = None <=> pending[k].asked = None
            /\ pending[k].asked # None => Older(pending[k].asked) = pending[k].asked + 1
        BY <3>2, AgeIs, NoneIs
      <3>5. pending'[k] \in Sends
        BY <3>2, <3>3, <3>4 DEF Sends
      <3> QED  BY <3>2, <3>3, <3>4, <3>5
    <2>3. ASSUME NEW k \in Keys, pending[k] = None PROVE pending'[k] = None
      BY <2>1, <2>3
    <2>4. pending' \in [Keys -> Sends \cup {None}]
      <3>1. \A k \in Keys : pending'[k] \in Sends \cup {None}
        BY <2>2, <2>3
      <3> QED  BY <2>1, <3>1
    <2> QED  BY <2>2, <2>3, <2>4, NoneIs
  <1>2. /\ \A g \in Groups : outstanding'[g] = None <=> outstanding[g] = None
        /\ \A g \in Groups : outstanding[g] # None =>
               /\ outstanding[g].asked \in Nat /\ outstanding'[g].asked = outstanding[g].asked + 1
        /\ outstanding' \in [Groups -> Requests \cup {None}]
    <2>1. outstanding' = [g \in Groups |-> IF outstanding[g] = None THEN None ELSE
           [asked |-> Older(outstanding[g].asked), last |-> Older(outstanding[g].last)]]
      BY DEF Tick
    <2>2. ASSUME NEW g \in Groups, outstanding[g] # None
          PROVE  /\ outstanding'[g] \in Requests
                 /\ outstanding[g].asked \in Nat /\ outstanding'[g].asked = outstanding[g].asked + 1
      <3>1. outstanding[g].asked \in Nat /\ outstanding[g].last \in Nat \cup {None}
        BY <2>2 DEF TypeOK, Requests
      <3>2. outstanding'[g] = [asked |-> Older(outstanding[g].asked), last |-> Older(outstanding[g].last)]
        BY <2>1, <2>2
      <3>3. /\ Older(outstanding[g].asked) = outstanding[g].asked + 1
            /\ Older(outstanding[g].last) \in Nat \cup {None}
        BY <3>1, AgeIs, NoneIs
      <3> QED  BY <3>1, <3>2, <3>3 DEF Requests
    <2>3. ASSUME NEW g \in Groups, outstanding[g] = None PROVE outstanding'[g] = None
      BY <2>1, <2>3
    <2>4. outstanding' \in [Groups -> Requests \cup {None}]
      <3>1. \A g \in Groups : outstanding'[g] \in Requests \cup {None}
        BY <2>2, <2>3
      <3> QED  BY <2>1, <3>1
    <2> QED  BY <2>2, <2>3, <2>4, NoneIs
  <1>3. /\ pull' \in PullProgress \cup {None} /\ (pull' = None <=> pull = None)
        /\ pull # None => /\ pull.started \in Nat /\ pull'.started = pull.started + 1
                          /\ pull'.seen = pull.seen
                          /\ pull'.last = None <=> pull.last = None
    <2>1. pull' = IF pull = None THEN None
                  ELSE [pull EXCEPT !.started = Older(pull.started), !.last = Older(pull.last)]
      BY DEF Tick
    <2>2. CASE pull = None
      BY <2>1, <2>2
    <2>3. CASE pull # None
      <3>1. pull \in PullProgress
        BY <2>3 DEF TypeOK
      <3>2. pull.started \in Nat /\ pull.last \in Nat \cup {None} /\ pull.seen \in SUBSET Faders
        BY <3>1 DEF PullProgress
      <3>3. pull' = [started |-> Older(pull.started), last |-> Older(pull.last), seen |-> pull.seen]
        BY <2>1, <2>3, <3>1 DEF PullProgress
      <3>4. /\ Older(pull.started) = pull.started + 1 /\ Older(pull.last) \in Nat \cup {None}
            /\ Older(pull.last) = None <=> pull.last = None
        BY <3>2, AgeIs, NoneIs
      <3>5. pull' \in PullProgress
        BY <3>2, <3>3, <3>4 DEF PullProgress
      <3> QED  BY <2>3, <3>2, <3>3, <3>4, <3>5, NoneIs
    <2> QED  BY <2>2, <2>3
  <1>5. /\ behind \in Nat /\ behind' = behind + 1
        /\ UNCHANGED <<desk, hidden, touch, toApp, queued, marks, saved, editing, flushing, sync,
                       doubts, left>>
    BY DEF Tick, TypeOK
  <1>6. TypeOK'
    BY <1>1, <1>2, <1>3, <1>5 DEF TypeOK, saved, doubts
  <1> QED  BY <1>1, <1>2, <1>3, <1>5, <1>6

\* A pass: what was answered by absence, what expired, and what is asked.
LEMMA ServiceIs ==
  ASSUME TypeOK, Service
  PROVE  /\ TypeOK' /\ toApp = <<>> /\ toApp \in Seq(Lines)
         /\ \A k \in Keys :
               \/ ConfirmedByAbsence(k) /\ pending'[k] = None /\ queued'[k] = 0
               \/ ~ConfirmedByAbsence(k) /\ Expires(k) /\ pending'[k] = None /\ queued'[k] = queued[k]
               \/ /\ DueReadback(k) /\ queued'[k] = queued[k]
                  /\ pending'[k] # None /\ pending'[k].asked = 0
                  /\ pending'[k].value = pending[k].value /\ pending'[k].sent = pending[k].sent
                  /\ outstanding'[Group(k)] # None /\ outstanding'[Group(k)].asked = 0
               \/ ~DueReadback(k) /\ pending'[k] = pending[k] /\ queued'[k] = queued[k]
         /\ \A g \in Groups : outstanding'[g] # None =>
               \/ /\ g \in {Group(k) : k \in {k \in Keys : DueReadback(k)}}
                  /\ outstanding'[g].asked = 0
               \/ /\ g \notin {Group(k) : k \in {k \in Keys : DueReadback(k)}}
                  /\ outstanding'[g] = outstanding[g]
         /\ \E s \in Seq(Lines) :
               /\ toApp' = IF Hears THEN s ELSE <<>>
               /\ \A k \in Keys : /\ (Group(k) \in {Group(j) : j \in {j \in Keys : DueReadback(j)}}
                                     /\ (k \in Switches \/ desk[k] > 0)) <=> Holds(s, k)
                                  /\ \A v : Ends(s, k, v) => v = desk[k]
         /\ (\E k \in Keys : Expires(k)) => marks' # NoMarks
         /\ marks # NoMarks => marks' # NoMarks
         /\ behind' = 0 /\ Befalls(ExpiresInPull)
         /\ UNCHANGED <<desk, hidden, touch, pull, saved, editing, flushing, sync, left>>
  <1> DEFINE asks == {Group(k) : k \in {k \in Keys : DueReadback(k)}}
  <1>1. pending' = [k \in Keys |->
              IF ConfirmedByAbsence(k) \/ Expires(k) THEN None
              ELSE IF DueReadback(k) THEN [pending[k] EXCEPT !.asked = 0] ELSE pending[k]]
    BY DEF Service
  <1>2. outstanding' = [g \in Groups |->
              IF g \in asks THEN [asked |-> 0, last |-> None]
              ELSE IF outstanding[g] = None \/ Quiet(g) THEN None
              ELSE IF outstanding[g].asked >= ConfirmTimeout THEN None ELSE outstanding[g]]
    BY DEF Service
  <1>3. toApp' = IF Hears THEN toApp \o AnswersOf(asks) ELSE toApp
    BY DEF Service, DeskAnswers
  <1>4. /\ queued' = [k \in Keys |-> IF ConfirmedByAbsence(k) THEN 0 ELSE queued[k]]
        /\ marks' = [marks EXCEPT !.expired = marks.expired \/ \E k \in Keys : Expires(k)]
        /\ toApp = <<>> /\ behind' = 0 /\ Befalls(ExpiresInPull)
        /\ UNCHANGED <<desk, hidden, touch, pull, saved, editing, flushing, sync, left>>
    BY DEF Service
  <1>5. asks \in SUBSET Groups
    BY KeysAre
  <1>6. \A k \in Keys : DueReadback(k) => Group(k) \in asks
    OBVIOUS
  <1> HIDE DEF asks
  <1>7. desk \in [Keys -> Values] /\ toApp \in Seq(Lines)
    BY DEF TypeOK, Lines
  <1>8. /\ AnswersOf(asks) \in Seq(Lines)
        /\ \A k \in Keys : Holds(AnswersOf(asks), k) <=> Group(k) \in asks /\ (k \in Switches \/ desk[k] > 0)
        /\ \A k \in Keys : \A v : Ends(AnswersOf(asks), k, v) => v = desk[k]
    BY <1>5, <1>7, AnswersAre
  <1>9. toApp \o AnswersOf(asks) = AnswersOf(asks)
    BY <1>4, <1>8
  <1>10. toApp' \in Seq(Lines) /\ toApp' = IF Hears THEN AnswersOf(asks) ELSE <<>>
    BY <1>3, <1>4, <1>8, <1>9
  <1>11. ASSUME NEW k \in Keys, pending[k] # None
         PROVE  /\ [pending[k] EXCEPT !.asked = 0] \in Sends
                /\ [pending[k] EXCEPT !.asked = 0].asked = 0
                /\ [pending[k] EXCEPT !.asked = 0].value = pending[k].value
                /\ [pending[k] EXCEPT !.asked = 0].sent = pending[k].sent
                /\ [pending[k] EXCEPT !.asked = 0] # None
    <2>1. pending[k] \in Sends
      BY <1>11 DEF TypeOK
    <2>2. [pending[k] EXCEPT !.asked = 0] \in Sends
      BY <2>1 DEF Sends
    <2> QED  BY <2>1, <2>2, NoneIs DEF Sends
  <1>12. ASSUME NEW k \in Keys
         PROVE  /\ pending'[k] \in Sends \cup {None}
                /\ queued'[k] \in Values \cup {None}
                /\ \/ ConfirmedByAbsence(k) /\ pending'[k] = None /\ queued'[k] = 0
                   \/ ~ConfirmedByAbsence(k) /\ Expires(k) /\ pending'[k] = None /\ queued'[k] = queued[k]
                   \/ /\ DueReadback(k) /\ queued'[k] = queued[k]
                      /\ pending'[k] # None /\ pending'[k].asked = 0
                      /\ pending'[k].value = pending[k].value /\ pending'[k].sent = pending[k].sent
                      /\ outstanding'[Group(k)] # None /\ outstanding'[Group(k)].asked = 0
                   \/ ~DueReadback(k) /\ pending'[k] = pending[k] /\ queued'[k] = queued[k]
    <2>1. queued[k] \in Values \cup {None} /\ 0 \in Values /\ pending[k] \in Sends \cup {None}
      BY KeysAre DEF TypeOK
    <2>2. CASE ConfirmedByAbsence(k)
      BY <1>1, <1>4, <2>1, <2>2
    <2>3. CASE ~ConfirmedByAbsence(k) /\ Expires(k)
      BY <1>1, <1>4, <2>1, <2>3
    <2>4. CASE ~ConfirmedByAbsence(k) /\ ~Expires(k) /\ DueReadback(k)
      <3>1. pending[k] # None
        BY <2>4 DEF DueReadback
      <3>2. pending'[k] = [pending[k] EXCEPT !.asked = 0] /\ queued'[k] = queued[k]
        BY <1>1, <1>4, <2>4
      <3>3. Group(k) \in asks /\ Group(k) \in Groups
        BY <1>6, <2>4, KeysAre
      <3>4. outstanding'[Group(k)] = [asked |-> 0, last |-> None]
        BY <1>2, <3>3
      <3>5. [asked |-> 0, last |-> None] \in Requests
        BY DEF Requests
      <3>6. outstanding'[Group(k)] # None /\ outstanding'[Group(k)].asked = 0
        BY <3>4, <3>5, NoneIs
      <3> QED  BY <1>11, <2>1, <2>4, <3>1, <3>2, <3>6
    <2>5. CASE ~ConfirmedByAbsence(k) /\ ~Expires(k) /\ ~DueReadback(k)
      BY <1>1, <1>4, <2>1, <2>5
    <2> QED  BY <2>2, <2>3, <2>4, <2>5
  <1>13. ASSUME NEW g \in Groups
         PROVE  /\ outstanding'[g] \in Requests \cup {None}
                /\ outstanding'[g] # None =>
                      \/ g \in asks /\ outstanding'[g].asked = 0
                      \/ g \notin asks /\ outstanding'[g] = outstanding[g]
    <2>1. outstanding[g] \in Requests \cup {None} /\ [asked |-> 0, last |-> None] \in Requests
      BY DEF TypeOK, Requests
    <2>2. CASE g \in asks
      BY <1>2, <2>1, <2>2
    <2>3. CASE g \notin asks
      BY <1>2, <2>1, <2>3
    <2> QED  BY <2>2, <2>3
  <1>14. /\ marks' \in Marks /\ ((\E k \in Keys : Expires(k)) => marks' # NoMarks)
         /\ marks # NoMarks => marks' # NoMarks
    <2>1. marks \in Marks
      BY DEF TypeOK
    <2> DEFINE e == \E k \in Keys : Expires(k)
    <2>2. marks' = [marks EXCEPT !.expired = marks.expired \/ e] /\ e \in BOOLEAN
      BY <1>4
    <2> HIDE DEF e
    <2>3. marks' \in Marks /\ (e => marks' # NoMarks) /\ (marks # NoMarks => marks' # NoMarks)
      BY <2>1, <2>2 DEF Marks, NoMarks
    <2> QED  BY <2>3 DEF e
  <1>15. /\ pending' \in [Keys -> Sends \cup {None}] /\ queued' \in [Keys -> Values \cup {None}]
         /\ outstanding' \in [Groups -> Requests \cup {None}]
    BY <1>1, <1>2, <1>4, <1>12, <1>13
  <1>18. doubted' \subseteq Keys /\ anew' \subseteq Keys
    BY <1>4, HitsAre, BefallsIs
  <1>16. TypeOK'
    BY <1>4, <1>10, <1>14, <1>15, <1>18 DEF TypeOK, saved, Lines
  <1>17. \E s \in Seq(Lines) :
               /\ toApp' = IF Hears THEN s ELSE <<>>
               /\ \A k \in Keys : /\ (Group(k) \in asks
                                     /\ (k \in Switches \/ desk[k] > 0)) <=> Holds(s, k)
                                  /\ \A v : Ends(s, k, v) => v = desk[k]
    BY <1>8, <1>10
  <1> QED  BY <1>4, <1>7, <1>12, <1>13, <1>14, <1>16, <1>17 DEF asks

LEMMA DeskTakesIs ==
  ASSUME TypeOK, NEW k \in Keys, NEW v \in Values, DeskTakes(k, v)
  PROVE  /\ desk' \in [Keys -> Values]
         /\ \A j \in Keys \ {k} : desk'[j] = desk[j]
         /\ desk'[k] = IF Hears /\ k \notin hidden THEN v ELSE desk[k]
  BY DEF DeskTakes, TypeOK

\* An edit goes out, and is registered.
LEMMA EditSendsIs ==
  ASSUME TypeOK, NEW k \in Keys, NEW v \in Values, EditSends(k, v)
  PROVE  /\ TypeOK' /\ editing' # None /\ editing'.of = k /\ editing'.value = v /\ LockFree
         /\ UNCHANGED <<hidden, touch, toApp, link, saved, flushing, sync, behind>>
         /\ desk' \in [Keys -> Values]
         /\ \A j \in Keys \ {k} : desk'[j] = desk[j]
         /\ desk'[k] = IF Hears /\ k \notin hidden THEN v ELSE desk[k]
         /\ Befalls(CrossedTwice(k)) /\ CrossedTwice(k) \subseteq {k}
         /\ Excused = Mishaps /\ k \notin CrossedTwice(k) =>
               Alone(toApp, k) /\ (k \in hidden => ~OnWay(k))
  <1>1. /\ editing' = [of |-> k, value |-> v] /\ DeskTakes(k, v) /\ LockFree
        /\ UNCHANGED <<hidden, touch, toApp, link, saved, flushing, sync, behind>>
        /\ Befalls(CrossedTwice(k))
    BY DEF EditSends
  <1>2. [of |-> k, value |-> v] \in Edits
    BY DEF Edits
  <1>3. left' \in [{"edits", "turns", "pulls", "faults"} -> Nat]
    BY UsesIs DEF EditSends
  <1>4. /\ desk' \in [Keys -> Values]
        /\ \A j \in Keys \ {k} : desk'[j] = desk[j]
        /\ desk'[k] = IF Hears /\ k \notin hidden THEN v ELSE desk[k]
    BY <1>1, DeskTakesIs
  <1>8. doubted' \subseteq Keys /\ anew' \subseteq Keys
    BY <1>1, HitsAre, BefallsIs
  <1>5. TypeOK'
    BY <1>1, <1>2, <1>3, <1>4, <1>8 DEF TypeOK, link, saved
  <1>6. Excused = Mishaps /\ k \notin CrossedTwice(k) => Alone(toApp, k) /\ (k \in hidden => ~OnWay(k))
    <2> SUFFICES ASSUME Excused = Mishaps, k \notin CrossedTwice(k)
                 PROVE  Alone(toApp, k) /\ (k \in hidden => ~OnWay(k))
      OBVIOUS
    <2>1. ~(OnTheirWay(k) > 1 \/ (OnTheirWay(k) = 1 /\ k \in hidden))
      BY DEF CrossedTwice, Hit, Mishaps
    <2>2. toApp \in Seq(Lines)
      BY DEF TypeOK, Lines
    <2>3. OnTheirWay(k) \in Nat
      BY <2>2, OnTheirWayIs
    <2>4. OnTheirWay(k) <= 1 /\ (k \in hidden => OnTheirWay(k) = 0)
      BY <2>1, <2>3
    <2> QED  BY <2>2, <2>4, OnTheirWayIs
  <1>9. CrossedTwice(k) \subseteq {k}
    BY DEF CrossedTwice, Hit
  <1>7. editing' # None /\ editing'.of = k /\ editing'.value = v
    BY <1>1, <1>2, NoneIs
  <1> QED  BY <1>1, <1>4, <1>5, <1>6, <1>7, <1>9

LEMMA EditEndsIs ==
  ASSUME TypeOK, EditEnds
  PROVE  /\ TypeOK' /\ editing # None /\ editing.of \in Keys /\ editing.value \in Values
         /\ editing' = None
         /\ \A j \in Keys \ {editing.of} : pending'[j] = pending[j] /\ app'[j] = app[j]
         /\ pending'[editing.of] # None /\ pending'[editing.of].value = editing.value
         /\ pending'[editing.of].sent = 0 /\ pending'[editing.of].asked = None
         /\ UNCHANGED <<wires, outstanding, queued, pull, marks, confidence, flushing, sync, behind>>
         /\ Befalls(Tied(editing.of)) /\ Tied(editing.of) \subseteq {editing.of}
         /\ Excused = Mishaps /\ editing.of \notin Tied(editing.of) =>
               ~OnWay(editing.of) \/ ~AskedByReadBack(outstanding'[Group(editing.of)], pending'[editing.of])
  <1> DEFINE e == editing.of
             x == [value |-> editing.value, sent |-> 0, asked |-> None]
  <1>1. /\ editing # None /\ pending' = [pending EXCEPT ![e] = x] /\ editing' = None
        /\ app' = [app EXCEPT ![e] = editing.value] \/ app' = app
        /\ UNCHANGED <<wires, outstanding, queued, pull, marks, confidence, flushing, sync, behind>>
        /\ Befalls(Tied(e))
    BY DEF EditEnds, Registers
  <1>2. e \in Keys /\ editing.value \in Values
    BY <1>1 DEF TypeOK, Edits
  <1>3. x \in Sends
    BY <1>2 DEF Sends
  <1>4. left' \in [{"edits", "turns", "pulls", "faults"} -> Nat]
    <2>1. CASE UNCHANGED left
      BY <2>1 DEF TypeOK
    <2>2. CASE Uses("faults")
      BY <2>2, UsesIs
    <2> QED  BY <2>1, <2>2 DEF EditEnds
  <1>5. x # None /\ x.value = editing.value /\ x.sent = 0 /\ x.asked = None
    BY <1>3, NoneIs
  <1> HIDE DEF e, x
  <1>6. /\ pending' \in [Keys -> Sends \cup {None}] /\ app' \in [Keys -> Values]
        /\ \A j \in Keys \ {e} : pending'[j] = pending[j] /\ app'[j] = app[j]
        /\ pending'[e] = x
    BY <1>1, <1>2, <1>3 DEF TypeOK
  <1>8. doubted' \subseteq Keys /\ anew' \subseteq Keys
    BY <1>1, <1>2, HitsAre, BefallsIs
  <1>7. TypeOK'
    BY <1>1, <1>4, <1>6, <1>8 DEF TypeOK, wires
  <1>9. Tied(e) \subseteq {e}
    BY DEF Tied, Hit
  <1>10. ASSUME Excused = Mishaps, e \notin Tied(e)
         PROVE  ~OnWay(e) \/ ~AskedByReadBack(outstanding'[Group(e)], pending'[e])
    <2>1. OnTheirWay(e) \in Nat /\ (OnTheirWay(e) = 0 => ~OnWay(e))
      BY OnTheirWayIs DEF TypeOK, Lines
    <2>2. outstanding'[Group(e)] = outstanding[Group(e)] /\ pending'[e].sent = 0
      BY <1>1, <1>5, <1>6
    <2>3. outstanding[Group(e)] # None => outstanding[Group(e)].asked \in Nat
      BY <1>2, KeysAre DEF TypeOK, Requests
    <2>4. ~(outstanding[Group(e)] # None /\ outstanding[Group(e)].asked = 0 /\ OnTheirWay(e) > 0)
      BY <1>10 DEF Tied, Hit, Mishaps
    <2> QED  BY <2>1, <2>2, <2>3, <2>4 DEF AskedByReadBack
  <1> QED  BY <1>1, <1>2, <1>5, <1>6, <1>7, <1>9, <1>10 DEF e

\* A flush takes the reports, and writes them or fails.
LEMMA TakesIs ==
  ASSUME TypeOK, NEW by \in {"metering", "pull"}, Takes(by)
  PROVE  /\ TypeOK' /\ flushing' # None /\ flushing'.by = by /\ flushing'.marks = marks
         /\ \A k \in Keys : flushing'.reports[k] = IF pending[k] = None THEN queued[k] ELSE None
         /\ queued' = NoReports /\ \A k \in Keys : queued'[k] = None
         /\ UNCHANGED <<wires, pending, outstanding, pull, saved, editing, sync, behind, doubts>>
  <1> DEFINE r == [k \in Keys |-> IF pending[k] = None THEN queued[k] ELSE None]
  <1>1. /\ flushing' = [by |-> by, marks |-> marks, reports |-> r]
        /\ queued' = NoReports /\ marks' = NoMarks
        /\ UNCHANGED <<wires, pending, outstanding, pull, saved, editing, sync, behind, doubts, left>>
    BY DEF Takes
  <1>2. r \in [Keys -> Values \cup {None}] /\ marks \in Marks
    BY DEF TypeOK
  <1>3. \A k \in Keys : r[k] = IF pending[k] = None THEN queued[k] ELSE None
    OBVIOUS
  <1> HIDE DEF r
  <1>4. flushing' \in Flushes
    BY <1>1, <1>2 DEF Flushes
  <1>5. TypeOK'
    BY <1>1, <1>4, MarksAre DEF TypeOK, wires, saved, doubts
  <1>6. \A k \in Keys : queued'[k] = None
    BY <1>1 DEF NoReports
  <1> QED  BY <1>1, <1>3, <1>4, <1>5, <1>6, NoneIs

LEMMA GoesOnIs ==
  ASSUME TypeOK, flushing # None, NEW written \in BOOLEAN, PullGoesOn(written)
  PROVE  /\ sync' \in Syncs
         /\ flushing.by \in {"metering", "pull"}
         /\ flushing.by = "metering" => sync' = sync
         /\ flushing.by = "pull" /\ written =>
               /\ sync'.at = "flushed" /\ sync'.cause = sync.cause
               /\ sync'.complete = sync.complete /\ sync'.seen = sync.seen
         /\ flushing.by = "pull" /\ ~written => sync' = Idle
  <1>1. flushing.by \in {"metering", "pull"}
    BY DEF TypeOK, Flushes
  <1>2. sync \in Syncs
    BY DEF TypeOK
  <1> QED  BY <1>1, <1>2, SyncType DEF PullGoesOn

LEMMA FlushWritesIs ==
  ASSUME TypeOK, FlushWrites
  PROVE  /\ TypeOK' /\ flushing # None /\ editing = None /\ flushing' = None /\ PullGoesOn(TRUE)
         /\ \A k \in Keys : app'[k] = IF flushing.reports[k] = None THEN app[k] ELSE flushing.reports[k]
         /\ confidence' = ConfidenceAfter(flushing.marks)
         /\ UNCHANGED <<wires, link, editing, behind, doubts, left>>
  <1>1. /\ flushing # None /\ editing = None /\ flushing' = None /\ PullGoesOn(TRUE)
        /\ app' = [k \in Keys |-> IF flushing.reports[k] = None THEN app[k] ELSE flushing.reports[k]]
        /\ confidence' = ConfidenceAfter(flushing.marks)
        /\ UNCHANGED <<wires, link, editing, behind, doubts, left>>
    BY DEF FlushWrites
  <1>2. flushing.reports \in [Keys -> Values \cup {None}]
    BY <1>1 DEF TypeOK, Flushes
  <1>3. app' \in [Keys -> Values]
    BY <1>1, <1>2 DEF TypeOK
  <1>4. confidence' \in {"aligned", "assumed", "unknown"}
    BY <1>1 DEF ConfidenceAfter, TypeOK
  <1>5. TypeOK'
    BY <1>1, <1>3, <1>4, GoesOnIs DEF TypeOK, wires, link, doubts
  <1> QED  BY <1>1, <1>5

LEMMA FlushFailsIs ==
  ASSUME TypeOK, FlushFails
  PROVE  /\ TypeOK' /\ flushing # None /\ editing = None /\ flushing' = None /\ PullGoesOn(FALSE)
         /\ marks' # NoMarks
         /\ flushing.by = "metering" => Befalls(LostInPull)
         /\ flushing.by = "pull" => doubted' = doubted /\ anew' = {}
         /\ UNCHANGED <<wires, pending, outstanding, queued, pull, saved, editing, behind>>
  <1>1. /\ flushing # None /\ editing = None /\ flushing' = None /\ PullGoesOn(FALSE)
        /\ marks' = [marks EXCEPT !.unread = TRUE]
        /\ IF flushing.by = "metering" THEN Befalls(LostInPull) ELSE doubted' = doubted /\ anew' = {}
        /\ UNCHANGED <<wires, pending, outstanding, queued, pull, saved, editing, behind>>
    BY DEF FlushFails, MarksAfterFailure
  <1>2. left' \in [{"edits", "turns", "pulls", "faults"} -> Nat]
    BY UsesIs DEF FlushFails
  <1>3. marks' \in Marks /\ marks' # NoMarks
    <2>1. marks \in Marks
      BY DEF TypeOK
    <2> QED  BY <1>1, <2>1 DEF Marks, NoMarks
  <1>5. doubted' \subseteq Keys /\ anew' \subseteq Keys
    <2>1. CASE Befalls(LostInPull)
      BY <2>1, HitsAre, BefallsIs
    <2>2. CASE doubted' = doubted /\ anew' = {}
      BY <2>2 DEF TypeOK
    <2> QED  BY <1>1, <2>1, <2>2
  <1>4. TypeOK'
    BY <1>1, <1>2, <1>3, <1>5, GoesOnIs DEF TypeOK, wires, saved
  <1> QED  BY <1>1, <1>3, <1>4

\* A Sync or a load goes on.
LEMMA PullType ==
  ASSUME TypeOK, Shape, Pull
  PROVE  TypeOK'
  <1>1. CASE LoadGoesOut
    <2>1. desk' \in [Keys -> Values]
      BY <1>1, KeysAre DEF LoadGoesOut, DeskLoads, TypeOK
    <2>2. sync' = [at |-> "loading", cause |-> Load, complete |-> FALSE, seen |-> {}] /\ sync' \in Syncs
      BY <1>1 DEF LoadGoesOut, Idle, Syncs
    <2>3. left' \in [{"edits", "turns", "pulls", "faults"} -> Nat]
      BY <1>1, UsesIs DEF LoadGoesOut
    <2> QED  BY <1>1, <2>1, <2>2, <2>3 DEF LoadGoesOut, TypeOK, link, saved, doubts
  <1>2. CASE PullBegins
    <2>1. pull' \in PullProgress
      BY <1>2 DEF PullBegins, PullProgress
    <2>2. /\ sync' \in Syncs
          /\ left' \in [{"edits", "turns", "pulls", "faults"} -> Nat]
      <3>1. CASE sync = Idle /\ Uses("pulls") /\ sync' = [Idle EXCEPT !.at = "begun", !.cause = Dump]
        BY <3>1, UsesIs DEF Idle, Syncs
      <3>2. CASE sync.at = "loading" /\ sync' = [sync EXCEPT !.at = "begun"] /\ UNCHANGED left
        BY <3>2, SyncType DEF TypeOK
      <3> QED  BY <1>2, <3>1, <3>2 DEF PullBegins
    <2>3. doubted' \subseteq Keys /\ anew' \subseteq Keys
      BY <1>2, HitsAre DEF PullBegins, TypeOK
    <2> QED  BY <1>2, <2>1, <2>2, <2>3 DEF PullBegins, TypeOK, wires, saved
  <1>3. CASE PullAsks
    <2>1. toApp' \in Seq(Lines)
      BY <1>3, DumpIs, JoinIs DEF PullAsks, DeskAnswers, TypeOK, Lines
    <2>2. sync' \in Syncs
      BY <1>3, SyncType DEF PullAsks, TypeOK
    <2> QED  BY <1>3, <2>1, <2>2 DEF PullAsks, TypeOK, link, saved, doubts, Lines
  <1>4. CASE PullEnds
    <2>1. pull \in PullProgress \cup {None} /\ Complete \in BOOLEAN
      BY DEF TypeOK, Complete
    <2>2. pull # None
      BY <1>4 DEF PullEnds, Shape, Pulls
    <2>3. sync' \in Syncs
      BY <1>4, <2>1, <2>2 DEF PullEnds, TypeOK, PullProgress, Syncs
    <2> QED  BY <1>4, <2>3 DEF PullEnds, TypeOK, wires, saved, doubts
  <1>5. CASE PullHasNothing
    BY <1>5, SyncType DEF PullHasNothing, TypeOK, wires, link, saved, doubts
  <1>6. CASE PullAligns
    <2>1. app' \in [Keys -> Values]
      BY <1>6, KeysAre DEF PullAligns, AbsentOff, TypeOK
    <2>2. doubted' \subseteq Keys /\ anew' \subseteq Keys
      BY <1>6 DEF PullAligns, TypeOK
    <2> QED  BY <1>6, <2>1, <2>2, SyncType DEF PullAligns, TypeOK, wires, link
  <1>7. CASE PullFails
    BY <1>7, SyncType DEF PullFails, TypeOK, wires, link
  <1>8. CASE PullUnwritten
    <2>1. left' \in [{"edits", "turns", "pulls", "faults"} -> Nat]
      BY <1>8, UsesIs DEF PullUnwritten
    <2>2. sync' = Idle /\ UNCHANGED <<wires, link, saved, editing, flushing, behind>>
      BY <1>8 DEF PullUnwritten
    <2>3. doubted' \subseteq Keys /\ anew' \subseteq Keys
      BY <1>8 DEF PullUnwritten, TypeOK, Hit
    <2> QED  BY <2>1, <2>2, <2>3, SyncType DEF TypeOK, wires, link, saved
  <1> QED  BY <1>1, <1>2, <1>3, <1>4, <1>5, <1>6, <1>7, <1>8 DEF Pull

LEMMA RestartType ==
  ASSUME TypeOK, Restart
  PROVE  TypeOK'
  <1>1. left' \in [{"edits", "turns", "pulls", "faults"} -> Nat]
    BY UsesIs DEF Restart
  <1>2. toApp' \in Seq(Lines)
    BY DEF Restart
  <1>3. /\ pending' \in [Keys -> Sends \cup {None}] /\ outstanding' \in [Groups -> Requests \cup {None}]
        /\ queued' \in [Keys -> Values \cup {None}] /\ marks' \in Marks
    BY MarksAre DEF Restart
  <1>4. confidence' \in {"aligned", "assumed", "unknown"}
    BY DEF Restart, ConfidenceAtStart, TypeOK
  <1>5. /\ pull' = None /\ editing' = None /\ flushing' = None /\ sync' = Idle
        /\ behind' = 0 /\ doubted' = {} /\ anew' = {}
        /\ touch' \in {"in", "out", "back", "again"}
        /\ UNCHANGED <<desk, hidden, app>>
    BY DEF Restart, TypeOK
  <1> QED  BY <1>1, <1>2, <1>3, <1>4, <1>5, SyncType DEF TypeOK
-----------------------------------------------------------------------------
\* Whatever happens: what a step leaves of the pull, the lock and the reports.
LEMMA NextType == TypeOK /\ Shape /\ [Next]_vars => TypeOK'
  <1> SUFFICES ASSUME TypeOK, Shape, [Next]_vars PROVE TypeOK'
    OBVIOUS
  <1>1. CASE DeskStep
    BY <1>1, DeskType
  <1>2. CASE Metering
    BY <1>2, IngestIs, ServiceIs, TickIs DEF Metering
  <1>3. CASE Edit
    BY <1>3, EditSendsIs, EditEndsIs DEF Edit
  <1>4. CASE Flush
    BY <1>4, TakesIs, FlushWritesIs, FlushFailsIs DEF Flush, FlushTakes
  <1>5. CASE Pull
    BY <1>5, PullType
  <1>6. CASE Restart
    BY <1>6, RestartType
  <1>7. CASE UNCHANGED vars
    BY <1>7 DEF vars, wires, link, saved, doubts, TypeOK
  <1> QED  BY <1>1, <1>2, <1>3, <1>4, <1>5, <1>6, <1>7 DEF Next

LEMMA TakesEither ==
  ASSUME FlushTakes
  PROVE  /\ LockFree
         /\ \/ Takes("metering")
            \/ Takes("pull") /\ sync.at = "ended"
  BY DEF FlushTakes, MayTake

LEMMA NextShape == TypeOK /\ Shape /\ [Next]_vars => Shape'
  <1> SUFFICES ASSUME TypeOK, Shape, [Next]_vars PROVE Shape'
    OBVIOUS
  <1>1. CASE \E k \in Keys, v \in Values : DeskTurns(k, v)
    <2>1. PICK k \in Keys, v \in Values : DeskTurns(k, v)
      BY <1>1
    <2>2. toApp' = toApp \/ toApp' # <<>>
      <3>1. toApp \in Seq(Lines) /\ [of |-> k, value |-> v] \in Lines
        BY DEF TypeOK, Lines
      <3> DEFINE x == [of |-> k, value |-> v]
      <3> HIDE DEF x
      <3>3. x \in Lines
        BY <3>1 DEF x
      <3>4. Len(Append(toApp, x)) = Len(toApp) + 1 /\ Len(toApp) \in Nat
        BY <3>1, <3>3
      <3>2. Append(toApp, x) # <<>>
        BY <3>4
      <3> QED  BY <2>1, <3>2 DEF DeskTurns, x
    <2>3. touch = "out" => toApp' = toApp
      BY <2>1 DEF DeskTurns
    <2> QED  BY <2>1, <2>2, <2>3 DEF DeskTurns, link, Shape, Pulls
  <1>2. CASE \E k \in Keys : DeskHides(k)
    BY <1>2 DEF DeskHides, link, Shape, Pulls
  <1>3. CASE DeskLosesInterface
    <2>1. toApp \o <<GoneLine, StatusLine>> # <<>>
      BY StatusIs, JoinIs DEF TypeOK, Lines
    <2> QED  BY <1>3, <2>1 DEF DeskLosesInterface, link, Shape, Pulls
  <1>4. CASE DeskGoesOut
    BY <1>4 DEF DeskGoesOut, link, Shape, Pulls
  <1>5. CASE DeskComesBack
    <2>1. toApp \in Seq(Lines) /\ TheDump \in Seq(Lines) /\ Len(TheDump) > 0
      <3>1. Listed(Keys) \in Seq(Lines) /\ <<StatusLine>> \in Seq(Lines)
        BY ListedIs, StatusIs DEF TypeOK
      <3> QED  BY <3>1, JoinIs DEF TypeOK, TheDump, Lines
    <2>2. toApp \o TheDump # <<>>
      <3> HIDE DEF TheDump
      <3> QED  BY <2>1, JoinIs
    <2> QED  BY <1>5, <2>2 DEF DeskComesBack, link, Shape, Pulls
  <1>6. CASE Ingest
    BY <1>6, IngestIs DEF Shape, Pulls
  <1>7. CASE Service
    BY <1>7, ServiceIs DEF Shape, Pulls, Hears
  <1>8. CASE Tick
    <2>1. pull # None => pull'.seen = pull.seen /\ (pull'.last = None <=> pull.last = None)
      BY <1>8, TickIs
    <2>2. /\ pull' = None <=> pull = None
          /\ UNCHANGED <<touch, toApp, editing, flushing, sync>>
      BY <1>8, TickIs
    <2> QED  BY <2>1, <2>2 DEF Shape, Pulls
  <1>9. CASE \E k \in Keys, v \in Values : EditSends(k, v)
    BY <1>9, EditSendsIs DEF Shape, Pulls, link, LockFree
  <1>10. CASE EditEnds
    BY <1>10, EditEndsIs DEF Shape, Pulls, wires
  <1>11. CASE FlushTakes
    <2>1. CASE Takes("metering")
      <3>1. flushing'.by = "metering" /\ LockFree /\ UNCHANGED <<wires, pull, editing, sync>>
        BY <1>11, <2>1, TakesIs, TakesEither
      <3> QED  BY <3>1 DEF Shape, Pulls, wires, LockFree
    <2>2. CASE Takes("pull") /\ sync.at = "ended"
      <3>1. LockFree /\ UNCHANGED <<wires, pull, editing, sync>>
        BY <1>11, <2>2, TakesIs, TakesEither
      <3> QED  BY <2>2, <3>1 DEF Shape, Pulls, wires, LockFree
    <2> QED  BY <1>11, <2>1, <2>2, TakesEither
  <1>12. CASE FlushWrites
    <2>1. flushing' = None /\ UNCHANGED <<wires, link, editing>> /\ flushing # None
      BY <1>12, FlushWritesIs
    <2>2. sync' = sync \/ (flushing.by = "pull" /\ sync'.at = "flushed")
      BY <1>12, FlushWritesIs, GoesOnIs
    <2>3. CASE sync' = sync
      BY <2>1, <2>3 DEF Shape, Pulls, wires, link
    <2>4. CASE flushing.by = "pull" /\ sync'.at = "flushed"
      BY <2>1, <2>4 DEF Shape, Pulls, wires, link
    <2> QED  BY <2>2, <2>3, <2>4
  <1>13. CASE FlushFails
    <2>1. flushing' = None /\ UNCHANGED <<wires, pull, editing>> /\ flushing # None
      BY <1>13, FlushFailsIs
    <2>2. sync' = sync \/ (flushing.by = "pull" /\ sync' = Idle)
      BY <1>13, FlushFailsIs, GoesOnIs
    <2>3. CASE sync' = sync
      BY <2>1, <2>3 DEF Shape, Pulls, wires
    <2>4. CASE flushing.by = "pull" /\ sync' = Idle
      BY <2>1, <2>4, SyncType DEF Shape, Pulls, wires
    <2> QED  BY <2>2, <2>3, <2>4
  <1>14. CASE LoadGoesOut
    <2>1. sync.at = "idle" /\ sync'.at = "loading" /\ sync'.cause = Load
      BY <1>14, SyncType DEF LoadGoesOut, Idle
    <2> QED  BY <1>14, <2>1 DEF LoadGoesOut, Shape, Pulls, link
  <1>15. CASE PullBegins
    <2>1. /\ pull' = [started |-> 0, last |-> None, seen |-> {}]
          /\ UNCHANGED <<wires, editing, flushing>>
          /\ sync = Idle \/ sync.at = "loading"
      BY <1>15 DEF PullBegins
    <2>2. sync'.at = "begun" /\ sync.at \in {"idle", "loading"}
      <3>1. [Idle EXCEPT !.at = "begun", !.cause = Dump].at = "begun"
        BY DEF Idle
      <3>2. sync \in Syncs
        BY DEF TypeOK
      <3>3. CASE sync = Idle /\ sync' = [Idle EXCEPT !.at = "begun", !.cause = Dump]
        BY <3>1, <3>3, SyncType
      <3>4. CASE sync.at = "loading" /\ sync' = [sync EXCEPT !.at = "begun"]
        BY <3>2, <3>4, SyncType
      <3> QED  BY <1>15, <3>3, <3>4 DEF PullBegins
    <2>3. pull' # None
      <3>1. pull' \in PullProgress
        BY <2>1 DEF PullProgress
      <3> QED  BY <3>1, NoneIs
    <2> QED  BY <2>1, <2>2, <2>3 DEF Shape, Pulls, wires
  <1>16. CASE PullAsks
    <2>1. sync.at = "begun" /\ sync'.at = "waiting"
      BY <1>16, SyncType DEF PullAsks, TypeOK
    <2>2. touch = "out" => toApp' = toApp
      BY <1>16 DEF PullAsks, DeskAnswers, Hears
    <2>3. UNCHANGED <<touch, pull, editing, flushing>>
      BY <1>16 DEF PullAsks, link
    <2>4. toApp # <<>> => toApp' # <<>>
      <3>1. toApp \in Seq(Lines) /\ TheDump \in Seq(Lines)
        BY DumpIs DEF TypeOK, Lines
      <3>2. toApp # <<>> => toApp \o TheDump # <<>>
        <4> HIDE DEF TheDump
        <4> QED  BY <3>1, JoinIs
      <3> QED  BY <1>16, <3>2 DEF PullAsks, DeskAnswers
    <2> QED  BY <2>1, <2>2, <2>3, <2>4 DEF Shape, Pulls
  <1>17. CASE PullEnds
    <2>1. sync.at = "waiting" /\ sync'.at = "ended" /\ pull' = None
          /\ UNCHANGED <<wires, editing, flushing>>
      BY <1>17 DEF PullEnds, TypeOK, Syncs
    <2> QED  BY <2>1 DEF Shape, Pulls, wires
  <1>18. CASE PullHasNothing
    <2>1. /\ sync.at = "ended" /\ sync'.at = "flushed" /\ UNCHANGED <<wires, link, editing, flushing>>
          /\ flushing # None => flushing.by # "pull"
      BY <1>18, SyncType DEF PullHasNothing, TypeOK
    <2> QED  BY <2>1 DEF Shape, Pulls, wires, link
  <1>19. CASE PullAligns \/ PullFails \/ PullUnwritten
    <2>1. /\ sync.at = "flushed" /\ sync' = Idle /\ LockFree /\ UNCHANGED <<wires, link, editing, flushing>>
      BY <1>19 DEF PullAligns, PullFails, PullUnwritten
    <2> QED  BY <2>1, SyncType DEF Shape, Pulls, wires, link, LockFree
  <1>20. CASE Restart
    BY <1>20, SyncType DEF Restart, Shape, Pulls
  <1>21. CASE UNCHANGED vars
    BY <1>21 DEF vars, wires, link, Shape, Pulls
  <1> QED  BY <1>1, <1>2, <1>3, <1>4, <1>5, <1>6, <1>7, <1>8, <1>9, <1>10, <1>11, <1>12, <1>13,
              <1>14, <1>15, <1>16, <1>17, <1>18, <1>19, <1>20, <1>21
           DEF Next, DeskStep, Metering, Edit, Flush, Pull

LEMMA NextNoted == TypeOK /\ Shape /\ Noted /\ [Next]_vars => Noted'
  <1> SUFFICES ASSUME TypeOK, Shape, Noted, [Next]_vars PROVE Noted'
    OBVIOUS
  <1>1. ASSUME NEW ks \in SUBSET Keys, Befalls(ks), Reads' = Reads PROVE Noted'
    BY <1>1, BefallsIs DEF Noted
  <1>2. ASSUME doubts' = doubts, Reads' = Reads PROVE Noted'
    BY <1>2 DEF Noted, doubts
  <1>3. sync' = sync => Reads' = Reads
    BY DEF Reads
  <1>4. CASE DeskStep \/ UNCHANGED vars
    <2>1. sync' = sync /\ doubts' = doubts
      BY <1>4 DEF DeskStep, DeskTurns, DeskHides, DeskLosesInterface, DeskGoesOut, DeskComesBack, vars
    <2> QED  BY <1>2, <1>3, <2>1
  <1>5. CASE Ingest
    BY <1>1, <1>3, <1>5, IngestIs, HitsAre
  <1>6. CASE Service
    BY <1>1, <1>3, <1>6, ServiceIs, HitsAre
  <1>7. CASE Tick
    BY <1>2, <1>3, <1>7, TickIs
  <1>8. CASE \E k \in Keys, v \in Values : EditSends(k, v)
    BY <1>1, <1>3, <1>8, EditSendsIs, HitsAre
  <1>9. CASE EditEnds
    BY <1>1, <1>3, <1>9, EditEndsIs, HitsAre
  <1>10. CASE FlushTakes
    BY <1>2, <1>3, <1>10, TakesIs, TakesEither
  <1>11. CASE FlushWrites
    <2>1. flushing # None /\ PullGoesOn(TRUE)
      BY <1>11, FlushWritesIs
    <2>2. \/ sync' = sync
          \/ flushing.by = "pull" /\ sync'.at = "flushed"
      BY <2>1, GoesOnIs
    <2>3. Reads' = Reads
      BY <2>1, <2>2 DEF Shape, Reads
    <2> QED  BY <1>2, <1>11, <2>3, FlushWritesIs
  <1>12. CASE FlushFails
    <2>1. CASE flushing.by = "metering"
      <3>1. sync' = sync /\ Befalls(LostInPull)
        BY <1>12, <2>1, FlushFailsIs, GoesOnIs
      <3> QED  BY <1>1, <1>3, <3>1, HitsAre
    <2>2. CASE flushing.by = "pull"
      BY <1>12, <2>2, FlushFailsIs DEF Noted
    <2> QED  BY <1>12, <2>1, <2>2, FlushFailsIs, GoesOnIs
  <1>13. CASE LoadGoesOut \/ PullAsks \/ PullHasNothing
    <2>1. Reads' = Reads
      <3>1. CASE LoadGoesOut
        BY <3>1 DEF LoadGoesOut, Reads, Idle
      <3>2. CASE PullAsks
        BY <3>2, SyncType DEF PullAsks, Reads, TypeOK
      <3>3. CASE PullHasNothing
        BY <3>3, SyncType DEF PullHasNothing, Reads, TypeOK
      <3> QED  BY <1>13, <3>1, <3>2, <3>3
    <2> QED  BY <1>2, <1>13, <2>1 DEF LoadGoesOut, PullAsks, PullHasNothing
  <1>14. CASE PullBegins
    <2>1. sync'.at = "begun"
      <3>1. [Idle EXCEPT !.at = "begun", !.cause = Dump].at = "begun"
        BY DEF Idle
      <3>2. sync \in Syncs
        BY DEF TypeOK
      <3>3. CASE sync = Idle /\ sync' = [Idle EXCEPT !.at = "begun", !.cause = Dump]
        BY <3>1, <3>3, SyncType
      <3>4. CASE sync.at = "loading" /\ sync' = [sync EXCEPT !.at = "begun"]
        BY <3>2, <3>4, SyncType
      <3> QED  BY <1>14, <3>3, <3>4 DEF PullBegins
    <2> QED  BY <1>14, <2>1 DEF PullBegins, Noted, Reads
  <1>15. CASE PullEnds
    <2>1. sync.at = "waiting" /\ sync'.at = "ended" /\ doubts' = doubts
      BY <1>15 DEF PullEnds, TypeOK, Syncs
    <2> QED  BY <1>2, <2>1 DEF Reads
  <1>16. CASE PullAligns \/ PullFails \/ PullUnwritten \/ Restart
    BY <1>16 DEF PullAligns, PullFails, PullUnwritten, Restart, Noted
  <1> QED  BY <1>4, <1>5, <1>6, <1>7, <1>8, <1>9, <1>10, <1>11, <1>12, <1>13, <1>14, <1>15, <1>16
           DEF Next, Metering, Edit, Flush, Pull

\* Only an edit makes a value's send wait, and it holds the lock.
LEMMA NewSends ==
  ASSUME TypeOK, Shape, [Next]_vars, ~EditEnds, NEW k \in Keys, pending[k] = None
  PROVE  pending'[k] = None
  <1>1. CASE Ingest
    <2>1. CASE Head(toApp).of = Status /\ IngestStatus
      BY <2>1, StatusLineIs
    <2>2. CASE Head(toApp).of \in Keys /\ IngestValue(Head(toApp).of, Head(toApp).value)
      <3>1. Head(toApp).value \in Values
        BY <1>1, IngestIs DEF Lines
      <3> QED  BY <2>2, <3>1, ValueIs
    <2> QED  BY <1>1, <2>1, <2>2, IngestIs
  <1>2. CASE Service
    BY <1>2, ServiceIs DEF DueReadback
  <1>3. CASE Tick
    BY <1>3, TickIs
  <1>4. CASE Restart
    BY <1>4 DEF Restart
  <1>5. CASE DeskStep
    BY <1>5 DEF DeskStep, DeskTurns, DeskHides, DeskLosesInterface, DeskGoesOut, DeskComesBack, link
  <1>6. CASE Edit
    BY <1>6 DEF Edit, EditSends, link
  <1>7. CASE Flush
    BY <1>7 DEF Flush, FlushTakes, Takes, FlushWrites, FlushFails, link
  <1>8. CASE Pull
    BY <1>8 DEF Pull, LoadGoesOut, PullBegins, PullAsks, PullEnds, PullHasNothing, PullAligns,
                PullFails, PullUnwritten, link
  <1>9. CASE UNCHANGED vars
    BY <1>9 DEF vars, link
  <1> QED  BY <1>1, <1>2, <1>3, <1>4, <1>5, <1>6, <1>7, <1>8, <1>9 DEF Next, Metering

LEMMA FlushSame ==
  ASSUME TypeOK, [Next]_vars
  PROVE  flushing' = flushing \/ flushing' = None \/ FlushTakes
  <1>1. CASE Metering
    BY <1>1, IngestIs, ServiceIs, TickIs DEF Metering
  <1>2. CASE DeskStep \/ Edit
    BY <1>2 DEF DeskStep, DeskTurns, DeskHides, DeskLosesInterface, DeskGoesOut, DeskComesBack,
                Edit, EditSends, EditEnds
  <1>3. CASE Flush
    BY <1>3 DEF Flush, FlushWrites, FlushFails
  <1>4. CASE Pull
    BY <1>4 DEF Pull, LoadGoesOut, PullBegins, PullAsks, PullEnds, PullHasNothing, PullAligns,
                PullFails, PullUnwritten
  <1>5. CASE Restart
    BY <1>5 DEF Restart
  <1>6. CASE UNCHANGED vars
    BY <1>6 DEF vars
  <1> QED  BY <1>1, <1>2, <1>3, <1>4, <1>5, <1>6 DEF Next

LEMMA NextReports == Safe /\ [Next]_vars => Reports'
  <1> SUFFICES ASSUME Safe, [Next]_vars, (flushing # None)', NEW k \in Keys,
                      (flushing.reports[k] # None)'
               PROVE  (pending[k] = None)'
    BY DEF Reports
  <1>1. CASE FlushTakes
    <2>1. PICK by \in {"metering", "pull"} : Takes(by)
      BY <1>1, TakesEither
    <2> QED  BY <2>1, TakesIs DEF Safe
  <1>2. CASE flushing' = flushing /\ ~EditEnds
    BY <1>2, NewSends DEF Safe, Reports
  <1>3. CASE flushing' = flushing /\ EditEnds
    BY <1>3, EditEndsIs DEF Safe, Shape
  <1> QED  BY <1>1, <1>2, <1>3, FlushSame DEF Safe

LEMMA SafeInit == Init => Safe
  <1>1. Init => TypeOK
    BY InitType
  <1>2. Init => Shape /\ Noted /\ Reports
    BY SyncType DEF Init, Shape, Noted, Reports, Pulls
  <1> QED  BY <1>1, <1>2 DEF Safe

LEMMA SafeNext == Safe /\ [Next]_vars => Safe'
  BY NextType, NextShape, NextNoted, NextReports DEF Safe

\* The kinds of everything the link keeps, who holds the audio state's lock, and
\* that what a flush took is of values no send waits for: whatever happens.
THEOREM ConsoleSafe == Spec => []Safe
  BY SafeInit, SafeNext, PTL DEF Spec

\* What the link, the flush and the pull keep has the kinds the code gives it.
THEOREM ConsoleTypeCorrect == Spec => []TypeOK
  <1>1. Safe => TypeOK
    BY DEF Safe
  <1> QED  BY <1>1, ConsoleSafe, PTL

LEMMA StepEditStands ==
  Safe /\ [Next]_vars =>
    [\A k \in Keys : flushing # None /\ app' # app /\ pending[k] # None
           => app'[k] = app[k] \/ editing # None]_vars
  <1> SUFFICES ASSUME Safe, [Next]_vars, NEW k \in Keys, flushing # None, app' # app, pending[k] # None
               PROVE  app'[k] = app[k] \/ editing # None
    OBVIOUS
  <1>1. CASE FlushWrites
    <2>1. flushing.reports[k] = None
      BY DEF Safe, Reports
    <2> QED  BY <1>1, <2>1, FlushWritesIs DEF Safe
  <1>2. CASE EditEnds
    BY <1>2, EditEndsIs DEF Safe
  <1>3. CASE PullAligns
    BY <1>3 DEF PullAligns, LockFree
  <1>4. CASE Metering
    BY <1>4, IngestIs, ServiceIs, TickIs DEF Metering, Safe, saved
  <1>5. CASE DeskStep
    BY <1>5 DEF DeskStep, DeskTurns, DeskHides, DeskLosesInterface, DeskGoesOut, DeskComesBack, saved
  <1>6. CASE \E j \in Keys, v \in Values : EditSends(j, v)
    BY <1>6 DEF EditSends, saved
  <1>7. CASE FlushTakes \/ FlushFails
    BY <1>7 DEF FlushTakes, Takes, FlushFails, saved
  <1>8. CASE Pull /\ ~PullAligns
    BY <1>8 DEF Pull, LoadGoesOut, PullBegins, PullAsks, PullEnds, PullHasNothing, PullFails,
                PullUnwritten, saved
  <1>9. CASE Restart
    BY <1>9 DEF Restart
  <1>10. CASE UNCHANGED vars
    BY <1>10 DEF vars, saved
  <1> QED  BY <1>1, <1>2, <1>3, <1>4, <1>5, <1>6, <1>7, <1>8, <1>9, <1>10 DEF Next, Edit, Flush

\* A flush never writes a report over a value the app sent after the report was
\* taken (flush_console_link), whatever happens besides.
THEOREM EditsStand == Spec => EditStands
  BY ConsoleSafe, StepEditStands, PTL DEF Spec, EditStands
-----------------------------------------------------------------------------
\* When every mishap is noted: what the parts of the invariant need of a step to
\* be kept.
LEMMA EndsOnWay == \A s, k, v : Ends(s, k, v) => Holds(s, k)
  BY DEF Ends, Holds

LEMMA LinesIs ==
  ASSUME TypeOK
  PROVE  /\ toApp \in Seq(Lines) /\ desk \in [Keys -> Values]
         /\ touch \in {"in", "out", "back", "again"} /\ sync \in Syncs
         /\ \A k \in Keys : pending[k] # None => pending[k].sent \in Nat /\ pending[k] \in Sends
         /\ \A g \in Groups : outstanding[g] # None => outstanding[g].asked \in Nat
         /\ pull # None => pull.started \in Nat /\ pull.seen \in SUBSET Faders
  BY DEF TypeOK, Sends, Requests, PullProgress

\* A step doubts ks, and what it doubted before; a pull goes on or its end is near.
Spares(ks) ==
    /\ Straight' \subseteq Straight \ ks
    /\ (Keys \ doubted)' \subseteq (Keys \ doubted) \ ks
    /\ (Keys \ doubted)' \subseteq Straight'

LEMMA StraightIs ==
  ASSUME TypeOK, Noted
  PROVE  Straight \subseteq Keys /\ Keys \ doubted \subseteq Straight
  BY DEF Straight, Noted

LEMMA BefallsSpares ==
  ASSUME TypeOK, Noted, Reads' = Reads, NEW ks \in SUBSET Keys, Befalls(ks)
  PROVE  Spares(ks)
  BY BefallsIs DEF Noted, Straight, Spares

LEMMA SameSpares ==
  ASSUME TypeOK, Noted, Reads' = Reads, UNCHANGED doubts
  PROVE  Spares({})
  BY DEF Noted, Straight, Spares, doubts

LEMMA SyncReads == UNCHANGED sync => Reads' = Reads
  BY DEF Reads

\* What is written of a value is the desk's, whatever the app has of it.
LEMMA RestKeeps ==
  ASSUME Inv, UNCHANGED <<queued, marks, confidence, flushing, sync, touch>>,
         NEW ks, Spares(ks),
         Pulls => pull'.seen = pull.seen,
         InTouch => \A k \in Straight' : (Known(k) => Known(k)') /\ (Off(k) => Off(k)')
  PROVE  Written' /\ Trusted' /\ Begun' /\ Waited' /\ Ended'
  <1>1. Straight' \subseteq Straight /\ Straight \subseteq Keys
    BY StraightIs DEF Spares, Inv, Safe
  <1>2. Written'
    BY <1>1 DEF Inv, Told, Written
  <1>3. InTouch' = InTouch
    BY DEF InTouch
  <1>4. Trusted'
    <2>1. Doubt => Doubt'
      BY DEF Doubt, InTouch
    <2> SUFFICES ASSUME confidence = "aligned", sync.cause # Load, ~Doubt', NEW k \in (Keys \ doubted)'
                 PROVE  Known(k)'
      BY DEF Trusted
    <2>2. k \in Keys \ doubted /\ k \in Straight'
      BY DEF Spares
    <2>3. ~Doubt /\ InTouch
      BY <2>1 DEF Doubt
    <2>4. Known(k)
      BY <2>2, <2>3 DEF Inv, Told, Trusted
    <2> QED  BY <2>2, <2>3, <2>4
  <1>5. Begun'
    <2> SUFFICES ASSUME sync.at = "begun", InTouch, NEW k \in (Straight \cap pull.seen)'
                 PROVE  Known(k)'
      BY <1>3 DEF Begun
    <2>1. k \in Straight' /\ k \in Straight \cap pull.seen
      BY <1>1 DEF Pulls
    <2>2. Known(k)
      BY <2>1 DEF Inv, Told, Begun
    <2> QED  BY <2>1, <2>2
  <1>6. ASSUME NEW seen, InTouch, NEW k \in Straight', Learned(k, seen)
        PROVE  Learned(k, seen)'
    BY <1>6 DEF Learned
  <1>7. Waited'
    <2> SUFFICES ASSUME sync.at = "waiting", InTouch, NEW k \in Straight'
                 PROVE  Learned(k, pull.seen)'
      BY <1>3 DEF Waited
    <2>1. pull'.seen = pull.seen
      BY DEF Pulls
    <2>2. Learned(k, pull.seen)
      BY <1>1 DEF Inv, Told, Waited
    <2> QED  BY <1>6, <2>1, <2>2
  <1>8. Ended'
    <2> SUFFICES ASSUME Over', NEW k \in Straight' PROVE Learned(k, sync.seen)'
      BY DEF Ended
    <2>1. Over /\ InTouch
      BY <1>3 DEF Over
    <2>2. Learned(k, sync.seen)
      BY <1>1, <2>1 DEF Inv, Told, Ended
    <2> QED  BY <1>6, <2>1, <2>2
  <1> QED  BY <1>2, <1>4, <1>5, <1>7, <1>8

\* The desk says more and the link does nothing.
LEMMA DeskKeeps ==
  ASSUME Inv, UNCHANGED <<link, editing>>,
         \A k \in Keys : OnWay(k) => OnWay(k)',
         \/ /\ UNCHANGED sync
            /\ touch' # "out" =>
                  \/ touch' = touch /\ \A k \in Keys : desk'[k] = desk[k] \/ OnWay(k)'
                  \/ \A k \in Keys : OnWay(k)' \/ (k \in Faders /\ desk'[k] = 0)
         \/ /\ sync.at = "begun" /\ sync'.at = "waiting" /\ touch' = touch
            /\ touch # "out" => \A k \in Keys : OnWay(k)' \/ (k \in Faders /\ desk'[k] = 0)
  PROVE  AskedAfter' /\ Absent' /\ OlderSends' /\ Recalled'
  <1>1. /\ UNCHANGED <<pending, outstanding, pull>> /\ \A k : EditOf(k)' = EditOf(k)
        /\ \A k : ReadBackAnswers(k)' = ReadBackAnswers(k)
        /\ Pulls' = Pulls
    BY DEF link, EditOf, ReadBackAnswers, Pulls
  <1>3. AskedAfter'
    BY <1>1 DEF Inv, Told, AskedAfter
  <1>4. Absent'
    <2> SUFFICES ASSUME touch' # "out", NEW k \in Faders, pending[k] # None, outstanding[Submix] # None,
                        ReadBackAnswers(k), ~Loading(k)'
                 PROVE  (desk[k] = 0 \/ OnWay(k) \/ EditOf(k))'
      BY <1>1 DEF Absent
    <2>1. k \in Keys
      BY KeysAre
    <2>2. CASE OnWay(k)' \/ desk'[k] = 0
      BY <2>2
    <2>3. CASE sync' = sync /\ touch # "out" /\ desk'[k] = desk[k]
      <3>1. ~Loading(k)
        BY <1>1, <2>3 DEF Loading
      <3>2. desk[k] = 0 \/ OnWay(k) \/ EditOf(k)
        BY <2>3, <3>1 DEF Inv, Told, Absent
      <3> QED  BY <1>1, <2>1, <2>3, <3>2
    <2> QED  BY <2>1, <2>2, <2>3
  <1>5. OlderSends'
    <2> SUFFICES ASSUME Pulls, NEW k \in Keys, pending[k] # None, pending[k].sent > pull.started
                 PROVE  k \notin pull.seen /\ (sync'.at = "waiting" /\ InTouch' => LeftOut(k, pull.seen)')
      BY <1>1 DEF OlderSends
    <2>1. k \notin pull.seen
      BY DEF Inv, Told, OlderSends
    <2> SUFFICES ASSUME sync'.at = "waiting", InTouch' PROVE LeftOut(k, pull.seen)'
      BY <2>1
    <2>2. CASE OnWay(k)' \/ (k \in Faders /\ desk'[k] = 0)
      BY <1>1, <2>1, <2>2 DEF LeftOut
    <2>3. CASE sync' = sync /\ touch' = touch /\ desk'[k] = desk[k]
      <3>1. LeftOut(k, pull.seen)
        BY <2>3 DEF Inv, Told, OlderSends, InTouch
      <3> QED  BY <1>1, <2>1, <2>3, <3>1 DEF LeftOut
    <2> QED  BY <2>1, <2>2, <2>3 DEF InTouch
  <1>6. Recalled'
    <2> SUFFICES ASSUME touch' = "back", sync'.at \in {"waiting", "ended", "flushed"}, NEW k \in Keys
                 PROVE  ((k \in Faders /\ desk[k] = 0) \/ OnWay(k) \/ EditOf(k) \/ SentSince(k))'
      BY DEF Recalled
    <2>1. CASE OnWay(k)' \/ (k \in Faders /\ desk'[k] = 0)
      BY <2>1
    <2>2. CASE sync' = sync /\ touch' = touch /\ desk'[k] = desk[k]
      <3>1. (k \in Faders /\ desk[k] = 0) \/ OnWay(k) \/ EditOf(k) \/ SentSince(k)
        BY <2>2 DEF Inv, Told, Recalled
      <3>2. SentSince(k)' = SentSince(k)
        BY <1>1, <2>2 DEF SentSince
      <3> QED  BY <1>1, <2>2, <3>1, <3>2
    <2> QED  BY <2>1, <2>2
  <1> QED  BY <1>3, <1>4, <1>5, <1>6

\* A step of the flush or of the pull's end tells the desk and the link's sends nothing.
LEMMA WireSame ==
  ASSUME Inv, UNCHANGED <<wires, pending, outstanding, editing>>, Straight' \subseteq Straight,
         \/ UNCHANGED <<pull, sync>>
         \/ /\ pull' = None
            /\ \/ sync.at \in {"idle", "waiting", "ended", "flushed"} /\ sync'.at = "idle"
               \/ sync.at \in {"waiting", "ended"} /\ sync'.at \in {"ended", "flushed"}
  PROVE  AskedAfter' /\ Honest' /\ Absent' /\ OlderSends' /\ Recalled'
  <1>1. /\ \A k : EditOf(k)' = EditOf(k) /\ OnWay(k)' = OnWay(k)
        /\ \A k : ReadBackAnswers(k)' = ReadBackAnswers(k)
        /\ UNCHANGED <<desk, hidden, touch, toApp>>
    BY DEF wires, EditOf, OnWay, ReadBackAnswers
  <1>2. \A k : Loading(k) => Loading(k)'
    BY DEF Loading
  <1>3. AskedAfter'
    BY DEF Inv, Told, AskedAfter
  <1>4. Honest'
    <2>1. \A k : Answers(k)' => Answers(k)
      <3>1. pull' = pull \/ pull' = None
        OBVIOUS
      <3>2. CASE pull' = pull
        BY <3>2 DEF Answers, AskedByReadBack, AskedByPull
      <3>3. CASE pull' = None
        BY <3>3 DEF Answers, AskedByReadBack, AskedByPull
      <3> QED  BY <3>1, <3>2, <3>3
    <2>2. \A k : Crossed(k) => Crossed(k)'
      BY <1>1, <2>1 DEF Crossed
    <2>3. sync'.at # "loading" => sync.at # "loading"
      OBVIOUS
    <2> QED  BY <1>1, <2>2, <2>3 DEF Inv, Told, Honest
  <1>5. Absent'
    BY <1>1, <1>2 DEF Inv, Told, Absent
  <1>6. OlderSends'
    <2>1. CASE UNCHANGED <<pull, sync>>
      BY <1>1, <2>1 DEF Inv, Told, OlderSends, Pulls, LeftOut, InTouch
    <2>2. CASE sync'.at \in {"idle", "ended", "flushed"}
      BY <2>2 DEF OlderSends, Pulls
    <2> QED  BY <2>1, <2>2
  <1>7. Recalled'
    <2>1. CASE UNCHANGED <<pull, sync>>
      BY <1>1, <2>1 DEF Inv, Told, Recalled, SentSince
    <2>2. CASE sync'.at = "idle"
      BY <2>2 DEF Recalled
    <2>3. CASE sync.at \in {"waiting", "ended"} /\ sync'.at \in {"ended", "flushed"}
      BY <1>1, <2>3 DEF Inv, Told, Recalled, SentSince
    <2> QED  BY <2>1, <2>2, <2>3
  <1> QED  BY <1>3, <1>4, <1>5, <1>6, <1>7

-----------------------------------------------------------------------------
\* The desk's steps.
LEMMA TurnsTold ==
  ASSUME Inv, NEW j \in Keys, NEW v \in Values, DeskTurns(j, v)
  PROVE  Told'
  <1>1. /\ UNCHANGED <<hidden, touch, link, saved, editing, flushing, sync, doubts>>
        /\ desk' = [desk EXCEPT ![j] = v]
        /\ toApp' = IF touch = "out" THEN toApp ELSE Append(toApp, [of |-> j, value |-> v])
    BY DEF DeskTurns
  <1>2. toApp \in Seq(Lines) /\ desk \in [Keys -> Values]
    BY LinesIs DEF Inv, Safe
  <1>3. Spares({})
    BY <1>1, SameSpares, SyncReads DEF Inv, Safe
  <1>4. desk'[j] = v /\ \A k \in Keys \ {j} : desk'[k] = desk[k]
    BY <1>1, <1>2
  <1> DEFINE x == [of |-> j, value |-> v]
  <1>5. x \in Lines /\ x.of = j /\ x.value = v
    BY DEF Lines
  <1>6. touch # "out" => toApp' = toApp \o <<x>>
    BY <1>1, <1>2, <1>5, AppendIs
  <1> HIDE DEF x
  <1>7. /\ <<x>> \in Seq(Lines)
        /\ \A k : Holds(<<x>>, k) <=> k = j
        /\ \A k, w : Ends(<<x>>, k, w) => k = j /\ w = v
    BY <1>5, OneIs
  <1>8. touch # "out" =>
          \A k, w : /\ OnWay(k)' <=> OnWay(k) \/ k = j
                    /\ Ends(toApp', k, w) => (k = j /\ w = v) \/ (k # j /\ Ends(toApp, k, w))
                    /\ k # j /\ Alone(toApp, k) => Alone(toApp', k)
    <2> SUFFICES ASSUME touch # "out", NEW k, NEW w
                 PROVE  /\ OnWay(k)' <=> OnWay(k) \/ k = j
                        /\ Ends(toApp', k, w) => (k = j /\ w = v) \/ (k # j /\ Ends(toApp, k, w))
                        /\ k # j /\ Alone(toApp, k) => Alone(toApp', k)
      OBVIOUS
    <2> DEFINE t == <<x>>
    <2>1. t \in Seq(Lines) /\ toApp \in Seq(Lines)
      BY <1>2, <1>7
    <2>2. toApp' = toApp \o t
      BY <1>6
    <2>3. (Holds(t, k) <=> k = j) /\ (Ends(t, k, w) => k = j /\ w = v)
      BY <1>7
    <2> HIDE DEF t
    <2>4. /\ Holds(toApp \o t, k) <=> Holds(toApp, k) \/ Holds(t, k)
          /\ Ends(toApp \o t, k, w) => Ends(t, k, w) \/ (~Holds(t, k) /\ Ends(toApp, k, w))
          /\ ~Holds(t, k) /\ Alone(toApp, k) => Alone(toApp \o t, k)
      BY <2>1, JoinHolds
    <2> QED  BY <2>2, <2>3, <2>4 DEF OnWay
  <1>9. touch = "out" => toApp' = <<>> /\ toApp = <<>>
    BY <1>1 DEF Inv, Safe, Shape
  <1>10. \A k : OnWay(k) => OnWay(k)'
    BY <1>8, <1>9 DEF OnWay
  <1>11. touch # "out" => \A k \in Keys : desk'[k] = desk[k] \/ OnWay(k)'
    BY <1>4, <1>8
  <1>12. AskedAfter' /\ Absent' /\ OlderSends' /\ Recalled'
    BY <1>1, <1>10, <1>11, DeskKeeps
  <1>13. Honest'
    <2> SUFFICES ASSUME sync.at # "loading", NEW k \in Straight', NEW w \in Values, Ends(toApp', k, w)
                 PROVE  w = desk'[k] \/ Crossed(k)'
      BY <1>1 DEF Honest
    <2>1. touch # "out"
      BY <1>9, EmptyIs
    <2>2. k \in Straight /\ k \in Keys
      BY <1>3, StraightIs DEF Spares, Inv, Safe
    <2>3. CASE k = j /\ w = v
      BY <1>4, <2>3
    <2>4. CASE k # j /\ Ends(toApp, k, w)
      <3>1. w = desk[k] \/ Crossed(k)
        BY <2>2, <2>4 DEF Inv, Told, Honest
      <3>2. Answers(k)' = Answers(k)
        BY <1>1 DEF Answers, AskedByReadBack, AskedByPull, link
      <3>3. desk'[k] = desk[k]
        BY <1>4, <2>2, <2>4
      <3>4. Crossed(k) => Crossed(k)'
        BY <1>1, <1>8, <2>1, <2>4, <3>2, <3>3 DEF Crossed, EditOf, link
      <3> QED  BY <3>1, <3>3, <3>4
    <2> QED  BY <1>8, <2>1, <2>3, <2>4
  <1>14. touch # "out" => \A k \in Keys : (Known(k) => Known(k)') /\ (Off(k) => Off(k)')
    <2> SUFFICES ASSUME touch # "out", NEW k \in Keys
                 PROVE  (Known(k) => Known(k)') /\ (Off(k) => Off(k)')
      OBVIOUS
    <2>1. /\ pending' = pending /\ EditOf(k)' = EditOf(k) /\ Rest(k)' = Rest(k)
      BY <1>1 DEF link, saved, EditOf, Rest
    <2> QED  BY <1>10, <1>11, <2>1 DEF Known, Off, UnderWay
  <1>15. Written' /\ Trusted' /\ Begun' /\ Waited' /\ Ended'
    <2>1. InTouch => \A k \in Straight' : (Known(k) => Known(k)') /\ (Off(k) => Off(k)')
      BY <1>3, <1>14, StraightIs DEF Spares, Inv, Safe, InTouch
    <2> QED  BY <1>1, <1>3, <2>1, RestKeeps DEF link, saved
  <1> QED  BY <1>12, <1>13, <1>15 DEF Told

\* What only adds status lines, or hides a value.
LEMMA QuietTold ==
  ASSUME Inv, UNCHANGED <<desk, touch, link, saved, editing, flushing, sync, doubts>>,
         \A k \in Keys : OnWay(k)' = OnWay(k),
         \A k \in Keys : \A v : /\ Ends(toApp', k, v) => Ends(toApp, k, v)
                                /\ Alone(toApp, k) => Alone(toApp', k)
  PROVE  Told'
  <1>1. /\ UNCHANGED <<pending, outstanding, pull, queued, marks, app, confidence>>
        /\ \A k : EditOf(k)' = EditOf(k) /\ Rest(k)' = Rest(k)
    BY DEF link, saved, EditOf, Rest
  <1>2. \A k \in Keys : Known(k)' = Known(k) /\ Off(k)' = Off(k)
    BY <1>1 DEF Known, Off, UnderWay
  <1>3. AskedAfter' /\ Absent' /\ OlderSends' /\ Recalled'
    BY <1>1, DeskKeeps
  <1>4. Spares({}) /\ Straight' \subseteq Straight /\ Straight \subseteq Keys
    BY SameSpares, SyncReads, StraightIs DEF Inv, Safe, Spares
  <1>5. Honest'
    <2>1. \A k : Answers(k)' = Answers(k)
      BY <1>1 DEF Answers, AskedByReadBack, AskedByPull
    <2>2. \A k \in Keys : Crossed(k) => Crossed(k)'
      BY <1>1, <2>1 DEF Crossed
    <2> QED  BY <1>1, <1>4, <2>2 DEF Inv, Told, Honest
  <1>6. Written' /\ Trusted' /\ Begun' /\ Waited' /\ Ended'
    BY <1>1, <1>2, <1>4, RestKeeps
  <1> QED  BY <1>3, <1>5, <1>6 DEF Told

LEMMA HidesTold ==
  ASSUME Inv, NEW j \in Keys, DeskHides(j)
  PROVE  Told'
  <1>1. UNCHANGED <<desk, touch, toApp, link, saved, editing, flushing, sync, doubts>>
    BY DEF DeskHides
  <1>2. \A k : OnWay(k)' = OnWay(k)
    BY <1>1 DEF OnWay
  <1> QED  BY <1>1, <1>2, QuietTold

LEMMA LosesTold ==
  ASSUME Inv, DeskLosesInterface
  PROVE  Told'
  <1> DEFINE s == <<GoneLine, StatusLine>>
  <1>1. /\ UNCHANGED <<desk, hidden, touch, link, saved, editing, flushing, sync, doubts>>
        /\ toApp' = toApp \o s
    BY DEF DeskLosesInterface
  <1>2. toApp \in Seq(Lines)
    BY LinesIs DEF Inv, Safe
  <1>3. s \in Seq(Lines) /\ \A k \in Keys : ~Holds(s, k)
    BY StatusIs DEF Holds
  <1> HIDE DEF s
  <1>4. \A k \in Keys : OnWay(k)' = OnWay(k)
    <2> SUFFICES ASSUME NEW k \in Keys PROVE OnWay(k)' = OnWay(k)
      OBVIOUS
    <2>1. Holds(toApp', k) <=> Holds(toApp, k)
      BY <1>1, <1>2, <1>3, JoinHolds
    <2> QED  BY <2>1 DEF OnWay, Holds
  <1>5. \A k \in Keys : \A v : /\ Ends(toApp', k, v) => Ends(toApp, k, v)
                               /\ Alone(toApp, k) => Alone(toApp', k)
    BY <1>1, <1>2, <1>3, JoinHolds, EndsOnWay
  <1> QED  BY <1>1, <1>4, <1>5, QuietTold

LEMMA GoesOutTold ==
  ASSUME Inv, DeskGoesOut
  PROVE  Told'
  <1>1. /\ UNCHANGED <<desk, hidden, toApp, link, saved, editing, flushing, sync, doubts>>
        /\ touch' = "out" /\ toApp = <<>>
    BY DEF DeskGoesOut
  <1>2. AskedAfter' /\ Absent' /\ OlderSends' /\ Recalled'
    BY <1>1, DeskKeeps DEF OnWay
  <1>3. Honest'
    BY <1>1, EmptyIs DEF Honest
  <1>4. Straight' = Straight
    BY <1>1 DEF Straight, Reads, doubts
  <1>5. Written' /\ Trusted' /\ Begun' /\ Waited' /\ Ended'
    BY <1>1, <1>4 DEF Inv, Told, Written, Trusted, Doubt, InTouch, Begun, Waited, Ended, Over, link, saved
  <1> QED  BY <1>2, <1>3, <1>5 DEF Told

LEMMA ComesBackTold ==
  ASSUME Inv, DeskComesBack
  PROVE  Told'
  <1>1. /\ UNCHANGED <<desk, hidden, link, saved, editing, flushing, sync, doubts>>
        /\ touch = "out" /\ touch' = "back" /\ toApp' = toApp \o TheDump
    BY DEF DeskComesBack
  <1>2. toApp = <<>> /\ desk \in [Keys -> Values]
    BY <1>1, LinesIs DEF Inv, Safe, Shape
  <1>3. /\ TheDump \in Seq(Lines)
        /\ \A k \in Keys : Holds(TheDump, k) <=> (k \in Switches \/ desk[k] > 0)
        /\ \A k \in Keys : \A v : Ends(TheDump, k, v) => v = desk[k]
    BY <1>2, DumpIs
  <1>4. toApp' = TheDump
    BY <1>1, <1>2, <1>3
  <1>5. \A k \in Keys : OnWay(k)' \/ (k \in Faders /\ desk'[k] = 0)
    <2>1. \A k \in Keys : k \in Switches \/ desk[k] > 0 \/ (k \in Faders /\ desk[k] = 0)
      <3>1. \A k \in Keys : desk[k] \in Nat /\ (k \in Faders \/ k \in Switches)
        BY <1>2, KeysAre
      <3> QED  BY <3>1
    <2> QED  BY <1>1, <1>3, <1>4, <2>1 DEF OnWay
  <1>6. AskedAfter' /\ Absent' /\ OlderSends' /\ Recalled'
    <2>1. \A k \in Keys : OnWay(k) => OnWay(k)'
      BY <1>2, EmptyIs DEF OnWay
    <2> QED  BY <1>1, <1>5, <2>1, DeskKeeps
  <1>7. Straight' = Straight /\ Straight \subseteq Keys
    BY <1>1 DEF Straight, Reads, doubts
  <1>8. Honest'
    BY <1>1, <1>3, <1>4, <1>7 DEF Honest
  <1>9. Written' /\ Trusted' /\ Begun' /\ Waited' /\ Ended'
    BY <1>1, <1>7 DEF Inv, Told, Written, Trusted, Doubt, InTouch, Begun, Waited, Ended, Over, link, saved
  <1> QED  BY <1>6, <1>7, <1>8, <1>9 DEF Told
-----------------------------------------------------------------------------
\* The metering thread's steps.
LEMMA IngestTold ==
  ASSUME Inv, Excused = Mishaps, Ingest
  PROVE  Told'
  <1> DEFINE line == Head(toApp)
             ks == ReadLate(line) \cup MissedOff
  <1>1. /\ toApp \in Seq(Lines) /\ toApp # <<>> /\ toApp' = Tail(toApp) /\ line \in Lines
        /\ touch' = (IF touch = "back" THEN "again" ELSE touch)
        /\ touch = "back" => marks'.outOfTouch
        /\ marks # NoMarks => marks' # NoMarks
        /\ UNCHANGED <<desk, hidden, saved, editing, flushing, sync>>
        /\ \/ line.of = Status /\ IngestStatus
           \/ line.of \in Keys /\ IngestValue(line.of, line.value)
        /\ (pull = None => pull' = None) /\ Befalls(ks)
    BY IngestIs DEF Inv, Safe
  <1>2. Pulls => /\ pull # None /\ pull' # None /\ pull'.last = 0 /\ pull'.started = pull.started
                 /\ pull'.seen = pull.seen \cup ({line.of} \cap Faders)
    BY IngestIs DEF Inv, Safe, Shape
  <1>3. line.value \in Values
    BY <1>1 DEF Lines
  <1>4. \A k, v : /\ OnWay(k) <=> line.of = k \/ OnWay(k)'
                  /\ Ends(toApp', k, v) => Ends(toApp, k, v)
                  /\ line.of = k /\ ~OnWay(k)' => Ends(toApp, k, line.value)
                  /\ Alone(toApp, k) => Alone(toApp', k)
                  /\ Alone(toApp, k) /\ line.of = k => ~OnWay(k)'
    BY <1>1, TailHolds DEF OnWay
  <1>21. /\ sync.at \in {"ended", "flushed"} /\ line.of \in Faders \ sync.seen => line.of \in ks
         /\ Reads /\ touch = "back" => Seen \subseteq ks
    BY DEF ReadLate, MissedOff, Hit, Mishaps
  <1>22. Spares(ks)
    <2>1. ks \in SUBSET Keys
      BY <1>1, HitsAre DEF Inv, Safe
    <2> HIDE DEF ks
    <2> QED  BY <1>1, <2>1, BefallsSpares, SyncReads DEF Inv, Safe
  <1> HIDE DEF line, ks
  <1>23. /\ Straight' \subseteq Straight /\ Straight \subseteq Keys /\ Straight' \cap ks = {}
         /\ (Keys \ doubted)' \subseteq Keys \ doubted /\ Keys \ doubted \subseteq Straight
    BY <1>22, StraightIs DEF Spares, Inv, Safe
  <1>24. ~Pulls => pull = None /\ pull' = None
    BY <1>1 DEF Inv, Safe, Shape
  <1>25. \/ InTouch' /\ (InTouch \/ touch = "back" \/ touch = "out") /\ (InTouch' => touch # "out")
         \/ touch = "out" /\ ~InTouch'
    BY <1>1, LinesIs DEF InTouch, Inv, Safe
  <1>5. \A k \in Keys : line.of # k => pending'[k] = pending[k] /\ queued'[k] = queued[k]
    BY <1>1, <1>3, ValueIs, StatusLineIs DEF Inv, Safe
  <1>6. \A k \in Keys : line.of = k =>
           \/ /\ pending'[k] = None /\ queued'[k] = line.value
              /\ pending[k] = None \/ pending[k].value = line.value \/ Answers(k)
           \/ /\ pending[k] # None /\ ~Answers(k)
              /\ pending'[k] = pending[k] /\ queued'[k] = queued[k]
    <2> SUFFICES ASSUME NEW k \in Keys, line.of = k
                 PROVE  \/ /\ pending'[k] = None /\ queued'[k] = line.value
                           /\ pending[k] = None \/ pending[k].value = line.value \/ Answers(k)
                        \/ /\ pending[k] # None /\ ~Answers(k)
                           /\ pending'[k] = pending[k] /\ queued'[k] = queued[k]
      OBVIOUS
    <2>1. IngestValue(k, line.value)
      BY <1>1, KeysAre
    <2> QED  BY <1>3, <2>1, ValueIs DEF Inv, Safe
  <1>7. \A g \in Groups : /\ outstanding'[g] = None <=> outstanding[g] = None
                          /\ outstanding[g] # None => outstanding'[g].asked = outstanding[g].asked
    BY <1>1, <1>3, ValueIs, StatusLineIs DEF Inv, Safe
  <1>8. \A k \in Keys : pending'[k] # None => pending'[k] = pending[k]
    BY <1>5, <1>6
  <1>9. /\ \A k : EditOf(k)' = EditOf(k)
        /\ touch' = "out" <=> touch = "out"
        /\ Pulls' = Pulls
    BY <1>1 DEF EditOf, Pulls
  <1>11. AskedAfter'
    BY <1>8 DEF Inv, Told, AskedAfter
  <1>10. ASSUME NEW k \in Keys, pending'[k] = pending[k]
         PROVE  Answers(k)' <=> Answers(k)
    <2>1. Group(k) \in Groups
      BY KeysAre
    <2>2. AskedByReadBack(outstanding[Group(k)], pending[k])' <=> AskedByReadBack(outstanding[Group(k)], pending[k])
      BY <1>7, <1>10, <2>1 DEF AskedByReadBack
    <2>3. AskedByPull(pending[k])' <=> AskedByPull(pending[k])
      BY <1>2, <1>10, <1>24 DEF AskedByPull
    <2> QED  BY <2>2, <2>3 DEF Answers
  <1>12. Honest'
    <2> SUFFICES ASSUME sync.at # "loading", NEW k \in Straight', NEW v \in Values, Ends(toApp', k, v)
                 PROVE  v = desk'[k] \/ Crossed(k)'
      BY <1>1 DEF Honest
    <2>0. k \in Straight /\ k \in Keys
      BY <1>23
    <2>1. v = desk[k] \/ Crossed(k)
      BY <1>4, <2>0 DEF Inv, Told, Honest
    <2>2. CASE v = desk[k]
      BY <1>1, <2>2
    <2>3. CASE Crossed(k)
      <3>1. Alone(toApp, k) /\ OnWay(k)'
        BY <2>3, EndsOnWay DEF Crossed, OnWay
      <3>2. line.of # k /\ Alone(toApp', k)
        BY <1>4, <3>1
      <3>3. pending'[k] = pending[k]
        BY <1>5, <2>0, <3>2
      <3>4. Answers(k)' <=> Answers(k)
        BY <1>10, <2>0, <3>3
      <3> QED  BY <1>1, <1>9, <2>3, <3>2, <3>3, <3>4 DEF Crossed
    <2> QED  BY <2>1, <2>2, <2>3
  <1>13. Absent'
    <2> SUFFICES ASSUME touch # "out", NEW k \in Faders, pending'[k] # None, outstanding'[Submix] # None,
                        ReadBackAnswers(k)', ~Loading(k)', ~OnWay(k)', ~EditOf(k)'
                 PROVE  desk'[k] = 0
      BY <1>9 DEF Absent
    <2>1. k \in Keys /\ Group(k) = Submix /\ Submix \in Groups
      BY KeysAre DEF Groups
    <2>2. pending'[k] = pending[k] /\ outstanding[Submix] # None
          /\ outstanding'[Submix].asked = outstanding[Submix].asked
      BY <1>7, <1>8, <2>1
    <2>3. ReadBackAnswers(k)
      BY <2>1, <2>2 DEF ReadBackAnswers
    <2>4. line.of # k
      <3> SUFFICES ASSUME line.of = k PROVE FALSE
        OBVIOUS
      <3>1. ~Answers(k)
        BY <1>6, <2>1
      <3>2. pending[k].asked # None /\ pending[k].asked >= outstanding[Submix].asked
        BY <2>1, <2>3 DEF ReadBackAnswers
      <3>3. pending[k].asked <= pending[k].sent
        BY <2>1, <2>2, <3>2 DEF Inv, Told, AskedAfter
      <3>4. pending[k].sent \in Nat /\ pending[k].asked \in Nat /\ outstanding[Submix].asked \in Nat
        BY <2>1, <2>2, <3>2, LinesIs DEF Inv, Safe, Sends
      <3>5. outstanding[Submix].asked <= pending[k].sent
        BY <3>2, <3>3, <3>4
      <3> QED  BY <2>1, <2>2, <3>1, <3>5 DEF Answers, AskedByReadBack
    <2>5. ~OnWay(k) /\ ~EditOf(k)
      BY <1>4, <1>9, <2>4
    <2>6. ~Loading(k)
      BY <1>1, <1>2, <2>4 DEF Loading, Pulls
    <2> QED  BY <1>1, <2>1, <2>2, <2>3, <2>5, <2>6 DEF Inv, Told, Absent
  <1>14. OlderSends'
    <2> SUFFICES ASSUME Pulls, NEW k \in Keys, pending'[k] # None, pending'[k].sent > pull'.started
                 PROVE  k \notin pull'.seen /\ (sync'.at = "waiting" /\ InTouch' => LeftOut(k, pull.seen)')
      BY <1>9 DEF OlderSends
    <2>1. pending'[k] = pending[k] /\ pending[k].sent > pull.started
      BY <1>2, <1>8
    <2>2. pending[k].sent \in Nat /\ pull.started \in Nat
      BY <1>2, <2>1, LinesIs DEF Inv, Safe
    <2>3. Answers(k)
      BY <1>2, <2>1, <2>2 DEF Answers, AskedByPull
    <2>4. line.of # k
      BY <1>6, <2>1, <2>3
    <2>5. k \notin pull.seen
      BY <2>1 DEF Inv, Told, OlderSends
    <2>6. k \notin pull'.seen
      BY <1>2, <2>4, <2>5
    <2> SUFFICES ASSUME sync.at = "waiting", InTouch' PROVE LeftOut(k, pull.seen)'
      BY <1>1, <2>6
    <2>7. OnWay(k) \/ EditOf(k) \/ (k \in Faders /\ desk[k] = 0)
      <3>1. CASE InTouch
        BY <2>1, <3>1 DEF Inv, Told, OlderSends, LeftOut
      <3>2. CASE touch = "back"
        <4>1. ~SentSince(k)
          BY <2>1, <2>2 DEF SentSince
        <4> QED  BY <3>2, <4>1 DEF Inv, Told, Recalled
      <3> QED  BY <1>25, <3>1, <3>2
    <2> QED  BY <1>1, <1>4, <1>9, <2>4, <2>6, <2>7 DEF LeftOut
  <1>15. ASSUME NEW k \in Straight, line.of = k, sync.at # "loading"
         PROVE  Known(k)'
    <2>0. k \in Keys
      BY <1>23
    <2>1. CASE pending'[k] # None \/ OnWay(k)'
      BY <2>1 DEF Known, UnderWay
    <2>2. CASE pending'[k] = None /\ ~OnWay(k)'
      <3>1. /\ queued'[k] = line.value
            /\ pending[k] = None \/ pending[k].value = line.value \/ Answers(k)
        BY <1>6, <1>15, <2>0, <2>2
      <3>2. Rest(k)' = line.value
        BY <1>3, <3>1, NoneIs DEF Rest
      <3>3. line.value = desk[k] \/ Crossed(k)
        BY <1>3, <1>4, <1>15, <2>2 DEF Inv, Told, Honest
      <3>4. CASE line.value = desk[k]
        BY <1>1, <3>2, <3>4 DEF Known
      <3>5. CASE EditOf(k)
        BY <1>9, <3>5 DEF Known, UnderWay
      <3>6. CASE Crossed(k) /\ ~EditOf(k)
        BY <3>1, <3>4, <3>6 DEF Crossed
      <3> QED  BY <3>3, <3>4, <3>5, <3>6
    <2> QED  BY <2>1, <2>2
  <1>16. ASSUME NEW k \in Keys, line.of # k
         PROVE  (Known(k) => Known(k)') /\ (Off(k) => Off(k)')
    <2>1. pending'[k] = pending[k] /\ OnWay(k)' = OnWay(k) /\ EditOf(k)' = EditOf(k) /\ desk' = desk
      BY <1>1, <1>4, <1>5, <1>9, <1>16 DEF OnWay, Holds
    <2>2. Rest(k)' = Rest(k)
      BY <1>1, <1>5, <1>16 DEF Rest, saved
    <2> QED  BY <2>1, <2>2 DEF Known, Off, UnderWay
  <1>26. ASSUME NEW k \in Keys, line.of # k, touch = "back", sync.at \in {"waiting", "ended", "flushed"}
         PROVE  UnderWay(k)' \/ (k \in Faders /\ desk'[k] = 0)
    <2>1. (k \in Faders /\ desk[k] = 0) \/ OnWay(k) \/ EditOf(k) \/ pending[k] # None
      BY <1>26 DEF Inv, Told, Recalled, SentSince
    <2>2. pending'[k] = pending[k] /\ (OnWay(k) => OnWay(k)') /\ EditOf(k)' = EditOf(k) /\ desk' = desk
      BY <1>1, <1>4, <1>5, <1>9, <1>26
    <2> QED  BY <2>1, <2>2 DEF UnderWay
  <1>17. Trusted'
    <2> SUFFICES ASSUME confidence = "aligned", sync.cause # Load, ~Doubt', NEW k \in (Keys \ doubted)'
                 PROVE  Known(k)'
      BY <1>1 DEF Trusted, saved
    <2>1. ~Doubt
      <3>1. marks' = NoMarks /\ ~(flushing # None /\ flushing.marks # NoMarks) /\ InTouch'
        BY <1>1 DEF Doubt
      <3>2. touch # "back"
        BY <1>1, <3>1 DEF NoMarks
      <3> QED  BY <1>1, <1>25, <3>1, <3>2 DEF Doubt
    <2>2. k \in Keys \ doubted /\ k \in Straight /\ k \in Keys
      BY <1>23
    <2>3. Known(k) /\ sync.at # "loading"
      BY <2>1, <2>2 DEF Inv, Told, Trusted, Safe, Shape
    <2> QED  BY <1>15, <1>16, <2>2, <2>3
  <1>18. Begun'
    <2> SUFFICES ASSUME sync.at = "begun", InTouch', NEW k \in (Straight \cap pull.seen)'
                 PROVE  Known(k)'
      BY <1>1 DEF Begun
    <2>1. pull.seen \in SUBSET Faders /\ pull'.seen = pull.seen \cup ({line.of} \cap Faders) /\ pull # None
      BY <1>2, LinesIs DEF Pulls, Inv, Safe
    <2>2. k \in Keys /\ k \in Straight /\ k \notin ks /\ (k \in pull.seen \/ line.of = k)
      BY <1>23, <2>1
    <2>3. k \in pull.seen => Known(k)
      <3>1. CASE InTouch
        BY <2>2, <3>1 DEF Inv, Told, Begun
      <3>2. CASE touch = "back"
        BY <1>21, <2>1, <2>2, <3>2 DEF Reads, Seen
      <3> QED  BY <1>25, <3>1, <3>2
    <2> QED  BY <1>15, <1>16, <2>2, <2>3
  <1>19. Waited'
    <2> SUFFICES ASSUME sync.at = "waiting", InTouch', NEW k \in Straight'
                 PROVE  Learned(k, pull.seen)'
      BY <1>1 DEF Waited
    <2>1. pull'.seen = pull.seen \cup ({line.of} \cap Faders) /\ pull # None
      BY <1>2 DEF Pulls
    <2>2. k \in Keys /\ k \in Straight /\ k \notin ks
      BY <1>23
    <2>3. CASE line.of = k
      <3>1. Known(k)'
        BY <1>15, <2>2, <2>3
      <3> QED  BY <2>1, <2>3, <3>1 DEF Learned
    <2>4. CASE line.of # k /\ InTouch
      <3>1. Learned(k, pull.seen)
        BY <2>2, <2>4 DEF Inv, Told, Waited
      <3> QED  BY <1>16, <2>1, <2>2, <2>4, <3>1 DEF Learned
    <2>5. CASE line.of # k /\ touch = "back"
      <3>1. k \notin pull.seen
        BY <1>21, <2>1, <2>2, <2>5 DEF Reads, Seen
      <3>2. UnderWay(k)' \/ (k \in Faders /\ desk'[k] = 0)
        BY <1>26, <2>2, <2>5
      <3> QED  BY <2>1, <2>5, <3>1, <3>2 DEF Learned, Known, Off
    <2> QED  BY <1>25, <2>3, <2>4, <2>5
  <1>20. Ended'
    <2> SUFFICES ASSUME Over', NEW k \in Straight' PROVE Learned(k, sync.seen)'
      BY DEF Ended
    <2>1. sync.at \in {"ended", "flushed"} /\ sync.complete /\ InTouch' /\ sync' = sync
      BY <1>1 DEF Over
    <2>2. k \in Keys /\ k \in Straight /\ k \notin ks
      BY <1>23
    <2>3. CASE line.of = k
      <3>1. Known(k)'
        BY <1>15, <2>1, <2>2, <2>3
      <3>2. k \notin Faders \ sync.seen
        BY <1>21, <2>1, <2>2, <2>3
      <3> QED  BY <2>1, <3>1, <3>2 DEF Learned
    <2>4. CASE line.of # k /\ InTouch
      <3>1. Learned(k, sync.seen)
        BY <2>1, <2>2, <2>4 DEF Inv, Told, Ended, Over
      <3> QED  BY <1>16, <2>1, <2>2, <2>4, <3>1 DEF Learned
    <2>5. CASE line.of # k /\ touch = "back"
      <3>1. pull = None
        BY <1>24, <2>1 DEF Pulls
      <3>2. k \notin sync.seen
        BY <1>21, <2>1, <2>2, <2>5, <3>1 DEF Reads, Seen
      <3>3. UnderWay(k)' \/ (k \in Faders /\ desk'[k] = 0)
        BY <1>26, <2>1, <2>2, <2>5
      <3> QED  BY <2>1, <2>5, <3>2, <3>3 DEF Learned, Known, Off
    <2> QED  BY <1>25, <2>1, <2>3, <2>4, <2>5
  <1>27. Written'
    <2> SUFFICES ASSUME sync.at = "flushed" \/ (flushing # None /\ flushing.by = "pull"),
                        NEW k \in Straight' \cap (Faders \ sync.seen)
                 PROVE  queued'[k] \in {None, 0}
      BY <1>1 DEF Written
    <2>1. sync.at \in {"ended", "flushed"}
      BY DEF Inv, Safe, Shape
    <2>2. k \in Keys /\ k \in Straight /\ k \notin ks
      BY <1>23
    <2>3. line.of # k
      BY <1>21, <2>1, <2>2
    <2>4. queued[k] \in {None, 0}
      BY <2>2 DEF Inv, Told, Written
    <2> QED  BY <1>5, <2>2, <2>3, <2>4
  <1>28. Recalled'
    BY <1>1 DEF Recalled
  <1> QED  BY <1>11, <1>12, <1>13, <1>14, <1>17, <1>18, <1>19, <1>20, <1>27, <1>28 DEF Told

LEMMA ServiceTold ==
  ASSUME Inv, Excused = Mishaps, Service
  PROVE  Told'
  <1> DEFINE asks == {Group(k) : k \in {k \in Keys : DueReadback(k)}}
  <1>1. /\ toApp = <<>>
        /\ UNCHANGED <<desk, hidden, touch, pull, saved, editing, flushing, sync>>
        /\ (\E k \in Keys : Expires(k)) => marks' # NoMarks
        /\ marks # NoMarks => marks' # NoMarks
    BY ServiceIs DEF Inv, Safe
  <1>2. \A k \in Keys :
           \/ ConfirmedByAbsence(k) /\ pending'[k] = None /\ queued'[k] = 0
           \/ ~ConfirmedByAbsence(k) /\ Expires(k) /\ pending'[k] = None /\ queued'[k] = queued[k]
           \/ /\ DueReadback(k) /\ queued'[k] = queued[k]
              /\ pending'[k] # None /\ pending'[k].asked = 0
              /\ pending'[k].value = pending[k].value /\ pending'[k].sent = pending[k].sent
              /\ outstanding'[Group(k)] # None /\ outstanding'[Group(k)].asked = 0
           \/ ~DueReadback(k) /\ pending'[k] = pending[k] /\ queued'[k] = queued[k]
    BY ServiceIs DEF Inv, Safe
  <1>3. \A g \in Groups : outstanding'[g] # None =>
           \/ g \in asks /\ outstanding'[g].asked = 0
           \/ g \notin asks /\ outstanding'[g] = outstanding[g]
    BY ServiceIs DEF Inv, Safe
  <1>4. \E s \in Seq(Lines) :
           /\ toApp' = IF Hears THEN s ELSE <<>>
           /\ \A k \in Keys : /\ (Group(k) \in asks /\ (k \in Switches \/ desk[k] > 0)) <=> Holds(s, k)
                              /\ \A v : Ends(s, k, v) => v = desk[k]
    BY ServiceIs DEF Inv, Safe
  <1>5. \A k \in Keys : DueReadback(k) => Group(k) \in asks
    OBVIOUS
  <1> HIDE DEF asks
  <1>9. Spares(ExpiresInPull)
    <2>1. Befalls(ExpiresInPull)
      BY ServiceIs DEF Inv, Safe
    <2> QED  BY <1>1, <2>1, BefallsSpares, SyncReads, HitsAre DEF Inv, Safe
  <1>15. ASSUME NEW k \in Straight', Reads, Expires(k)
         PROVE  pull # None /\ ~(pending[k].sent <= pull.started)
    <2>1. k \notin ExpiresInPull /\ k \in Keys
      BY <1>9, StraightIs DEF Spares, Inv, Safe
    <2> QED  BY <1>15, <2>1 DEF ExpiresInPull, Hit, Mishaps
  <1>21. /\ Straight' \subseteq Straight /\ Straight \subseteq Keys
         /\ (Keys \ doubted)' \subseteq Keys \ doubted /\ Keys \ doubted \subseteq Straight
    BY <1>9, StraightIs DEF Spares, Inv, Safe
  <1>23. touch # "back" /\ InTouch' = InTouch /\ (InTouch <=> touch # "out")
    BY <1>1, LinesIs DEF InTouch, Inv, Safe, Shape
  <1>6. /\ \A k : ~OnWay(k)
        /\ \A k \in Keys : \A v : Ends(toApp', k, v) => v = desk[k]
        /\ touch # "out" =>
              \A k \in Keys : Group(k) \in asks /\ (k \in Switches \/ desk[k] > 0) => OnWay(k)'
    BY <1>1, <1>4, EmptyIs DEF OnWay, Hears
  <1>7. /\ \A k : EditOf(k)' = EditOf(k)
        /\ \A k : Loading(k)' = Loading(k)
        /\ Pulls' = Pulls
    BY <1>1 DEF EditOf, Loading, Pulls
  <1>8. \A k \in Keys : pending'[k] # None => pending[k] # None /\ pending'[k].sent = pending[k].sent
    BY <1>2 DEF DueReadback
  <1>10. AskedAfter'
    <2> SUFFICES ASSUME NEW k \in Keys, pending'[k] # None, pending'[k].asked # None
                 PROVE  pending'[k].asked <= pending'[k].sent
      BY DEF AskedAfter
    <2>1. CASE pending'[k].asked = 0
      BY <1>8, <2>1, LinesIs DEF Inv, Safe
    <2>2. CASE pending'[k] = pending[k]
      BY <2>2 DEF Inv, Told, AskedAfter
    <2> QED  BY <1>2, <2>1, <2>2
  <1>11. Honest'
    BY <1>1, <1>6, <1>21 DEF Honest
  <1>12. Absent'
    <2> SUFFICES ASSUME touch # "out", NEW k \in Faders, pending'[k] # None, outstanding'[Submix] # None,
                        ReadBackAnswers(k)', ~Loading(k), ~OnWay(k)', ~EditOf(k)
                 PROVE  desk[k] = 0
      BY <1>1, <1>7 DEF Absent
    <2>1. k \in Keys /\ Group(k) = Submix /\ Submix \in Groups /\ desk[k] \in Nat
      BY LinesIs, KeysAre DEF Groups, Inv, Safe
    <2>2. CASE Submix \in asks
      BY <1>6, <2>1, <2>2
    <2>3. CASE Submix \notin asks
      <3>1. outstanding'[Submix] = outstanding[Submix]
        BY <1>3, <2>1, <2>3
      <3>2. ~DueReadback(k)
        BY <1>5, <2>1, <2>3
      <3>3. pending'[k] = pending[k]
        BY <1>2, <2>1, <3>2
      <3>4. ReadBackAnswers(k)
        BY <2>1, <3>1, <3>3 DEF ReadBackAnswers
      <3> QED  BY <1>6, <2>1, <3>1, <3>3, <3>4 DEF Inv, Told, Absent
    <2> QED  BY <2>2, <2>3
  <1>13. OlderSends'
    <2> SUFFICES ASSUME Pulls, NEW k \in Keys, pending'[k] # None,
                        pending'[k].sent > pull.started
                 PROVE  k \notin pull.seen /\ (sync.at = "waiting" /\ InTouch => LeftOut(k, pull.seen)')
      BY <1>1, <1>7, <1>23 DEF OlderSends
    <2>1. k \notin pull.seen /\ (sync.at = "waiting" /\ InTouch => LeftOut(k, pull.seen))
      BY <1>8 DEF Inv, Told, OlderSends
    <2> QED  BY <1>1, <1>6, <1>7, <2>1 DEF LeftOut
  <1>14. ASSUME NEW k \in Keys, touch # "out", ~Loading(k), ~Expires(k) \/ ConfirmedByAbsence(k)
         PROVE  (Known(k) => Known(k)') /\ (Off(k) => Off(k)')
    <2>1. CASE ConfirmedByAbsence(k) /\ pending'[k] = None /\ queued'[k] = 0
      <3>1. /\ k \in Faders /\ pending[k] # None /\ outstanding[Submix] # None
            /\ pending[k].asked # None /\ pending[k].asked >= outstanding[Group(k)].asked
        BY <2>1 DEF ConfirmedByAbsence, Quiet, ReadBackAnswers
      <3>2. desk[k] = 0 \/ EditOf(k)
        BY <1>6, <1>14, <3>1 DEF Inv, Told, Absent, ReadBackAnswers
      <3>3. Rest(k)' = 0
        BY <2>1, KeysAre, NoneIs DEF Rest
      <3> QED  BY <1>1, <1>7, <3>2, <3>3 DEF Known, Off, UnderWay
    <2>2. CASE pending'[k] # None
      BY <2>2 DEF Known, Off, UnderWay
    <2>3. CASE pending'[k] = pending[k] /\ queued'[k] = queued[k]
      <3>1. Rest(k)' = Rest(k)
        BY <1>1, <2>3 DEF Rest, saved
      <3> QED  BY <1>1, <1>6, <1>7, <2>3, <3>1 DEF Known, Off, UnderWay
    <2> QED  BY <1>2, <1>14, <2>1, <2>2, <2>3
  \* A send that expires in a pull was left out of its dump.
  <1>16. ASSUME NEW k \in Keys, NEW seen, ~ConfirmedByAbsence(k), Expires(k), LeftOut(k, seen)
         PROVE  Learned(k, seen)'
    <2>1. EditOf(k)' \/ (k \in Faders \ seen /\ desk'[k] = 0)
      BY <1>1, <1>6, <1>7, <1>16 DEF LeftOut
    <2> QED  BY <2>1 DEF Learned, Known, Off, UnderWay
  <1>17. Trusted'
    <2> SUFFICES ASSUME confidence = "aligned", sync.cause # Load, ~Doubt', NEW k \in (Keys \ doubted)'
                 PROVE  Known(k)'
      BY <1>1 DEF Trusted, saved
    <2>0. k \in Keys /\ k \in Keys \ doubted
      BY <1>21
    <2>1. ~Doubt /\ touch # "out" /\ ~Expires(k)
      BY <1>1, <1>23, <2>0 DEF Doubt
    <2>2. ~Loading(k)
      BY DEF Loading, Inv, Safe, Shape
    <2> QED  BY <1>14, <2>0, <2>1, <2>2 DEF Inv, Told, Trusted
  <1>18. Begun'
    <2> SUFFICES ASSUME sync.at = "begun", InTouch, NEW k \in Straight' \cap pull.seen
                 PROVE  Known(k)'
      BY <1>1, <1>23 DEF Begun
    <2>1. k \in Keys /\ k \in Straight
      BY <1>21
    <2>2. ~Loading(k)
      BY DEF Loading
    <2>3. ~Expires(k)
      <3>1. SUFFICES ASSUME Expires(k) PROVE FALSE
        OBVIOUS
      <3>2. pull # None /\ ~(pending[k].sent <= pull.started) /\ pending[k] # None
        BY <1>15, <3>1 DEF Reads, Expires
      <3>3. pending[k].sent \in Nat /\ pull.started \in Nat
        BY <2>1, <3>2, LinesIs DEF Inv, Safe
      <3>4. pending[k].sent > pull.started
        BY <3>2, <3>3
      <3> QED  BY <2>1, <3>2, <3>4 DEF Inv, Told, OlderSends, Pulls
    <2> QED  BY <1>14, <1>23, <2>1, <2>2, <2>3 DEF Inv, Told, Begun
  <1>19. Waited'
    <2> SUFFICES ASSUME sync.at = "waiting", InTouch, NEW k \in Straight'
                 PROVE  Learned(k, pull.seen)'
      BY <1>1, <1>23 DEF Waited
    <2>0. k \in Keys /\ k \in Straight
      BY <1>21
    <2>1. CASE ~Expires(k) \/ ConfirmedByAbsence(k)
      <3>1. ~Loading(k)
        BY DEF Loading
      <3>2. Learned(k, pull.seen)
        BY <2>0 DEF Inv, Told, Waited
      <3> QED  BY <1>1, <1>14, <1>23, <2>0, <2>1, <3>1, <3>2 DEF Learned
    <2>2. CASE Expires(k) /\ ~ConfirmedByAbsence(k)
      <3>1. pull # None /\ ~(pending[k].sent <= pull.started) /\ pending[k] # None
        BY <1>15, <2>2 DEF Reads, Expires
      <3>2. pull.started \in Nat /\ pending[k].sent \in Nat
        BY <2>0, <3>1, LinesIs DEF Inv, Safe
      <3>4. pending[k].sent > pull.started
        BY <3>1, <3>2
      <3>3. LeftOut(k, pull.seen)
        BY <2>0, <3>1, <3>4 DEF Inv, Told, OlderSends, Pulls
      <3> QED  BY <1>1, <1>16, <2>0, <2>2, <3>3 DEF Learned
    <2> QED  BY <2>1, <2>2
  <1>20. Ended'
    <2> SUFFICES ASSUME Over, NEW k \in Straight' PROVE Learned(k, sync.seen)'
      BY <1>1, <1>23 DEF Ended, Over
    <2>0. k \in Keys /\ k \in Straight
      BY <1>21
    <2>1. ~Expires(k)
      <3>1. pull = None
        BY DEF Over, Inv, Safe, Shape, Pulls
      <3> QED  BY <1>15, <3>1 DEF Over, Reads
    <2>2. ~Loading(k) /\ touch # "out"
      BY DEF Loading, Over, InTouch
    <2>3. Learned(k, sync.seen)
      BY <2>0 DEF Inv, Told, Ended
    <2> QED  BY <1>1, <1>14, <2>0, <2>1, <2>2, <2>3 DEF Learned
  <1>22. Written'
    <2> SUFFICES ASSUME sync.at = "flushed" \/ (flushing # None /\ flushing.by = "pull"),
                        NEW k \in Straight' \cap (Faders \ sync.seen)
                 PROVE  queued'[k] \in {None, 0}
      BY <1>1 DEF Written
    <2>1. queued[k] \in {None, 0} /\ k \in Keys
      BY <1>21 DEF Inv, Told, Written
    <2> QED  BY <1>2, <2>1
  <1>24. Recalled'
    BY <1>1, <1>23 DEF Recalled
  <1> QED  BY <1>10, <1>11, <1>12, <1>13, <1>17, <1>18, <1>19, <1>20, <1>22, <1>24 DEF Told

LEMMA TickTold ==
  ASSUME Inv, Tick
  PROVE  Told'
  <1>1. UNCHANGED <<desk, hidden, touch, toApp, queued, marks, saved, editing, flushing, sync, doubts>>
    BY TickIs DEF Inv, Safe
  <1>2. \A k \in Keys :
          /\ pending'[k] = None <=> pending[k] = None
          /\ pending[k] # None =>
               /\ pending'[k].sent = pending[k].sent + 1 /\ pending[k].sent \in Nat
               /\ pending'[k].value = pending[k].value
               /\ pending'[k].asked = None <=> pending[k].asked = None
               /\ pending[k].asked # None => /\ pending[k].asked \in Nat
                                             /\ pending'[k].asked = pending[k].asked + 1
    BY TickIs DEF Inv, Safe
  <1>3. \A g \in Groups :
          /\ outstanding'[g] = None <=> outstanding[g] = None
          /\ outstanding[g] # None =>
               outstanding[g].asked \in Nat /\ outstanding'[g].asked = outstanding[g].asked + 1
    BY TickIs DEF Inv, Safe
  <1>4. Pulls => /\ pull # None /\ pull.started \in Nat /\ pull'.started = pull.started + 1
                 /\ pull'.seen = pull.seen
    BY TickIs DEF Inv, Safe, Shape
  <1>13. ~Pulls => pull = None /\ pull' = None
    BY TickIs DEF Inv, Safe, Shape
  <1>5. /\ Pulls' = Pulls /\ \A k : EditOf(k)' = EditOf(k) /\ OnWay(k)' = OnWay(k)
        /\ \A k : Rest(k)' = Rest(k)
    BY <1>1 DEF Pulls, EditOf, OnWay, Rest, saved
  <1>7. AskedAfter'
    BY <1>2 DEF Inv, Told, AskedAfter
  <1>6. ASSUME NEW k \in Keys, pending[k] # None
        PROVE  Answers(k)' <=> Answers(k)
    <2>1. Group(k) \in Groups
      BY KeysAre
    <2>2. AskedByReadBack(outstanding[Group(k)], pending[k])' <=> AskedByReadBack(outstanding[Group(k)], pending[k])
      BY <1>2, <1>3, <1>6, <2>1 DEF AskedByReadBack
    <2>3. AskedByPull(pending[k])' <=> AskedByPull(pending[k])
      <3>1. CASE Pulls
        <4>1. pull'.started < pending'[k].sent <=> pull.started < pending[k].sent
          BY <1>2, <1>4, <1>6, <3>1
        <4>2. pull # None /\ pull' # None
          BY <1>4, <1>5, <3>1, TickIs DEF Inv, Safe
        <4> QED  BY <4>1, <4>2 DEF AskedByPull
      <3>2. CASE ~Pulls
        BY <1>13, <3>2 DEF AskedByPull
      <3> QED  BY <3>1, <3>2
    <2> QED  BY <2>2, <2>3 DEF Answers
  <1>12. Spares({}) /\ Straight' \subseteq Straight /\ Straight \subseteq Keys
    BY <1>1, SameSpares, SyncReads, StraightIs DEF Inv, Safe, Spares
  <1>8. Honest'
    <2> SUFFICES ASSUME sync.at # "loading", NEW k \in Straight, NEW v \in Values, Ends(toApp, k, v)
                 PROVE  v = desk[k] \/ Crossed(k)'
      BY <1>1, <1>12 DEF Honest
    <2>1. v = desk[k] \/ Crossed(k)
      BY DEF Inv, Told, Honest
    <2>2. Crossed(k) => Crossed(k)'
      BY <1>1, <1>2, <1>5, <1>6, <1>12 DEF Crossed
    <2> QED  BY <2>1, <2>2
  <1>9. Absent'
    <2> SUFFICES ASSUME touch # "out", NEW k \in Faders, pending'[k] # None, outstanding'[Submix] # None,
                        ReadBackAnswers(k)', ~Loading(k)'
                 PROVE  desk[k] = 0 \/ OnWay(k) \/ EditOf(k)
      BY <1>1, <1>5 DEF Absent
    <2>1. k \in Keys /\ Group(k) = Submix /\ Submix \in Groups
      BY KeysAre DEF Groups
    <2>2. pending[k] # None /\ outstanding[Submix] # None /\ pending'[k].asked # None
          /\ pending'[k].asked >= outstanding'[Submix].asked
      BY <1>2, <1>3, <2>1 DEF ReadBackAnswers
    <2>3. ReadBackAnswers(k)
      BY <1>2, <1>3, <2>1, <2>2 DEF ReadBackAnswers
    <2>4. ~Loading(k)
      BY <1>1, <1>4 DEF Loading, Pulls
    <2> QED  BY <2>2, <2>3, <2>4 DEF Inv, Told, Absent
  <1>10. OlderSends'
    <2> SUFFICES ASSUME Pulls, NEW k \in Keys, pending'[k] # None, pending'[k].sent > pull'.started
                 PROVE  k \notin pull'.seen /\ (sync.at = "waiting" /\ InTouch => LeftOut(k, pull.seen)')
      BY <1>1, <1>5 DEF OlderSends, InTouch
    <2>1. pending[k] # None /\ pending[k].sent > pull.started
      BY <1>2, <1>4
    <2>2. k \notin pull.seen /\ (sync.at = "waiting" /\ InTouch => LeftOut(k, pull.seen))
      BY <2>1 DEF Inv, Told, OlderSends
    <2> QED  BY <1>1, <1>4, <1>5, <2>2 DEF LeftOut
  <1>11. Written' /\ Trusted' /\ Begun' /\ Waited' /\ Ended'
    <2>1. \A k \in Keys : (Known(k) => Known(k)') /\ (Off(k) => Off(k)')
      BY <1>1, <1>2, <1>5 DEF Known, Off, UnderWay
    <2> QED  BY <1>1, <1>4, <1>12, <2>1, RestKeeps DEF saved
  <1>14. Recalled'
    <2> SUFFICES ASSUME touch = "back", sync.at \in {"waiting", "ended", "flushed"}, NEW k \in Keys,
                        SentSince(k)
                 PROVE  SentSince(k)'
      BY <1>1, <1>5 DEF Inv, Told, Recalled
    <2>1. pending[k] # None /\ (sync.at = "waiting" => pending[k].sent <= pull.started)
      BY DEF SentSince
    <2> QED  BY <1>1, <1>2, <1>4, <2>1 DEF SentSince, Pulls
  <1> QED  BY <1>7, <1>8, <1>9, <1>10, <1>11, <1>14 DEF Told
-----------------------------------------------------------------------------
\* Edits, flushes, and the pull's own steps.
LEMMA EditSendsTold ==
  ASSUME Inv, Excused = Mishaps, NEW j \in Keys, NEW v \in Values, EditSends(j, v)
  PROVE  Told'
  <1>1. /\ editing' # None /\ editing'.of = j /\ editing'.value = v /\ LockFree
        /\ UNCHANGED <<hidden, touch, toApp, link, saved, flushing, sync>>
        /\ \A k \in Keys \ {j} : desk'[k] = desk[k]
        /\ desk'[j] = IF Hears /\ j \notin hidden THEN v ELSE desk[j]
        /\ CrossedTwice(j) \subseteq {j} /\ Befalls(CrossedTwice(j))
        /\ j \notin CrossedTwice(j) => Alone(toApp, j) /\ (j \in hidden => ~OnWay(j))
    BY EditSendsIs DEF Inv, Safe
  <1>2. /\ UNCHANGED <<pending, outstanding, pull, queued, marks, confidence>>
        /\ \A k : EditOf(k)' <=> k = j
        /\ \A k : ~EditOf(k) /\ OnWay(k)' = OnWay(k) /\ Rest(k)' = Rest(k)
        /\ Pulls' = Pulls /\ \A k : Loading(k)' = Loading(k)
        /\ \A k : ReadBackAnswers(k)' = ReadBackAnswers(k)
    BY <1>1 DEF link, saved, EditOf, OnWay, Rest, LockFree, Pulls, Loading, ReadBackAnswers
  <1>3. AskedAfter'
    BY <1>2 DEF Inv, Told, AskedAfter
  <1>9. Spares(CrossedTwice(j))
    BY <1>1, BefallsSpares, SyncReads, HitsAre DEF Inv, Safe
  <1>10. /\ Straight' \subseteq Straight /\ Straight \subseteq Keys
         /\ \A k \in Straight' : k \notin CrossedTwice(j)
    BY <1>9, StraightIs DEF Spares, Inv, Safe
  <1>11. InTouch' = InTouch
    BY <1>1 DEF InTouch
  <1>4. Honest'
    <2> SUFFICES ASSUME sync.at # "loading", NEW k \in Straight', NEW w \in Values, Ends(toApp, k, w)
                 PROVE  w = desk'[k] \/ Crossed(k)'
      BY <1>1 DEF Honest
    <2>0. k \in Straight /\ k \in Keys
      BY <1>10
    <2>1. w = desk[k] \/ Crossed(k)
      BY <2>0 DEF Inv, Told, Honest
    <2>2. CASE k # j
      <3>1. Answers(k)' = Answers(k)
        BY <1>2 DEF Answers, AskedByReadBack, AskedByPull
      <3>2. Crossed(k) => Crossed(k)'
        BY <1>1, <1>2, <2>0, <2>2, <3>1 DEF Crossed
      <3> QED  BY <1>1, <2>0, <2>1, <2>2, <3>2
    <2>3. CASE k = j
      <3>1. OnWay(j) /\ Alone(toApp, j) /\ j \notin hidden
        BY <1>1, <1>10, <2>3, EndsOnWay DEF OnWay
      <3>2. Hears
        <4>1. toApp # <<>>
          BY EmptyIs
        <4> QED  BY <4>1 DEF Hears, Inv, Safe, Shape
      <3>3. desk'[j] = v
        BY <1>1, <3>1, <3>2
      <3> QED  BY <1>1, <1>2, <2>3, <3>1, <3>3 DEF Crossed
    <2> QED  BY <2>2, <2>3
  <1>5. Absent'
    <2> SUFFICES ASSUME touch # "out", NEW k \in Faders, pending[k] # None, outstanding[Submix] # None,
                        ReadBackAnswers(k), ~Loading(k), k # j
                 PROVE  desk'[k] = 0 \/ OnWay(k)
      BY <1>1, <1>2 DEF Absent
    <2>1. desk[k] = 0 \/ OnWay(k)
      BY <1>2 DEF Inv, Told, Absent
    <2> QED  BY <1>1, <2>1, KeysAre
  <1>6. OlderSends'
    <2> SUFFICES ASSUME Pulls, NEW k \in Keys, pending[k] # None, pending[k].sent > pull.started
                 PROVE  k \notin pull.seen /\ (sync.at = "waiting" /\ InTouch => LeftOut(k, pull.seen)')
      BY <1>1, <1>2, <1>11 DEF OlderSends
    <2>1. k \notin pull.seen /\ (sync.at = "waiting" /\ InTouch => LeftOut(k, pull.seen))
      BY DEF Inv, Told, OlderSends
    <2>2. LeftOut(k, pull.seen) => LeftOut(k, pull.seen)'
      BY <1>1, <1>2 DEF LeftOut
    <2> QED  BY <2>1, <2>2
  <1>7. \A k \in Keys : (Known(k) => Known(k)') /\ (Off(k) => Off(k)')
    BY <1>1, <1>2 DEF Known, Off, UnderWay
  <1>8. Written' /\ Trusted' /\ Begun' /\ Waited' /\ Ended'
    <2>1. InTouch => \A k \in Straight' : (Known(k) => Known(k)') /\ (Off(k) => Off(k)')
      BY <1>7, <1>10
    <2> HIDE DEF CrossedTwice
    <2> QED  BY <1>1, <1>2, <1>9, <2>1, RestKeeps
  <1>12. Recalled'
    <2> SUFFICES ASSUME touch = "back", sync.at \in {"waiting", "ended", "flushed"}, NEW k \in Keys, k # j
                 PROVE  (k \in Faders /\ desk'[k] = 0) \/ OnWay(k)' \/ SentSince(k)'
      BY <1>1, <1>2 DEF Recalled
    <2>1. (k \in Faders /\ desk[k] = 0) \/ OnWay(k) \/ SentSince(k)
      BY <1>2 DEF Inv, Told, Recalled
    <2> QED  BY <1>1, <1>2, <2>1 DEF SentSince
  <1> QED  BY <1>3, <1>4, <1>5, <1>6, <1>8, <1>12 DEF Told

LEMMA EditEndsTold ==
  ASSUME Inv, Excused = Mishaps, EditEnds
  PROVE  Told'
  <1> DEFINE j == editing.of
  <1>1. /\ editing # None /\ j \in Keys /\ editing' = None
        /\ \A k \in Keys \ {j} : pending'[k] = pending[k] /\ app'[k] = app[k]
        /\ pending'[j] # None /\ pending'[j].value = editing.value
        /\ pending'[j].sent = 0 /\ pending'[j].asked = None
        /\ UNCHANGED <<wires, outstanding, queued, pull, marks, confidence, flushing, sync>>
        /\ Befalls(Tied(j))
        /\ j \notin Tied(j) => ~OnWay(j) \/ ~AskedByReadBack(outstanding'[Group(j)], pending'[j])
    BY EditEndsIs DEF Inv, Safe
  <1>2. \A k : EditOf(k) <=> k = j
    BY <1>1 DEF EditOf
  <1> HIDE DEF j
  <1>3. /\ UNCHANGED <<desk, hidden, touch, toApp>>
        /\ \A k : ~EditOf(k)' /\ OnWay(k)' = OnWay(k)
        /\ Pulls' = Pulls /\ \A k : Loading(k)' = Loading(k)
        /\ \A k \in Keys \ {j} : ReadBackAnswers(k)' = ReadBackAnswers(k) /\ Rest(k)' = Rest(k)
    BY <1>1 DEF wires, EditOf, OnWay, Rest, Pulls, Loading, ReadBackAnswers
  <1>4. AskedAfter'
    BY <1>1, <1>3 DEF Inv, Told, AskedAfter
  <1>11. Spares(Tied(j))
    BY <1>1, BefallsSpares, SyncReads, HitsAre DEF Inv, Safe
  <1>12. /\ Straight' \subseteq Straight /\ Straight \subseteq Keys
         /\ \A k \in Straight' : k \notin Tied(j)
    BY <1>11, StraightIs DEF Spares, Inv, Safe
  <1>13. InTouch' = InTouch
    BY <1>3 DEF InTouch
  <1>5. Honest'
    <2> SUFFICES ASSUME sync.at # "loading", NEW k \in Straight', NEW w \in Values, Ends(toApp, k, w)
                 PROVE  w = desk[k] \/ Crossed(k)'
      BY <1>1, <1>3 DEF Honest
    <2>0. k \in Straight /\ k \in Keys
      BY <1>12
    <2>1. w = desk[k] \/ Crossed(k)
      BY <2>0 DEF Inv, Told, Honest
    <2>2. CASE k # j
      <3>1. Answers(k)' = Answers(k)
        BY <1>1, <2>0, <2>2 DEF Answers, AskedByReadBack, AskedByPull
      <3> QED  BY <1>1, <1>2, <1>3, <2>0, <2>1, <2>2, <3>1 DEF Crossed
    <2>3. CASE k = j
      <3>1. ~AskedByReadBack(outstanding[Group(k)], pending[k])'
        <4>1. ~AskedByReadBack(outstanding'[Group(k)], pending'[k])
          BY <1>1, <1>12, <2>3, EndsOnWay DEF OnWay
        <4> QED  BY <4>1 DEF AskedByReadBack
      <3>2. ~AskedByPull(pending[k])'
        <4>1. pull # None => pull.started \in Nat
          BY LinesIs DEF Inv, Safe
        <4> QED  BY <1>1, <2>3, <4>1 DEF AskedByPull
      <3>3. ~Answers(k)'
        BY <3>1, <3>2 DEF Answers
      <3> QED  BY <1>1, <1>2, <1>3, <2>1, <2>3, <3>3 DEF Crossed
    <2> QED  BY <2>2, <2>3
  <1>6. Absent'
    <2> SUFFICES ASSUME touch # "out", NEW k \in Faders, pending'[k] # None, outstanding[Submix] # None,
                        ReadBackAnswers(k)', ~Loading(k)
                 PROVE  desk[k] = 0 \/ OnWay(k)
      BY <1>1, <1>3 DEF Absent
    <2>1. k # j /\ k \in Keys
      BY <1>1, KeysAre DEF ReadBackAnswers
    <2>2. pending[k] # None /\ ReadBackAnswers(k) /\ ~EditOf(k)
      BY <1>1, <1>2, <1>3, <2>1
    <2> QED  BY <2>2 DEF Inv, Told, Absent
  <1>7. OlderSends'
    <2> SUFFICES ASSUME Pulls, NEW k \in Keys, pending'[k] # None, pending'[k].sent > pull.started
                 PROVE  k \notin pull.seen /\ (sync.at = "waiting" /\ InTouch => LeftOut(k, pull.seen)')
      BY <1>1, <1>3, <1>13 DEF OlderSends
    <2>1. k # j
      <3>1. pull.started \in Nat
        BY LinesIs DEF Inv, Safe, Shape
      <3> QED  BY <1>1, <3>1
    <2>2. k \notin pull.seen /\ (sync.at = "waiting" /\ InTouch => LeftOut(k, pull.seen))
      BY <1>1, <2>1 DEF Inv, Told, OlderSends
    <2> QED  BY <1>1, <1>2, <1>3, <2>1, <2>2 DEF LeftOut
  <1>8. ASSUME NEW k \in Keys
        PROVE  (Known(k) => Known(k)') /\ (Off(k) => Off(k)')
    <2>1. CASE k = j
      BY <1>1, <2>1 DEF Known, Off, UnderWay
    <2>2. CASE k # j
      BY <1>1, <1>2, <1>3, <2>2 DEF Known, Off, UnderWay
    <2> QED  BY <2>1, <2>2
  <1>9. Written' /\ Trusted' /\ Begun' /\ Waited' /\ Ended'
    <2>1. InTouch => \A k \in Straight' : (Known(k) => Known(k)') /\ (Off(k) => Off(k)')
      BY <1>8, <1>12
    <2> QED  BY <1>1, <1>3, <1>11, <2>1, RestKeeps
  <1>10. Recalled'
    <2> SUFFICES ASSUME touch = "back", sync.at \in {"waiting", "ended", "flushed"}, NEW k \in Keys
                 PROVE  (k \in Faders /\ desk[k] = 0) \/ OnWay(k) \/ SentSince(k)'
      BY <1>1, <1>3 DEF Recalled
    <2>1. CASE k = j
      <3>1. sync.at = "waiting" => pull.started \in Nat
        BY LinesIs DEF Inv, Safe, Shape, Pulls
      <3>2. sync.at = "waiting" => 0 <= pull.started
        BY <3>1
      <3> QED  BY <1>1, <2>1, <3>2 DEF SentSince
    <2>2. CASE k # j
      <3>1. (k \in Faders /\ desk[k] = 0) \/ OnWay(k) \/ SentSince(k)
        BY <1>2, <2>2 DEF Inv, Told, Recalled
      <3> QED  BY <1>1, <2>2, <3>1 DEF SentSince
    <2> QED  BY <2>1, <2>2
  <1> QED  BY <1>4, <1>5, <1>6, <1>7, <1>9, <1>10 DEF Told

LEMMA FlushTakesTold ==
  ASSUME Inv, FlushTakes
  PROVE  Told'
  <1>1. PICK by \in {"metering", "pull"} : Takes(by)
    BY TakesEither
  <1>2. /\ flushing' # None /\ flushing'.by = by /\ flushing'.marks = marks
        /\ \A k \in Keys : flushing'.reports[k] = IF pending[k] = None THEN queued[k] ELSE None
        /\ \A k \in Keys : queued'[k] = None
        /\ UNCHANGED <<wires, pending, outstanding, pull, saved, editing, sync, doubts>>
        /\ LockFree
    BY <1>1, TakesIs, TakesEither DEF Inv, Safe
  <1>3. /\ Straight' \subseteq Straight /\ Straight \subseteq Keys
        /\ (Keys \ doubted)' = Keys \ doubted
    BY <1>2, SyncReads, SameSpares, StraightIs DEF Spares, Inv, Safe, doubts
  <1>4. /\ UNCHANGED <<desk, touch, app, confidence>> /\ InTouch' = InTouch
        /\ \A k : EditOf(k)' = EditOf(k) /\ OnWay(k)' = OnWay(k)
    BY <1>2 DEF wires, saved, EditOf, OnWay, InTouch
  <1>5. AskedAfter' /\ Honest' /\ Absent' /\ OlderSends' /\ Recalled'
    BY <1>2, <1>3, WireSame
  <1>6. \A k \in Keys : (Known(k) => Known(k)') /\ (Off(k) => Off(k)')
    <2> SUFFICES ASSUME NEW k \in Keys PROVE (Known(k) => Known(k)') /\ (Off(k) => Off(k)')
      OBVIOUS
    <2>1. pending[k] = None => Rest(k)' = Rest(k)
      BY <1>2, <1>4 DEF Rest, LockFree
    <2> QED  BY <1>2, <1>4, <2>1 DEF Known, Off, UnderWay
  <1>7. \A k \in Keys : \A seen : Learned(k, seen) => Learned(k, seen)'
    BY <1>6 DEF Learned
  <1>8. Written'
    BY <1>2, <1>3 DEF Written
  <1>9. Doubt => Doubt'
    BY <1>2, <1>4 DEF Doubt, LockFree
  <1>10. Trusted'
    BY <1>2, <1>3, <1>4, <1>6, <1>9 DEF Inv, Told, Trusted
  <1>11. Begun'
    BY <1>2, <1>3, <1>4, <1>6 DEF Inv, Told, Begun
  <1>12. Waited'
    BY <1>2, <1>3, <1>4, <1>7 DEF Inv, Told, Waited
  <1>13. Over' = Over
    BY <1>2, <1>4 DEF Over
  <1>14. Ended'
    BY <1>2, <1>3, <1>7, <1>13 DEF Inv, Told, Ended
  <1> QED  BY <1>5, <1>8, <1>10, <1>11, <1>12, <1>14 DEF Told

LEMMA FlushWritesTold ==
  ASSUME Inv, FlushWrites
  PROVE  Told'
  <1>1. /\ flushing # None /\ editing = None /\ flushing' = None
        /\ \A k \in Keys : app'[k] = IF flushing.reports[k] = None THEN app[k] ELSE flushing.reports[k]
        /\ confidence' = ConfidenceAfter(flushing.marks)
        /\ UNCHANGED <<wires, link, editing, doubts>>
    BY FlushWritesIs DEF Inv, Safe
  <1>2. \/ flushing.by = "metering" /\ sync' = sync
        \/ /\ flushing.by = "pull" /\ sync.at = "ended" /\ sync'.at = "flushed"
           /\ sync'.cause = sync.cause /\ sync'.complete = sync.complete /\ sync'.seen = sync.seen
    BY <1>1, FlushWritesIs, GoesOnIs DEF Inv, Safe, Shape
  <1>3. /\ UNCHANGED <<desk, touch, pending, outstanding, queued, pull, marks>> /\ InTouch' = InTouch
        /\ \A k : EditOf(k)' = EditOf(k) /\ OnWay(k)' = OnWay(k)
    BY <1>1 DEF wires, link, EditOf, OnWay, InTouch
  <1>4. Reads' = Reads
    BY <1>2 DEF Reads
  <1>5. /\ Straight' \subseteq Straight /\ Straight \subseteq Keys
        /\ (Keys \ doubted)' = Keys \ doubted
    BY <1>1, <1>4, SameSpares, StraightIs DEF Spares, Inv, Safe, doubts
  <1>6. AskedAfter' /\ Honest' /\ Absent' /\ OlderSends' /\ Recalled'
    <2>1. flushing.by = "pull" => pull' = None
      BY <1>2, <1>3 DEF Inv, Safe, Shape, Pulls
    <2> QED  BY <1>1, <1>2, <1>3, <1>5, <2>1, WireSame
  <1>7. \A k \in Keys : (Known(k) => Known(k)') /\ (Off(k) => Off(k)')
    <2>1. \A k \in Keys : Rest(k)' = Rest(k)
      BY <1>1, <1>3 DEF Rest
    <2> QED  BY <1>3, <2>1 DEF Known, Off, UnderWay
  <1>8. \A k \in Keys : \A seen : Learned(k, seen) => Learned(k, seen)'
    BY <1>7 DEF Learned
  <1>9. Written'
    BY <1>1, <1>2, <1>3, <1>5 DEF Inv, Told, Written
  <1>10. Trusted'
    <2> SUFFICES ASSUME confidence' = "aligned", sync'.cause # Load
                 PROVE  Doubt' \/ \A k \in Keys \ doubted : Known(k)'
      BY <1>5 DEF Trusted
    <2>1. flushing.marks \in Marks
      BY <1>1 DEF Inv, Safe, TypeOK, Flushes
    <2>2. confidence = "aligned" /\ flushing.marks = NoMarks
      BY <1>1, <2>1 DEF ConfidenceAfter, Marks, NoMarks
    <2>3. Doubt => Doubt'
      BY <1>3, <2>2 DEF Doubt
    <2>4. sync.cause # Load
      BY <1>2
    <2> QED  BY <1>7, <2>2, <2>3, <2>4 DEF Inv, Told, Trusted
  <1>11. Begun'
    BY <1>2, <1>3, <1>5, <1>7 DEF Inv, Told, Begun
  <1>12. Waited'
    BY <1>2, <1>3, <1>5, <1>8 DEF Inv, Told, Waited
  <1>13. Over' => Over /\ sync'.seen = sync.seen
    BY <1>2, <1>3 DEF Over
  <1>14. Ended'
    BY <1>5, <1>8, <1>13 DEF Inv, Told, Ended
  <1> QED  BY <1>6, <1>9, <1>10, <1>11, <1>12, <1>14 DEF Told

LEMMA FlushFailsTold ==
  ASSUME Inv, Excused = Mishaps, FlushFails
  PROVE  Told'
  <1>1. /\ flushing # None /\ flushing' = None /\ marks' # NoMarks
        /\ UNCHANGED <<wires, pending, outstanding, queued, pull, saved, editing>>
        /\ flushing.by = "metering" => Befalls(LostInPull)
        /\ flushing.by = "pull" => doubted' = doubted /\ anew' = {}
    BY FlushFailsIs DEF Inv, Safe
  <1>2. \/ flushing.by = "metering" /\ sync' = sync
        \/ flushing.by = "pull" /\ sync.at = "ended" /\ sync' = Idle
    BY <1>1, FlushFailsIs, GoesOnIs DEF Inv, Safe, Shape
  <1>3. Trusted'
    BY <1>1 DEF Trusted, Doubt
  <1>4. CASE flushing.by = "pull"
    <2>1. sync.at = "ended" /\ sync'.at = "idle" /\ pull = None
      BY <1>2, <1>4, SyncType DEF Inv, Safe, Shape, Pulls
    <2>2. Straight' \subseteq Straight
      BY <1>1, <1>4, <2>1 DEF Straight, Reads, Inv, Safe, Noted
    <2>3. AskedAfter' /\ Honest' /\ Absent' /\ OlderSends' /\ Recalled'
      BY <1>1, <2>1, <2>2, WireSame
    <2>4. Written' /\ Begun' /\ Waited' /\ Ended'
      BY <1>1, <2>1 DEF Written, Begun, Waited, Ended, Over
    <2> QED  BY <1>3, <2>3, <2>4 DEF Told
  <1>5. CASE flushing.by = "metering"
    <2>1. UNCHANGED sync /\ Befalls(LostInPull)
      BY <1>1, <1>2, <1>5
    <2>2. Spares(LostInPull)
      BY <2>1, BefallsSpares, SyncReads, HitsAre DEF Inv, Safe
    <2>3. /\ Straight' \subseteq Straight /\ Straight \subseteq Keys
          /\ \A k \in Straight' : k \notin LostInPull
      BY <2>2, StraightIs DEF Spares, Inv, Safe
    <2>4. AskedAfter' /\ Honest' /\ Absent' /\ OlderSends' /\ Recalled'
      BY <1>1, <2>1, <2>3, WireSame
    <2>5. /\ UNCHANGED <<desk, touch, app, pull, queued>> /\ InTouch' = InTouch
          /\ \A k : EditOf(k)' = EditOf(k) /\ OnWay(k)' = OnWay(k)
      BY <1>1 DEF wires, saved, EditOf, OnWay, InTouch
    <2>6. ASSUME Reads, NEW k \in Straight'
          PROVE  (Known(k) => Known(k)') /\ (Off(k) => Off(k)') /\ k \in Straight
      <3>1. k \in Keys /\ k \notin LostInPull
        BY <2>3
      <3>2. flushing.reports[k] = None
        BY <2>6, <3>1 DEF LostInPull, Hit, Mishaps
      <3>3. Rest(k)' = Rest(k)
        BY <1>1, <2>5, <3>2 DEF Rest
      <3> QED  BY <1>1, <2>3, <2>5, <3>3 DEF Known, Off, UnderWay
    <2>7. ASSUME Reads, NEW k \in Straight', NEW seen, Learned(k, seen)
          PROVE  Learned(k, seen)'
      BY <2>6, <2>7 DEF Learned
    <2>8. Written'
      BY <1>1, <2>1, <2>3, <2>5 DEF Inv, Told, Written
    <2>9. Begun'
      BY <2>1, <2>5, <2>6 DEF Inv, Told, Begun, Reads
    <2>10. Waited'
      BY <2>1, <2>3, <2>5, <2>7 DEF Inv, Told, Waited, Reads
    <2>11. Over' => Over /\ Reads
      BY <2>1, <2>5 DEF Over, Reads
    <2>12. Ended'
      BY <2>1, <2>3, <2>7, <2>11 DEF Inv, Told, Ended
    <2> QED  BY <1>3, <2>4, <2>8, <2>9, <2>10, <2>12 DEF Told
  <1> QED  BY <1>2, <1>4, <1>5

LEMMA LoadGoesOutTold ==
  ASSUME Inv, LoadGoesOut
  PROVE  Told'
  <1>1. /\ UNCHANGED <<hidden, touch, toApp, link, saved, editing, flushing>>
        /\ sync.at = "idle" /\ sync'.at = "loading" /\ sync'.cause = Load
    BY SyncType DEF LoadGoesOut, Idle
  <1>2. AskedAfter'
    BY <1>1 DEF Inv, Told, AskedAfter, link
  <1>3. flushing # None => flushing.by # "pull"
    BY <1>1 DEF Inv, Safe, Shape
  <1>4. Written' /\ Honest' /\ Absent' /\ Trusted' /\ Begun' /\ Waited' /\ Ended' /\ OlderSends' /\ Recalled'
    BY <1>1, <1>3 DEF Written, Pulls, Honest, Absent, Loading, Trusted, Begun, Waited, Ended,
                      OlderSends, Recalled, Over
  <1> QED  BY <1>2, <1>4 DEF Told

\* A pull doubts again what its own request cannot tell apart.
LEMMA PullBeginsTold ==
  ASSUME Inv, Excused = Mishaps, PullBegins
  PROVE  Told'
  <1>1. /\ pull' = [started |-> 0, last |-> None, seen |-> {}]
        /\ UNCHANGED <<wires, pending, outstanding, queued, marks, saved, editing, flushing>>
        /\ doubted' = doubted \cup Unread
        /\ anew' = Unread \cup {k \in doubted : OnTheirWay(k) > 0}
    BY DEF PullBegins
  <1>2. /\ pull'.started = 0 /\ pull'.seen = {}
        /\ UNCHANGED <<desk, hidden, touch, toApp, app, confidence>>
    BY <1>1 DEF wires, saved
  <1>3. /\ sync'.at = "begun"
        /\ \/ sync.at = "idle" /\ sync.cause = None /\ sync'.cause = Dump
           \/ sync.at = "loading" /\ sync.cause = Load /\ sync'.cause = Load
    <2>1. CASE sync = Idle /\ sync' = [Idle EXCEPT !.at = "begun", !.cause = Dump]
      BY <2>1 DEF Idle
    <2>2. CASE sync.at = "loading" /\ sync' = [sync EXCEPT !.at = "begun"]
      <3>1. sync'.at = "begun" /\ sync'.cause = sync.cause
        BY <2>2, LinesIs, SyncType DEF Inv, Safe
      <3> QED  BY <2>2, <3>1 DEF Inv, Safe, Shape
    <2> QED  BY <2>1, <2>2 DEF PullBegins
  <1>4. Load \notin {Dump, None}
    BY ConsoleAssumption
  <1>5. /\ \A k : EditOf(k)' = EditOf(k) /\ OnWay(k)' = OnWay(k)
        /\ \A k : ReadBackAnswers(k)' = ReadBackAnswers(k) /\ Rest(k)' = Rest(k)
    BY <1>1, <1>2 DEF EditOf, OnWay, ReadBackAnswers, Rest
  <1>6. flushing # None => flushing.by # "pull"
    BY <1>3 DEF Inv, Safe, Shape
  <1>7. Written' /\ Begun' /\ Waited' /\ Ended' /\ OlderSends' /\ Recalled'
    BY <1>1, <1>2, <1>3, <1>6 DEF Written, Begun, Waited, Ended, Over, OlderSends, Recalled
  <1>8. AskedAfter'
    BY <1>1 DEF Inv, Told, AskedAfter
  <1>9. Straight' = Keys \ anew'
    BY <1>3 DEF Straight, Reads
  <1>10. ASSUME NEW k \in Straight', OnWay(k)
         PROVE  k \in Keys \ doubted /\ sync.at = "idle" /\ (pending[k] # None => pending[k].sent = 0)
    <2>1. k \in Keys /\ k \notin Unread /\ ~(k \in doubted /\ OnTheirWay(k) > 0)
      BY <1>1, <1>9
    <2>2. OnTheirWay(k) > 0
      <3>1. OnTheirWay(k) \in Nat /\ (OnTheirWay(k) = 0 => ~OnWay(k))
        BY <2>1, LinesIs, OnTheirWayIs DEF Inv, Safe
      <3> QED  BY <1>10, <3>1
    <2>3. ~(sync.at = "loading" \/ (pending[k] # None /\ pending[k].sent > 0))
      BY <2>1, <2>2 DEF Unread, Hit, Mishaps
    <2>4. pending[k] # None => pending[k].sent \in Nat
      BY <2>1, LinesIs DEF Inv, Safe
    <2>5. pending[k] # None => pending[k].sent = 0
      BY <2>3, <2>4
    <2> QED  BY <1>3, <2>1, <2>2, <2>3, <2>5
  <1>11. Honest'
    <2> SUFFICES ASSUME NEW k \in Straight', NEW v \in Values, Ends(toApp, k, v)
                 PROVE  v = desk[k] \/ Crossed(k)'
      BY <1>2 DEF Honest
    <2>1. OnWay(k)
      BY EndsOnWay DEF OnWay
    <2>2. k \in Keys \ doubted /\ sync.at = "idle" /\ (pending[k] # None => pending[k].sent = 0)
      BY <1>10, <2>1
    <2>3. k \in Straight
      BY <2>2 DEF Straight, Reads
    <2>4. v = desk[k] \/ Crossed(k)
      BY <2>2, <2>3 DEF Inv, Told, Honest
    <2>5. pending[k] # None /\ Answers(k)' => Answers(k)
      <3>1. pending[k] # None => ~AskedByPull(pending[k])'
        BY <1>1, <1>2, <2>2 DEF AskedByPull
      <3> QED  BY <1>1, <3>1 DEF Answers, AskedByReadBack
    <2>6. Crossed(k) => Crossed(k)'
      BY <1>1, <1>2, <1>5, <2>5 DEF Crossed
    <2> QED  BY <2>4, <2>6
  <1>12. Absent'
    <2>1. \A k : Loading(k) => Loading(k)'
      BY <1>2, <1>3 DEF Loading
    <2> QED  BY <1>1, <1>2, <1>5, <2>1 DEF Inv, Told, Absent
  <1>13. Trusted'
    <2>1. Doubt' = Doubt /\ \A k \in Keys : Known(k)' = Known(k)
      BY <1>1, <1>2, <1>5 DEF Doubt, InTouch, Known, UnderWay
    <2> QED  BY <1>1, <1>2, <1>3, <1>4, <2>1 DEF Inv, Told, Trusted
  <1> QED  BY <1>7, <1>8, <1>11, <1>12, <1>13 DEF Told

LEMMA PullAsksTold ==
  ASSUME Inv, PullAsks
  PROVE  Told'
  <1>1. /\ UNCHANGED <<desk, hidden, touch, link, saved, editing, flushing, doubts>>
        /\ toApp' = IF Hears THEN toApp \o TheDump ELSE toApp
        /\ sync.at = "begun" /\ sync' = [sync EXCEPT !.at = "waiting"]
    BY DEF PullAsks, DeskAnswers
  <1>2. sync'.at = "waiting" /\ sync'.cause = sync.cause
    BY <1>1, LinesIs, SyncType DEF Inv, Safe
  <1>3. toApp \in Seq(Lines) /\ desk \in [Keys -> Values]
    BY LinesIs DEF Inv, Safe
  <1>4. /\ TheDump \in Seq(Lines)
        /\ \A k \in Keys : Holds(TheDump, k) <=> (k \in Switches \/ desk[k] > 0)
        /\ \A k \in Keys : \A v : Ends(TheDump, k, v) => v = desk[k]
    BY <1>3, DumpIs
  <1>5. ASSUME NEW k \in Keys, NEW v
        PROVE  /\ Hears => (OnWay(k)' <=> OnWay(k) \/ Holds(TheDump, k))
               /\ Ends(toApp', k, v) => v = desk[k] \/ (Ends(toApp, k, v) /\ (Alone(toApp, k) => Alone(toApp', k)))
    <2> DEFINE t == TheDump
    <2>1. t \in Seq(Lines) /\ (Ends(t, k, v) => v = desk[k])
      BY <1>4
    <2> HIDE DEF t
    <2>2. /\ Holds(toApp \o t, k) <=> Holds(toApp, k) \/ Holds(t, k)
          /\ Ends(toApp \o t, k, v) => Ends(t, k, v) \/ (~Holds(t, k) /\ Ends(toApp, k, v))
          /\ ~Holds(t, k) /\ Alone(toApp, k) => Alone(toApp \o t, k)
      BY <1>3, <2>1, JoinHolds
    <2>3. toApp' = IF Hears THEN toApp \o t ELSE toApp
      BY <1>1 DEF t
    <2> QED  BY <2>1, <2>2, <2>3 DEF OnWay, t
  <1>6. touch # "out" => \A k \in Keys : OnWay(k)' \/ (k \in Faders /\ desk'[k] = 0)
    <2> SUFFICES ASSUME touch # "out", NEW k \in Keys, ~OnWay(k)' PROVE k \in Faders /\ desk'[k] = 0
      OBVIOUS
    <2>1. ~(k \in Switches \/ desk[k] > 0)
      BY <1>4, <1>5 DEF Hears
    <2>2. desk[k] \in Nat /\ (k \in Faders \/ k \in Switches)
      BY <1>3, KeysAre
    <2> QED  BY <1>1, <2>1, <2>2
  <1>7. \A k \in Keys : OnWay(k) => OnWay(k)'
    <2>1. CASE Hears
      BY <1>5, <2>1
    <2>2. CASE ~Hears
      BY <1>1, <2>2 DEF OnWay
    <2> QED  BY <2>1, <2>2
  <1>8. AskedAfter' /\ Absent' /\ OlderSends' /\ Recalled'
    BY <1>1, <1>2, <1>6, <1>7, DeskKeeps
  <1>9. /\ Straight' \subseteq Straight /\ Straight \subseteq Keys
        /\ (Keys \ doubted)' = Keys \ doubted
    <2>1. Reads' = Reads
      BY <1>1, <1>2 DEF Reads
    <2> QED  BY <1>1, <2>1, SameSpares, StraightIs DEF Spares, Inv, Safe, doubts
  <1>10. Honest'
    <2> SUFFICES ASSUME NEW k \in Straight', NEW v \in Values, Ends(toApp', k, v)
                 PROVE  v = desk[k] \/ Crossed(k)'
      BY <1>1 DEF Honest
    <2>1. CASE v = desk[k]
      BY <2>1
    <2>2. CASE Ends(toApp, k, v) /\ (Alone(toApp, k) => Alone(toApp', k))
      <3>1. v = desk[k] \/ Crossed(k)
        BY <1>1, <1>9, <2>2 DEF Inv, Told, Honest
      <3>2. Answers(k)' = Answers(k)
        BY <1>1 DEF Answers, AskedByReadBack, AskedByPull, link
      <3>3. Crossed(k) => Crossed(k)'
        BY <1>1, <2>2, <3>2 DEF Crossed, EditOf, link
      <3> QED  BY <3>1, <3>3
    <2>3. k \in Keys
      BY <1>9
    <2> QED  BY <1>5, <2>1, <2>2, <2>3
  <1>11. ASSUME NEW k \in Keys
         PROVE  (Known(k) => Known(k)') /\ (Off(k) => Off(k)')
    <2>1. Rest(k)' = Rest(k) /\ EditOf(k)' = EditOf(k) /\ pending' = pending
      BY <1>1 DEF Rest, EditOf, link, saved
    <2> QED  BY <1>1, <1>7, <2>1 DEF Known, Off, UnderWay
  <1>12. flushing # None => flushing.by # "pull"
    BY <1>1 DEF Inv, Safe, Shape
  <1>13. Written' /\ Begun' /\ Ended'
    BY <1>1, <1>2, <1>12 DEF Written, Begun, Ended, Over
  <1>14. Trusted'
    <2>1. Doubt' = Doubt
      BY <1>1 DEF Doubt, InTouch, link
    <2> QED  BY <1>1, <1>2, <1>9, <1>11, <2>1 DEF Inv, Told, Trusted, saved
  <1>15. Waited'
    <2> SUFFICES ASSUME InTouch, NEW k \in Straight' PROVE Learned(k, pull.seen)'
      BY <1>1 DEF Waited, InTouch
    <2>1. pull' = pull
      BY <1>1 DEF link
    <2>2. k \in pull.seen => Known(k)'
      BY <1>1, <1>9, <1>11 DEF Inv, Told, Begun
    <2>3. OnWay(k)' \/ (k \in Faders /\ desk'[k] = 0)
      BY <1>6, <1>9 DEF InTouch
    <2> QED  BY <2>1, <2>2, <2>3 DEF Learned, Known, Off, UnderWay
  <1> QED  BY <1>8, <1>10, <1>13, <1>14, <1>15 DEF Told

LEMMA PullEndsTold ==
  ASSUME Inv, PullEnds
  PROVE  Told'
  <1>1. /\ sync.at = "waiting" /\ pull' = None
        /\ sync' = [sync EXCEPT !.at = "ended", !.complete = Complete, !.seen = pull.seen]
        /\ UNCHANGED <<wires, pending, outstanding, queued, marks, saved, editing, flushing, doubts>>
    BY DEF PullEnds
  <1>2. sync'.at = "ended" /\ sync'.complete = Complete /\ sync'.seen = pull.seen /\ sync'.cause = sync.cause
    BY <1>1, LinesIs DEF Syncs, Inv, Safe
  <1>3. /\ Straight' \subseteq Straight /\ Straight \subseteq Keys
        /\ (Keys \ doubted)' = Keys \ doubted
    <2>1. Reads' = Reads
      BY <1>1, <1>2 DEF Reads
    <2> QED  BY <1>1, <2>1, SameSpares, StraightIs DEF Spares, Inv, Safe, doubts
  <1>4. AskedAfter' /\ Honest' /\ Absent' /\ OlderSends' /\ Recalled'
    BY <1>1, <1>2, <1>3, WireSame
  <1>5. /\ UNCHANGED <<desk, touch, app, confidence>> /\ InTouch' = InTouch
        /\ \A k : EditOf(k)' = EditOf(k) /\ OnWay(k)' = OnWay(k) /\ Rest(k)' = Rest(k)
    BY <1>1 DEF wires, saved, EditOf, OnWay, Rest, InTouch
  <1>6. Doubt' = Doubt /\ \A k \in Keys : Known(k)' = Known(k) /\ Off(k)' = Off(k)
    BY <1>1, <1>5 DEF Doubt, Known, Off, UnderWay
  <1>7. flushing # None => flushing.by # "pull"
    BY <1>1 DEF Inv, Safe, Shape
  <1>8. Written' /\ Begun' /\ Waited'
    BY <1>1, <1>2, <1>7 DEF Written, Begun, Waited
  <1>9. Trusted'
    BY <1>2, <1>3, <1>5, <1>6 DEF Inv, Told, Trusted
  <1>10. Ended'
    <2> SUFFICES ASSUME InTouch, NEW k \in Straight' PROVE Learned(k, sync.seen)'
      BY <1>5 DEF Ended, Over
    <2>1. Learned(k, pull.seen) /\ k \in Keys
      BY <1>1, <1>3 DEF Inv, Told, Waited
    <2> QED  BY <1>2, <1>6, <2>1 DEF Learned
  <1> QED  BY <1>4, <1>8, <1>9, <1>10 DEF Told

LEMMA PullHasNothingTold ==
  ASSUME Inv, PullHasNothing
  PROVE  Told'
  <1>1. /\ sync.at = "ended" /\ sync' = [sync EXCEPT !.at = "flushed"] /\ ~HasActivity
        /\ UNCHANGED <<wires, link, saved, editing, flushing, doubts>>
    BY DEF PullHasNothing
  <1>2. sync'.at = "flushed" /\ sync'.complete = sync.complete /\ sync'.seen = sync.seen /\ sync'.cause = sync.cause
    BY <1>1, LinesIs, SyncType DEF Inv, Safe
  <1>3. UNCHANGED <<desk, touch, pending, outstanding, queued, pull, marks, app, confidence>> /\ InTouch' = InTouch
    BY <1>1 DEF wires, link, saved, InTouch
  <1>4. /\ Straight' \subseteq Straight /\ Straight \subseteq Keys
        /\ (Keys \ doubted)' = Keys \ doubted
    <2>1. Reads' = Reads
      BY <1>1, <1>2 DEF Reads
    <2> QED  BY <1>1, <2>1, SameSpares, StraightIs DEF Spares, Inv, Safe, doubts
  <1>5. AskedAfter' /\ Honest' /\ Absent' /\ OlderSends' /\ Recalled'
    <2>1. pull' = None
      BY <1>1, <1>3 DEF Inv, Safe, Shape, Pulls
    <2> QED  BY <1>1, <1>2, <1>3, <1>4, <2>1, WireSame
  <1>6. \A k : EditOf(k)' = EditOf(k) /\ OnWay(k)' = OnWay(k) /\ Rest(k)' = Rest(k)
    BY <1>1, <1>3 DEF wires, EditOf, OnWay, Rest
  <1>7. Doubt' = Doubt /\ \A k \in Keys : Known(k)' = Known(k) /\ Off(k)' = Off(k)
    BY <1>1, <1>3, <1>6 DEF Doubt, Known, Off, UnderWay
  <1>8. Written'
    BY <1>1, <1>3, <1>4 DEF Written, HasActivity
  <1>9. Begun' /\ Waited'
    BY <1>2 DEF Begun, Waited
  <1>10. Trusted'
    BY <1>2, <1>3, <1>4, <1>7 DEF Inv, Told, Trusted
  <1>11. Over' => Over
    BY <1>1, <1>2, <1>3 DEF Over
  <1>12. Ended'
    BY <1>2, <1>4, <1>7, <1>11 DEF Inv, Told, Ended, Learned
  <1> QED  BY <1>5, <1>8, <1>9, <1>10, <1>12 DEF Told

\* A pull is over: what it read is all there is, or the Console does not say so.
LEMMA PullOverTold ==
  ASSUME Inv, Excused = Mishaps, PullAligns \/ PullFails \/ PullUnwritten
  PROVE  Told'
  <1>1. /\ sync.at = "flushed" /\ sync' = Idle /\ LockFree
        /\ UNCHANGED <<wires, link, editing, flushing>>
    BY DEF PullAligns, PullFails, PullUnwritten
  <1>2. sync'.at = "idle" /\ sync'.cause = None
    BY <1>1, SyncType
  <1>3. /\ UNCHANGED <<desk, touch, pending, outstanding, queued, pull, marks>>
        /\ \A k : EditOf(k)' = EditOf(k) /\ OnWay(k)' = OnWay(k)
        /\ Doubt' = Doubt
    BY <1>1 DEF wires, link, EditOf, OnWay, Doubt, InTouch
  <1>4. /\ anew \subseteq doubted /\ Straight = Keys \ anew
        /\ Straight' = Keys \ doubted'
    BY <1>1, <1>2 DEF Inv, Safe, Noted, Straight, Reads
  <1>5. anew \subseteq doubted'
    BY <1>4 DEF PullAligns, PullFails, PullUnwritten
  <1>6. AskedAfter' /\ Honest' /\ Absent' /\ OlderSends' /\ Recalled'
    <2>1. pull' = None
      BY <1>1, <1>3 DEF Inv, Safe, Shape, Pulls
    <2>2. Straight' \subseteq Straight
      BY <1>4, <1>5
    <2> QED  BY <1>1, <1>2, <1>3, <2>1, <2>2, WireSame
  <1>7. Written' /\ Begun' /\ Waited' /\ Ended'
    BY <1>1, <1>2 DEF Written, LockFree, Begun, Waited, Ended, Over
  <1>8. ASSUME PullAligns PROVE Trusted'
    <2> SUFFICES ASSUME ~Doubt, NEW k \in (Keys \ doubted)' PROVE Known(k)'
      BY <1>3 DEF Trusted
    <2>1. k \in Straight /\ k \in Keys
      BY <1>4, <1>5
    <2>2. sync.complete /\ app'[k] = IF k \in Faders \ sync.seen THEN 0 ELSE app[k]
      BY <1>8, <2>1 DEF PullAligns, AbsentOff
    <2>3. Over
      BY <1>1, <2>2 DEF Over, Doubt
    <2>4. Learned(k, sync.seen)
      BY <2>1, <2>3 DEF Inv, Told, Ended
    <2>5. flushing = None /\ (k \in Faders \ sync.seen => queued[k] \in {None, 0})
      BY <1>1, <2>1 DEF Inv, Told, Written, LockFree
    <2>6. CASE UnderWay(k)
      BY <1>3, <2>6 DEF Known, UnderWay
    <2>7. CASE ~UnderWay(k) /\ k \in Faders \ sync.seen
      <3>1. desk[k] = 0
        BY <2>4, <2>7 DEF Learned, Off
      <3>2. Rest(k)' = 0
        BY <1>1, <1>3, <2>2, <2>5, <2>7 DEF Rest
      <3> QED  BY <1>3, <3>1, <3>2 DEF Known
    <2>8. CASE ~UnderWay(k) /\ k \notin Faders \ sync.seen
      <3>1. Rest(k) = desk[k]
        BY <2>4, <2>8 DEF Learned, Known
      <3>2. Rest(k)' = Rest(k)
        BY <1>1, <1>3, <2>2, <2>5, <2>8 DEF Rest
      <3> QED  BY <1>3, <3>1, <3>2 DEF Known
    <2> QED  BY <2>6, <2>7, <2>8
  <1>9. ASSUME PullFails PROVE Trusted'
    BY <1>9 DEF PullFails, Trusted
  <1>10. ASSUME PullUnwritten PROVE Trusted'
    <2>1. /\ doubted' = doubted \cup (IF sync.cause = Load THEN Keys ELSE {})
          /\ UNCHANGED <<app, confidence>>
      BY <1>10 DEF PullUnwritten, saved, Hit, Mishaps
    <2>2. \A k \in Keys : Known(k)' = Known(k)
      BY <1>1, <1>3, <2>1 DEF Known, UnderWay, Rest
    <2>3. CASE sync.cause = Load
      BY <2>1, <2>3 DEF Trusted
    <2>4. CASE sync.cause # Load
      BY <1>3, <2>1, <2>2, <2>4 DEF Inv, Told, Trusted
    <2> QED  BY <2>3, <2>4
  <1>11. Trusted'
    BY <1>8, <1>9, <1>10
  <1> QED  BY <1>6, <1>7, <1>11 DEF Told

LEMMA RestartTold ==
  ASSUME Inv, Restart
  PROVE  Told'
  <1>1. /\ toApp' = <<>> /\ \A k \in Keys : pending'[k] = None
        /\ flushing' = None /\ sync' = Idle /\ confidence' # "aligned" /\ doubted' = {}
    BY DEF Restart, ConfidenceAtStart
  <1>2. sync'.at = "idle"
    BY <1>1, SyncType
  <1>3. Straight' \subseteq Keys
    BY DEF Straight
  <1> QED  BY <1>1, <1>2, <1>3, EmptyIs, KeysAre
           DEF Told, Written, Pulls, AskedAfter, Honest, Absent, Trusted, Begun, Waited, Ended,
               Over, OlderSends, Recalled

-----------------------------------------------------------------------------
\* The invariant is inductive, and an aligned Console is true.
LEMMA InitTold == Init => Told
  <1> SUFFICES ASSUME Init PROVE Told
    OBVIOUS
  <1>1. /\ toApp = <<>> /\ \A k \in Keys : pending[k] = None /\ queued[k] = None
        /\ flushing = None /\ sync = Idle /\ app = desk
    BY DEF Init, NoReports
  <1>2. sync.at = "idle"
    BY <1>1, SyncType
  <1>3. Trusted
    BY <1>1 DEF Trusted, Known, Rest
  <1>4. Straight \subseteq Keys
    BY DEF Straight
  <1> QED  BY <1>1, <1>2, <1>3, <1>4, EmptyIs, KeysAre
           DEF Told, Written, Pulls, AskedAfter, Honest, Absent, Begun, Waited, Ended,
               Over, OlderSends, Recalled

LEMMA NextTold ==
  ASSUME Excused = Mishaps, Inv, [Next]_vars
  PROVE  Told'
  <1>1. CASE DeskStep
    BY <1>1, TurnsTold, HidesTold, LosesTold, GoesOutTold, ComesBackTold DEF DeskStep
  <1>2. CASE Metering
    BY <1>2, IngestTold, ServiceTold, TickTold DEF Metering
  <1>3. CASE Edit
    BY <1>3, EditSendsTold, EditEndsTold DEF Edit
  <1>4. CASE Flush
    BY <1>4, FlushTakesTold, FlushWritesTold, FlushFailsTold DEF Flush
  <1>5. CASE Pull
    BY <1>5, LoadGoesOutTold, PullBeginsTold, PullAsksTold, PullEndsTold, PullHasNothingTold, PullOverTold
       DEF Pull
  <1>6. CASE Restart
    BY <1>6, RestartTold
  <1>7. CASE UNCHANGED vars
    <2>1. /\ UNCHANGED <<desk, touch, toApp, link, saved, editing, flushing, sync, doubts>>
          /\ \A k \in Keys : OnWay(k)' = OnWay(k)
      BY <1>7 DEF vars, wires, OnWay
    <2> QED  BY <2>1, QuietTold
  <1> QED  BY <1>1, <1>2, <1>3, <1>4, <1>5, <1>6, <1>7 DEF Next

LEMMA InvAligned == Inv => AlignedIsTrue
  <1> SUFFICES ASSUME Inv, confidence = "aligned", NEW k \in Keys \ doubted, Still(k)
               PROVE  app[k] = desk[k]
    BY DEF AlignedIsTrue
  <1>1. /\ pending[k] = None /\ queued[k] = None /\ LockFree /\ sync = Idle
        /\ marks = NoMarks /\ touch \in {"in", "again"} /\ toApp = <<>>
    BY DEF Still
  <1>2. sync.cause # Load
    BY <1>1, SyncType, ConsoleAssumption
  <1>3. ~Doubt
    BY <1>1 DEF Doubt, InTouch, LockFree
  <1>4. Known(k)
    BY <1>2, <1>3 DEF Inv, Told, Trusted
  <1>5. ~UnderWay(k) /\ Rest(k) = app[k]
    BY <1>1, EmptyIs DEF UnderWay, OnWay, EditOf, Rest, LockFree
  <1> QED  BY <1>4, <1>5 DEF Known

\* A Console that reads aligned shows what the desk holds once nothing is under
\* way (audio/sync.rs, rme_console_link.rs), of every value no mishap befell
\* since a pull last read it.
THEOREM AlignedConsolesAreTrue == ASSUME Excused = Mishaps PROVE Spec => []AlignedIsTrue
  <1>1. Init => Inv
    BY InitTold, SafeInit DEF Inv
  <1>2. Inv /\ [Next]_vars => Inv'
    <2> SUFFICES ASSUME Inv, [Next]_vars PROVE Inv'
      OBVIOUS
    <2>1. Told'
      BY NextTold
    <2>2. Safe'
      BY SafeNext DEF Inv
    <2> QED  BY <2>1, <2>2 DEF Inv
  <1> QED  BY <1>1, <1>2, InvAligned, PTL DEF Spec

-----------------------------------------------------------------------------
(* A send that expires was not answered, whatever happens.                 *)

(* A send no pass has asked for is no older than the passes are late.      *)
Soon ==
    \A k \in Keys : pending[k] # None /\ pending[k].asked = None =>
       pending[k].sent < ReadbackDelay + behind

(* One that turned a fader off is in the read-back that is outstanding,    *)
(* its own or a later one.                                                 *)
AwaitsQuiet ==
    \A k \in Faders : pending[k] # None /\ pending[k].asked # None /\ pending[k].value = 0 =>
       outstanding[Submix] # None /\ outstanding[Submix].asked <= pending[k].asked

(* One that was asked after, with nothing unsaid of what the desk holds.   *)
Asks(k) ==
    /\ pending[k] # None /\ pending[k].asked # None
    /\ touch = "in" /\ ~EditOf(k) /\ sync.at \notin {"loading", "begun"}

(* The last line of a value says what the desk holds.  A value the desk    *)
(* lists still waits for that line, or the desk holds another.             *)
LastSays(k) == \A v : Ends(toApp, k, v) => v = desk[k]
ListsIt(k) ==
    (k \in Switches \/ pending[k].value # 0) /\ pending[k].value = desk[k] =>
       OnWay(k) /\ LastSays(k)

Answered ==
    /\ Soon /\ AskedAfter /\ AwaitsQuiet
    /\ \A k \in Keys : Asks(k) => ListsIt(k)

AnsweredInv == Safe /\ Answered

LEMMA DelaysAre ==
  ReadbackDelay \in Nat \ {0} /\ ConfirmTimeout \in Nat /\ ReadbackDelay < ConfirmTimeout
  BY ConsoleAssumption

\* A step that leaves the sends: the desk keeps a value that was asked after, or says it.
LEMMA AnsweredKeeps ==
  ASSUME AnsweredInv, UNCHANGED <<pending, outstanding, behind>>,
         \A k \in Keys : Asks(k)' =>
            \/ /\ Asks(k) /\ desk'[k] = desk[k]
               /\ OnWay(k) => OnWay(k)'
               /\ LastSays(k) => LastSays(k)'
            \/ k \in Switches \/ desk'[k] # 0 => OnWay(k)' /\ LastSays(k)'
  PROVE  Answered'
  <1>1. Soon' /\ AskedAfter' /\ AwaitsQuiet'
    BY DEF AnsweredInv, Answered, Soon, AskedAfter, AwaitsQuiet
  <1>2. ASSUME NEW k \in Keys, Asks(k)'
        PROVE  ListsIt(k)'
    <2>1. CASE /\ Asks(k) /\ desk'[k] = desk[k]
               /\ OnWay(k) => OnWay(k)'
               /\ LastSays(k) => LastSays(k)'
      <3>1. ListsIt(k)
        BY <2>1 DEF AnsweredInv, Answered
      <3> QED  BY <2>1, <3>1 DEF ListsIt
    <2>2. CASE k \in Switches \/ desk'[k] # 0 => OnWay(k)' /\ LastSays(k)'
      BY <2>2 DEF ListsIt
    <2> QED  BY <1>2, <2>1, <2>2
  <1> QED  BY <1>1, <1>2 DEF Answered

\* The flush, the pull's end: nobody says anything.
LEMMA AnsweredSame ==
  ASSUME AnsweredInv, UNCHANGED <<desk, touch, toApp, pending, outstanding, editing, behind>>,
         sync.at \in {"loading", "begun"} => sync'.at = sync.at
  PROVE  Answered'
  <1>1. \A k : EditOf(k)' = EditOf(k) /\ OnWay(k)' = OnWay(k) /\ LastSays(k)' = LastSays(k)
    BY DEF EditOf, OnWay, LastSays
  <1>2. \A k : Asks(k)' => Asks(k)
    BY <1>1 DEF Asks
  <1> QED  BY <1>1, <1>2, AnsweredKeeps

LEMMA AnsweredDesk ==
  ASSUME AnsweredInv, DeskStep
  PROVE  Answered'
  <1>1. toApp \in Seq(Lines) /\ desk \in [Keys -> Values]
    BY LinesIs DEF AnsweredInv, Safe
  <1>2. ASSUME NEW j \in Keys, NEW v \in Values, DeskTurns(j, v)
        PROVE  Answered'
    <2> DEFINE x == [of |-> j, value |-> v]
               t == <<x>>
    <2>1. /\ UNCHANGED <<touch, pending, outstanding, editing, sync, behind>>
          /\ desk' = [desk EXCEPT ![j] = v]
          /\ touch = "in" => toApp' = Append(toApp, x)
      BY <1>2 DEF DeskTurns, link
    <2>2. x \in Lines /\ x.of = j /\ x.value = v
      BY DEF Lines
    <2> HIDE DEF x
    <2>3. t \in Seq(Lines) /\ (\A k : Holds(t, k) <=> k = j) /\ \A k, w : Ends(t, k, w) => k = j /\ w = v
      BY <2>2, OneIs
    <2>4. touch = "in" => toApp' = toApp \o t
      BY <1>1, <2>1, <2>2, AppendIs
    <2> HIDE DEF t
    <2>5. ASSUME NEW k \in Keys, Asks(k)'
          PROVE  /\ Asks(k) /\ (OnWay(k)' <=> OnWay(k) \/ k = j)
                 /\ \A w : Ends(toApp', k, w) => (k = j /\ w = v) \/ (k # j /\ Ends(toApp, k, w))
      <3>1. Asks(k) /\ touch = "in"
        BY <2>1, <2>5 DEF Asks, EditOf
      <3>2. toApp' = toApp \o t
        BY <2>4, <3>1
      <3>3. Holds(toApp \o t, k) <=> Holds(toApp, k) \/ Holds(t, k)
        BY <1>1, <2>3, JoinHolds
      <3>4. ASSUME NEW w, Ends(toApp', k, w) PROVE (k = j /\ w = v) \/ (k # j /\ Ends(toApp, k, w))
        <4>1. Ends(toApp \o t, k, w) => Ends(t, k, w) \/ (~Holds(t, k) /\ Ends(toApp, k, w))
          BY <1>1, <2>3, JoinHolds
        <4> QED  BY <2>3, <3>2, <3>4, <4>1
      <3> QED  BY <2>3, <3>1, <3>2, <3>3, <3>4 DEF OnWay
    <2>6. \A k \in Keys : desk'[k] = IF k = j THEN v ELSE desk[k]
      BY <1>1, <2>1
    <2>7. ASSUME NEW k \in Keys, Asks(k)'
          PROVE  \/ /\ Asks(k) /\ desk'[k] = desk[k]
                    /\ OnWay(k) => OnWay(k)'
                    /\ LastSays(k) => LastSays(k)'
                 \/ k \in Switches \/ desk'[k] # 0 => OnWay(k)' /\ LastSays(k)'
      <3>1. CASE k = j
        BY <2>5, <2>6, <2>7, <3>1 DEF LastSays
      <3>2. CASE k # j
        BY <2>5, <2>6, <2>7, <3>2 DEF LastSays
      <3> QED  BY <3>1, <3>2
    <2> QED  BY <2>1, <2>7, AnsweredKeeps
  <1>3. ASSUME NEW j \in Keys, DeskHides(j)
        PROVE  Answered'
    BY <1>3, AnsweredSame DEF DeskHides, link
  <1>4. CASE DeskLosesInterface
    <2> DEFINE s == <<GoneLine, StatusLine>>
    <2>1. /\ UNCHANGED <<desk, touch, pending, outstanding, editing, sync, behind>>
          /\ toApp' = toApp \o s
      BY <1>4 DEF DeskLosesInterface, link
    <2>2. s \in Seq(Lines) /\ \A k \in Keys : ~Holds(s, k)
      BY StatusIs DEF Holds
    <2> HIDE DEF s
    <2>3. ASSUME NEW k \in Keys
          PROVE  (OnWay(k)' <=> OnWay(k)) /\ \A v : Ends(toApp', k, v) => Ends(toApp, k, v)
      BY <1>1, <2>1, <2>2, JoinHolds, EndsOnWay DEF OnWay
    <2>4. \A k \in Keys : /\ Asks(k)' => Asks(k)
                          /\ LastSays(k) => LastSays(k)'
      BY <1>1, <2>1, <2>3 DEF Asks, EditOf, LastSays
    <2> QED  BY <2>1, <2>3, <2>4, AnsweredKeeps
  <1>5. CASE DeskGoesOut \/ DeskComesBack
    <2>1. touch' # "in" /\ UNCHANGED <<pending, outstanding, behind>>
      BY <1>5 DEF DeskGoesOut, DeskComesBack, link
    <2> QED  BY <2>1, AnsweredKeeps DEF Asks
  <1> QED  BY <1>2, <1>3, <1>4, <1>5 DEF DeskStep

\* A line that leaves the send says another value than the send's.
LEMMA AnsweredIngest ==
  ASSUME AnsweredInv, Ingest
  PROVE  Answered'
  <1> DEFINE line == Head(toApp)
  <1>1. /\ toApp \in Seq(Lines) /\ toApp # <<>> /\ toApp' = Tail(toApp) /\ line \in Lines
        /\ touch' = (IF touch = "back" THEN "again" ELSE touch)
        /\ UNCHANGED <<desk, editing, sync, behind>>
        /\ \/ line.of = Status /\ IngestStatus
           \/ line.of \in Keys /\ IngestValue(line.of, line.value)
    BY IngestIs DEF AnsweredInv, Safe
  <1>2. line.value \in Values
    BY <1>1 DEF Lines
  <1> HIDE DEF line
  <1>3. \A g \in Groups : /\ outstanding'[g] = None <=> outstanding[g] = None
                          /\ outstanding[g] # None => outstanding'[g].asked = outstanding[g].asked
    BY <1>1, <1>2, StatusLineIs, ValueIs DEF AnsweredInv, Safe
  <1>4. ASSUME NEW k \in Keys, pending'[k] # None
        PROVE  pending'[k] = pending[k] /\ (line.of = k => line.value # pending[k].value)
    <2>1. CASE line.of = Status /\ IngestStatus
      BY <2>1, KeysAre, StatusLineIs DEF AnsweredInv, Safe
    <2>2. CASE line.of \in Keys /\ IngestValue(line.of, line.value)
      BY <1>2, <1>4, <2>2, ValueIs DEF AnsweredInv, Safe
    <2> QED  BY <1>1, <2>1, <2>2
  <1>5. Soon' /\ AskedAfter'
    BY <1>1, <1>4 DEF AnsweredInv, Answered, Soon, AskedAfter
  <1>6. AwaitsQuiet'
    <2> SUFFICES ASSUME NEW k \in Faders, pending'[k] # None, pending'[k].asked # None, pending'[k].value = 0
                 PROVE  outstanding'[Submix] # None /\ outstanding'[Submix].asked <= pending'[k].asked
      BY DEF AwaitsQuiet
    <2>1. k \in Keys /\ Submix \in Groups /\ pending'[k] = pending[k]
      BY <1>4, KeysAre DEF Groups
    <2>2. outstanding[Submix] # None /\ outstanding[Submix].asked <= pending[k].asked
      BY <2>1 DEF AnsweredInv, Answered, AwaitsQuiet
    <2> QED  BY <1>3, <2>1, <2>2
  <1>7. ASSUME NEW k \in Keys, Asks(k)'
        PROVE  ListsIt(k)'
    <2>1. pending'[k] = pending[k] /\ (line.of = k => line.value # pending[k].value)
      BY <1>4, <1>7 DEF Asks
    <2>2. ListsIt(k)
      <3>1. Asks(k)
        BY <1>1, <1>7, <2>1 DEF Asks, EditOf
      <3> QED  BY <3>1 DEF AnsweredInv, Answered
    <2>3. /\ OnWay(k) <=> line.of = k \/ OnWay(k)'
          /\ \A v : Ends(toApp', k, v) => Ends(toApp, k, v)
          /\ line.of = k /\ ~OnWay(k)' => Ends(toApp, k, line.value)
      BY <1>1, TailHolds DEF OnWay, line
    <2>4. LastSays(k) => LastSays(k)'
      BY <1>1, <2>3 DEF LastSays
    <2> QED  BY <1>1, <2>1, <2>2, <2>3, <2>4 DEF ListsIt, LastSays
  <1> QED  BY <1>5, <1>6, <1>7 DEF Answered

\* A read-back is asked: the desk's answer lists the value, or it is off.
LEMMA AnsweredService ==
  ASSUME AnsweredInv, Service
  PROVE  Answered'
  <1> DEFINE asks == {Group(k) : k \in {k \in Keys : DueReadback(k)}}
  <1>1. /\ toApp = <<>> /\ UNCHANGED <<desk, touch, editing, sync>>
    BY ServiceIs DEF AnsweredInv, Safe
  <1>2. \A k \in Keys : pending'[k] # None =>
           \/ /\ DueReadback(k) /\ pending[k] # None /\ pending'[k].asked = 0
              /\ pending'[k].value = pending[k].value /\ pending'[k].sent = pending[k].sent
              /\ outstanding'[Group(k)] # None /\ outstanding'[Group(k)].asked = 0
           \/ /\ ~DueReadback(k) /\ ~ConfirmedByAbsence(k) /\ ~Expires(k) /\ pending'[k] = pending[k]
    <2>1. \A k \in Keys : pending'[k] # None => ~ConfirmedByAbsence(k) /\ ~Expires(k)
      BY DEF Service
    <2> QED  BY <2>1, ServiceIs DEF AnsweredInv, Safe, DueReadback
  <1>3. \E s \in Seq(Lines) :
           /\ toApp' = IF Hears THEN s ELSE <<>>
           /\ \A k \in Keys : /\ (Group(k) \in asks /\ (k \in Switches \/ desk[k] > 0)) <=> Holds(s, k)
                              /\ \A v : Ends(s, k, v) => v = desk[k]
    BY ServiceIs DEF AnsweredInv, Safe
  <1>4. \A k \in Keys : DueReadback(k) => Group(k) \in asks
    OBVIOUS
  <1>5. behind' = 0
    BY DEF Service
  <1>6. outstanding' = [g \in Groups |->
              IF g \in asks THEN [asked |-> 0, last |-> None]
              ELSE IF outstanding[g] = None \/ Quiet(g) THEN None
              ELSE IF outstanding[g].asked >= ConfirmTimeout THEN None ELSE outstanding[g]]
    BY DEF Service
  <1> HIDE DEF asks
  <1>7. /\ \A k \in Keys : LastSays(k)'
        /\ touch = "in" =>
              \A k \in Keys : Group(k) \in asks /\ (k \in Switches \/ desk[k] > 0) => OnWay(k)'
    BY <1>1, <1>3, EmptyIs DEF OnWay, Hears, LastSays
  <1>8. \A k \in Keys : pending[k] # None => pending[k].sent \in Nat /\ pending[k].asked \in Nat \cup {None}
    BY DEF AnsweredInv, Safe, TypeOK, Sends
  <1>9. Soon'
    <2> SUFFICES ASSUME NEW k \in Keys, pending'[k] # None, pending'[k].asked = None
                 PROVE  pending'[k].sent < ReadbackDelay
      BY <1>5, DelaysAre DEF Soon
    <2>1. ~DueReadback(k) /\ ~ConfirmedByAbsence(k) /\ ~Expires(k) /\ pending'[k] = pending[k]
      BY <1>2, NoneIs
    <2>2. pending[k].sent < ReadbackDelay
      BY <1>8, <2>1, DelaysAre DEF DueReadback
    <2> QED  BY <1>8, <2>1, <2>2, DelaysAre
  <1>10. AskedAfter'
    <2> SUFFICES ASSUME NEW k \in Keys, pending'[k] # None, pending'[k].asked # None
                 PROVE  pending'[k].asked <= pending'[k].sent
      BY DEF AskedAfter
    <2>1. CASE pending'[k].asked = 0 /\ pending[k] # None /\ pending'[k].sent = pending[k].sent
      BY <1>8, <2>1
    <2>2. CASE pending'[k] = pending[k]
      BY <2>2 DEF AnsweredInv, Answered, AskedAfter
    <2> QED  BY <1>2, <2>1, <2>2
  <1>11. AwaitsQuiet'
    <2> SUFFICES ASSUME NEW k \in Faders, pending'[k] # None, pending'[k].asked # None, pending'[k].value = 0
                 PROVE  outstanding'[Submix] # None /\ outstanding'[Submix].asked <= pending'[k].asked
      BY DEF AwaitsQuiet
    <2>1. k \in Keys /\ Submix \in Groups /\ Group(k) = Submix
      BY KeysAre DEF Groups
    <2>2. CASE pending'[k].asked = 0 /\ outstanding'[Submix] # None /\ outstanding'[Submix].asked = 0
      BY <2>2
    <2>3. CASE ~ConfirmedByAbsence(k) /\ ~Expires(k) /\ pending'[k] = pending[k]
      <3>1. /\ outstanding[Submix] # None /\ outstanding[Submix].asked <= pending[k].asked
            /\ pending[k] # None /\ pending[k].asked # None /\ pending[k].value = 0
        BY <2>3 DEF AnsweredInv, Answered, AwaitsQuiet
      <3>2. /\ pending[k].sent \in Nat /\ pending[k].asked \in Nat /\ outstanding[Submix].asked \in Nat
            /\ pending[k].asked <= pending[k].sent
        BY <1>8, <2>1, <3>1, LinesIs DEF AnsweredInv, Safe, Answered, AskedAfter
      <3>3. ~Quiet(Submix)
        BY <2>1, <2>3, <3>1, <3>2 DEF ConfirmedByAbsence, ReadBackAnswers
      <3>4. ~(outstanding[Submix].asked >= ConfirmTimeout)
        BY <2>3, <3>1, <3>2, DelaysAre DEF Expires
      <3>5. CASE Submix \in asks
        <4>1. outstanding'[Submix] = [asked |-> 0, last |-> None]
          BY <1>6, <2>1, <3>5
        <4> QED  BY <2>3, <3>2, <4>1, NoneIs DEF Requests
      <3>6. CASE Submix \notin asks
        BY <1>6, <2>1, <2>3, <3>1, <3>3, <3>4, <3>6
      <3> QED  BY <3>5, <3>6
    <2> QED  BY <1>2, <2>1, <2>2, <2>3
  <1>12. ASSUME NEW k \in Keys, Asks(k)'
         PROVE  ListsIt(k)'
    <2> SUFFICES ASSUME k \in Switches \/ pending'[k].value # 0, pending'[k].value = desk[k]
                 PROVE  OnWay(k)'
      BY <1>1, <1>7 DEF ListsIt
    <2>1. touch = "in" /\ pending'[k] # None
      BY <1>1, <1>12 DEF Asks
    <2>2. k \in Switches \/ desk[k] > 0
      <3>1. desk[k] \in Nat
        BY LinesIs, KeysAre DEF AnsweredInv, Safe
      <3> QED  BY <3>1
    <2>3. CASE DueReadback(k)
      BY <1>4, <1>7, <2>1, <2>2, <2>3
    <2>4. CASE pending'[k] = pending[k]
      <3>1. Asks(k)
        BY <1>1, <1>12, <2>4 DEF Asks, EditOf
      <3>2. OnWay(k)
        BY <2>4, <3>1 DEF AnsweredInv, Answered, ListsIt
      <3> QED  BY <1>1, <3>2, EmptyIs DEF OnWay
    <2> QED  BY <1>2, <2>1, <2>3, <2>4
  <1> QED  BY <1>9, <1>10, <1>11, <1>12 DEF Answered

LEMMA AnsweredTick ==
  ASSUME AnsweredInv, Tick
  PROVE  Answered'
  <1>1. UNCHANGED <<desk, touch, toApp, editing, sync>>
    BY TickIs DEF AnsweredInv, Safe
  <1>2. \A k \in Keys :
          /\ pending'[k] = None <=> pending[k] = None
          /\ pending[k] # None =>
               /\ pending'[k].value = pending[k].value
               /\ pending'[k].sent = pending[k].sent + 1 /\ pending[k].sent \in Nat
               /\ pending'[k].asked = None <=> pending[k].asked = None
               /\ pending[k].asked # None => /\ pending[k].asked \in Nat
                                             /\ pending'[k].asked = pending[k].asked + 1
    BY TickIs DEF AnsweredInv, Safe
  <1>3. \A g \in Groups :
          /\ outstanding'[g] = None <=> outstanding[g] = None
          /\ outstanding[g] # None =>
               outstanding[g].asked \in Nat /\ outstanding'[g].asked = outstanding[g].asked + 1
    BY TickIs DEF AnsweredInv, Safe
  <1>4. behind \in Nat /\ behind' = behind + 1
    BY TickIs DEF AnsweredInv, Safe
  <1>5. Soon'
    <2> SUFFICES ASSUME NEW k \in Keys, pending'[k] # None, pending'[k].asked = None
                 PROVE  pending'[k].sent < ReadbackDelay + behind'
      BY DEF Soon
    <2>1. /\ pending[k] # None /\ pending[k].asked = None /\ pending[k].sent \in Nat
          /\ pending'[k].sent = pending[k].sent + 1
      BY <1>2
    <2>2. pending[k].sent < ReadbackDelay + behind
      BY <2>1 DEF AnsweredInv, Answered, Soon
    <2> QED  BY <1>4, <2>1, <2>2, DelaysAre
  <1>6. AskedAfter'
    BY <1>2 DEF AnsweredInv, Answered, AskedAfter
  <1>7. AwaitsQuiet'
    <2> SUFFICES ASSUME NEW k \in Faders, pending'[k] # None, pending'[k].asked # None, pending'[k].value = 0
                 PROVE  outstanding'[Submix] # None /\ outstanding'[Submix].asked <= pending'[k].asked
      BY DEF AwaitsQuiet
    <2>1. k \in Keys /\ Submix \in Groups
      BY KeysAre DEF Groups
    <2>2. /\ pending[k] # None /\ pending[k].asked # None /\ pending[k].value = 0
          /\ pending[k].asked \in Nat /\ pending'[k].asked = pending[k].asked + 1
      BY <1>2, <2>1
    <2>3. outstanding[Submix] # None /\ outstanding[Submix].asked <= pending[k].asked
      BY <2>2 DEF AnsweredInv, Answered, AwaitsQuiet
    <2> QED  BY <1>3, <2>1, <2>2, <2>3
  <1>8. ASSUME NEW k \in Keys, Asks(k)'
        PROVE  ListsIt(k)'
    <2>1. Asks(k) /\ pending'[k].value = pending[k].value
      BY <1>1, <1>2, <1>8 DEF Asks, EditOf
    <2>2. ListsIt(k)
      BY <2>1 DEF AnsweredInv, Answered
    <2> QED  BY <1>1, <2>1, <2>2 DEF LastSays, ListsIt, OnWay
  <1> QED  BY <1>5, <1>6, <1>7, <1>8 DEF Answered

LEMMA AnsweredEdit ==
  ASSUME AnsweredInv, Edit
  PROVE  Answered'
  <1>1. ASSUME NEW j \in Keys, NEW v \in Values, EditSends(j, v)
        PROVE  Answered'
    <2>1. /\ editing' # None /\ editing'.of = j
          /\ UNCHANGED <<touch, toApp, pending, outstanding, sync>>
          /\ \A k \in Keys \ {j} : desk'[k] = desk[k]
      BY <1>1, EditSendsIs DEF AnsweredInv, Safe, link
    <2>2. behind' = behind
      BY <1>1 DEF EditSends
    <2>3. ASSUME NEW k \in Keys, Asks(k)'
          PROVE  Asks(k) /\ LastSays(k)' = LastSays(k) /\ desk'[k] = desk[k] /\ OnWay(k)' = OnWay(k)
      <3>1. k # j
        BY <2>1, <2>3 DEF Asks, EditOf
      <3>2. editing = None
        BY <1>1, EditSendsIs DEF AnsweredInv, Safe, LockFree
      <3>3. Asks(k)
        BY <2>1, <2>3, <3>2 DEF Asks, EditOf
      <3> QED  BY <2>1, <3>1, <3>3 DEF LastSays, OnWay
    <2> QED  BY <2>1, <2>2, <2>3, AnsweredKeeps
  <1>2. CASE EditEnds
    <2> DEFINE j == editing.of
    <2>1. /\ editing # None /\ editing' = None /\ j \in Keys
          /\ \A k \in Keys \ {j} : pending'[k] = pending[k]
          /\ pending'[j] # None /\ pending'[j].sent = 0 /\ pending'[j].asked = None
          /\ UNCHANGED <<desk, touch, toApp, outstanding, sync>>
      BY <1>2, EditEndsIs DEF AnsweredInv, Safe, wires
    <2>2. behind' = behind /\ behind \in Nat
      BY <1>2 DEF EditEnds, AnsweredInv, Safe, TypeOK
    <2> HIDE DEF j
    <2>3. Soon'
      <3>1. 0 < ReadbackDelay + behind
        BY <2>2, DelaysAre
      <3> QED  BY <2>1, <2>2, <3>1 DEF AnsweredInv, Answered, Soon
    <2>4. AskedAfter' /\ AwaitsQuiet'
      BY <2>1, KeysAre DEF AnsweredInv, Answered, AskedAfter, AwaitsQuiet
    <2>5. ASSUME NEW k \in Keys, Asks(k)'
          PROVE  ListsIt(k)'
      <3>1. k # j
        BY <2>1, <2>5 DEF Asks
      <3>2. Asks(k)
        BY <2>1, <2>5, <3>1 DEF Asks, EditOf, j
      <3>3. ListsIt(k)
        BY <3>2 DEF AnsweredInv, Answered
      <3> QED  BY <2>1, <3>1, <3>3 DEF LastSays, ListsIt, OnWay
    <2> QED  BY <2>3, <2>4, <2>5 DEF Answered
  <1> QED  BY <1>1, <1>2 DEF Edit

LEMMA AnsweredFlush ==
  ASSUME AnsweredInv, Flush
  PROVE  Answered'
  <1>1. CASE FlushTakes
    <2>1. PICK by \in {"metering", "pull"} : Takes(by)
      BY <1>1, TakesEither
    <2> QED  BY <2>1, AnsweredSame DEF Takes, wires
  <1>2. CASE FlushWrites \/ FlushFails
    <2>1. /\ UNCHANGED <<desk, touch, toApp, pending, outstanding, editing, behind>>
          /\ flushing # None /\ \E written \in BOOLEAN : PullGoesOn(written)
      BY <1>2 DEF FlushWrites, FlushFails, wires, link
    <2>2. flushing.by \in {"metering", "pull"} /\ (flushing.by = "metering" => sync' = sync)
      BY <2>1, GoesOnIs DEF AnsweredInv, Safe
    <2>3. flushing.by = "pull" => sync.at = "ended"
      BY <2>1 DEF AnsweredInv, Safe, Shape
    <2> QED  BY <2>1, <2>2, <2>3, AnsweredSame
  <1> QED  BY <1>1, <1>2 DEF Flush

\* A dump lists the value, or it is off; a load waits for one.
LEMMA AnsweredPull ==
  ASSUME AnsweredInv, Pull
  PROVE  Answered'
  <1>1. sync \in Syncs /\ toApp \in Seq(Lines) /\ desk \in [Keys -> Values]
    BY LinesIs DEF AnsweredInv, Safe
  <1>2. CASE LoadGoesOut
    <2>1. UNCHANGED <<pending, outstanding, behind>> /\ sync' = [Idle EXCEPT !.at = "loading", !.cause = Load]
      BY <1>2 DEF LoadGoesOut, link
    <2>2. sync'.at = "loading"
      BY <2>1 DEF Idle
    <2> QED  BY <2>1, <2>2, AnsweredKeeps DEF Asks
  <1>3. CASE PullBegins
    <2>1. UNCHANGED <<pending, outstanding, behind>>
      BY <1>3 DEF PullBegins
    <2>2. sync'.at = "begun"
      <3>1. CASE sync' = [Idle EXCEPT !.at = "begun", !.cause = Dump]
        BY <3>1 DEF Idle
      <3>2. CASE sync' = [sync EXCEPT !.at = "begun"]
        BY <1>1, <3>2, SyncType
      <3> QED  BY <1>3, <3>1, <3>2 DEF PullBegins
    <2> QED  BY <2>1, <2>2, AnsweredKeeps DEF Asks
  <1>4. CASE PullAsks
    <2> DEFINE t == TheDump
    <2>1. /\ UNCHANGED <<desk, touch, pending, outstanding, editing, behind>>
          /\ toApp' = IF Hears THEN toApp \o t ELSE toApp
          /\ sync.at = "begun"
      BY <1>4 DEF PullAsks, DeskAnswers, link
    <2>2. /\ t \in Seq(Lines)
          /\ \A k \in Keys : Holds(t, k) <=> (k \in Switches \/ desk[k] > 0)
          /\ \A k \in Keys : \A v : Ends(t, k, v) => v = desk[k]
      BY <1>1, DumpIs
    <2> HIDE DEF t
    <2>4. ASSUME NEW k \in Keys, Asks(k)', k \in Switches \/ desk[k] # 0
          PROVE  OnWay(k)' /\ LastSays(k)'
      <3>1. toApp' = toApp \o t
        BY <2>1, <2>4 DEF Asks, Hears
      <3>2. OnWay(k)' <=> OnWay(k) \/ k \in Switches \/ desk[k] > 0
        BY <1>1, <2>2, <3>1, JoinHolds DEF OnWay
      <3>3. desk[k] \in Nat
        BY <1>1, KeysAre
      <3>4. Holds(t, k)
        BY <2>2, <2>4, <3>3
      <3>5. ASSUME NEW w, Ends(toApp', k, w) PROVE w = desk[k]
        <4>1. Ends(toApp \o t, k, w) => Ends(t, k, w) \/ (~Holds(t, k) /\ Ends(toApp, k, w))
          BY <1>1, <2>2, JoinHolds
        <4> QED  BY <2>2, <3>1, <3>4, <3>5, <4>1
      <3> QED  BY <2>1, <2>4, <3>2, <3>3, <3>5 DEF LastSays
    <2> QED  BY <2>1, <2>4, AnsweredKeeps
  <1>5. CASE PullEnds \/ PullHasNothing \/ PullAligns \/ PullFails \/ PullUnwritten
    <2>1. /\ UNCHANGED <<desk, touch, toApp, pending, outstanding, editing, behind>>
          /\ sync.at \notin {"loading", "begun"}
      BY <1>5 DEF PullEnds, PullHasNothing, PullAligns, PullFails, PullUnwritten, wires, link
    <2> QED  BY <2>1, AnsweredSame
  <1> QED  BY <1>2, <1>3, <1>4, <1>5 DEF Pull

LEMMA AnsweredStep == AnsweredInv /\ [Next]_vars => Answered'
  <1> SUFFICES ASSUME AnsweredInv, [Next]_vars PROVE Answered'
    OBVIOUS
  <1>1. CASE Metering
    BY <1>1, AnsweredIngest, AnsweredService, AnsweredTick DEF Metering
  <1>2. CASE Restart
    BY <1>2, KeysAre DEF Restart, Answered, Soon, AskedAfter, AwaitsQuiet, Asks
  <1>3. CASE UNCHANGED vars
    BY <1>3, AnsweredSame DEF vars, wires, link
  <1> QED  BY <1>1, <1>2, <1>3, AnsweredDesk, AnsweredEdit, AnsweredFlush, AnsweredPull DEF Next

LEMMA AnsweredHolds == AnsweredInv => AnsweredInTime
  <1> SUFFICES ASSUME AnsweredInv, touch = "in", sync.at \notin {"loading", "begun"},
                      NEW k \in Keys, Expires(k), pending[k].value = desk[k], ~(OnTheirWay(k) > 0), ~SentAgain(k),
                      outstanding[Group(k)] # None => Quiet(Group(k)),
                      ~(pending[k].asked = None /\ behind > ConfirmTimeout - ReadbackDelay)
               PROVE  FALSE
    BY DEF AnsweredInTime
  <1>1. /\ pending[k] # None /\ pending[k].sent \in Nat /\ pending[k].sent >= ConfirmTimeout
        /\ ~ConfirmedByAbsence(k)
    BY LinesIs DEF Expires, AnsweredInv, Safe
  <1>2. pending[k].asked # None
    <2>1. SUFFICES ASSUME pending[k].asked = None PROVE FALSE
      OBVIOUS
    <2>2. pending[k].sent < ReadbackDelay + behind /\ behind \in Nat
      BY <1>1, <2>1 DEF AnsweredInv, Answered, Soon, Safe, TypeOK
    <2> QED  BY <1>1, <2>1, <2>2, DelaysAre
  <1>3. ~OnWay(k)
    <2>1. toApp \in Seq(Lines)
      BY LinesIs DEF AnsweredInv, Safe
    <2>2. OnTheirWay(k) = 0
      BY <2>1, OnTheirWayIs
    <2> QED  BY <2>1, <2>2, OnTheirWayIs
  <1>4. Asks(k)
    BY <1>1, <1>2 DEF Asks, EditOf, SentAgain
  <1>5. k \in Faders /\ pending[k].value = 0
    BY <1>3, <1>4, KeysAre DEF AnsweredInv, Answered, ListsIt
  <1>6. outstanding[Submix] # None /\ outstanding[Submix].asked <= pending[k].asked
    BY <1>1, <1>2, <1>5 DEF AnsweredInv, Answered, AwaitsQuiet
  <1>7. Group(k) = Submix
    BY <1>5, KeysAre
  <1>8. pending[k].asked \in Nat /\ outstanding[Submix].asked \in Nat
    BY <1>1, <1>2, <1>6 DEF AnsweredInv, Safe, TypeOK, Sends, Requests, Groups
  <1>9. ConfirmedByAbsence(k)
    BY <1>1, <1>2, <1>5, <1>6, <1>7, <1>8 DEF ConfirmedByAbsence, ReadBackAnswers
  <1> QED  BY <1>1, <1>9

\* A send whose value the desk holds is answered before it expires
\* (rme_console_link.rs, read_back_answers), whatever happens besides, while the
\* desk is in touch and lets the answers go quiet, and a pass could ask for it.
THEOREM SendsAreAnswered == Spec => []AnsweredInTime
  <1>1. Init => AnsweredInv
    <2>1. Init => Answered
      BY KeysAre DEF Init, Answered, Soon, AskedAfter, AwaitsQuiet, Asks
    <2> QED  BY <2>1, SafeInit DEF AnsweredInv
  <1>2. AnsweredInv /\ [Next]_vars => AnsweredInv'
    BY AnsweredStep, SafeNext DEF AnsweredInv
  <1> QED  BY <1>1, <1>2, AnsweredHolds, PTL DEF Spec

=============================================================================
