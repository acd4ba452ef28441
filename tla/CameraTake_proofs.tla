------------------------- MODULE CameraTake_proofs --------------------------
(***************************************************************************)
(* CAM 1's takes for every number of links and every length of the dwell,  *)
(* the window and the waits: what the camera reported reaches the page,    *)
(* the deck's second press stops the take its first was about, and a press *)
(* within the dwell is the same press again.                               *)
(*                                                                         *)
(* The first needs to know that the link the runtime holds goes on and     *)
(* that what a link heard since it connected was reported (Linked); the    *)
(* second that an arm whose take may be over is stale, or CAM 1 still out  *)
(* of reach or without a take, which the next read that finds it back      *)
(* makes it (Ended, ReadEnds); the third that the time the runtime keeps   *)
(* is that of the deck's last act (Paced).                                 *)
(***************************************************************************)
EXTENDS CameraTake, TLAPS

\* The kinds of what the model keeps.
LinkType == [thread : {"none", "session", "retry", "open", "writing", "written", "ends"},
             subscribed : BOOLEAN, conn : {"starting", "connected", "lost", "stopped"},
             rec : Takes \cup {"unknown"}, reported : BOOLEAN, fresh : BOOLEAN,
             inbox : Seq(OrderType), writes : OrderType, queued : BOOLEAN,
             notifier : {"idle", "calls", "called"}]

ArmType == [at : Nat, stale : BOOLEAN]

CamType == [setUp : BOOLEAN, released : BOOLEAN, pocket : Links \cup {0}, failure : BOOLEAN,
            rec : Takes \cup {"unknown", None}, arm : ArmType \cup {None}, recAt : Nat \cup {None}]

PressType == [pc : {"none", "waiting", "answered"}, rec : Takes, deck : BOOLEAN,
              at : Nat, ok : BOOLEAN]

Kinds ==
    /\ camera \in Takes \cup {"unknown"} /\ link \in [Links -> LinkType]
    /\ cam \in CamType /\ press \in PressType
    /\ now \in Nat /\ over \in BOOLEAN /\ acted \in Nat

\* A link the runtime holds was not told to end; one that was released is not
\* held.
HeldLink(links, c) ==
    /\ c.released => c.pocket = 0
    /\ c.pocket # 0 =>
          /\ links[c.pocket].thread \notin {"none", "ends"}
          /\ \A i \in 1 .. Len(links[c.pocket].inbox) : links[c.pocket].inbox[i].what # "letgo"

-----------------------------------------------------------------------------
\* The kinds of a link's steps.
LEMMA LinksAre == 0 \notin Links /\ 1 \in Links /\ Links \subseteq Nat
  BY CameraAssumption

LEMMA OrderIs ==
  ASSUME NEW what \in {"none", "send", "control", "dropped", "letgo"}, NEW rec \in Takes \cup {"unknown"}
  PROVE  Order(what, rec) \in OrderType
  BY DEF Order, OrderType

LEMMA NoLinkIs == NoLink \in LinkType /\ \A last \in Takes \cup {"unknown", None} : Started(last) \in LinkType
  <1>1. Order("none", "unknown") \in OrderType
    BY OrderIs
  <1>2. NoLink \in LinkType
    BY <1>1 DEF NoLink, LinkType
  <1>3. ASSUME NEW last \in Takes \cup {"unknown", None}
        PROVE  Started(last) \in LinkType
    <2>1. PICK rec \in Takes \cup {"unknown"} : Started(last) = [NoLink EXCEPT !.thread = "session", !.rec = rec]
      BY DEF Started
    <2> QED  BY <1>2, <2>1 DEF LinkType
  <1> QED  BY <1>2, <1>3

LEMMA UnreadIs ==
  ASSUME NEW lk \in LinkType
  PROVE  Unread(lk) \in LinkType /\ Noticed(lk) \in LinkType
  BY NoLinkIs DEF Unread, Noticed, LinkType

LEMMA PassesIs ==
  ASSUME NEW l \in Links, NEW lk \in LinkType
  PROVE  Passes(l, lk) \in LinkType /\ Handled(l, lk) \in LinkType
  BY DEF Passes, Handled, LinkType

LEMMA BoxIs ==
  ASSUME NEW lk \in LinkType, NEW box \in Seq(OrderType)
  PROVE  [lk EXCEPT !.inbox = box] \in LinkType
  BY DEF LinkType

LEMMA TakenIs ==
  ASSUME NEW lk \in LinkType, lk.inbox # <<>>
  PROVE  /\ Next1(lk) \in OrderType /\ Takes1(lk) \in LinkType
         /\ Next1(lk) = lk.inbox[1] /\ Len(lk.inbox) \in Nat \ {0}
         /\ Takes1(lk) = [lk EXCEPT !.inbox = Tail(lk.inbox)]
         /\ Len(Tail(lk.inbox)) = Len(lk.inbox) - 1
         /\ \A i \in 1 .. Len(Tail(lk.inbox)) : Tail(lk.inbox)[i] = lk.inbox[i + 1]
  <1>1. lk.inbox \in Seq(OrderType)
    BY DEF LinkType
  <1>2. Head(lk.inbox) \in OrderType /\ Tail(lk.inbox) \in Seq(OrderType)
    BY <1>1
  <1>3. /\ Head(lk.inbox) = lk.inbox[1] /\ Len(lk.inbox) \in Nat \ {0}
        /\ Len(Tail(lk.inbox)) = Len(lk.inbox) - 1
        /\ \A i \in 1 .. Len(Tail(lk.inbox)) : Tail(lk.inbox)[i] = lk.inbox[i + 1]
    BY <1>1
  <1>4. Takes1(lk) = [lk EXCEPT !.inbox = Tail(lk.inbox)]
    BY DEF Takes1
  <1>5. Takes1(lk) \in LinkType
    BY <1>2, <1>4, BoxIs
  <1> QED  BY <1>2, <1>3, <1>4, <1>5 DEF Next1

LEMMA SentIs ==
  ASSUME NEW lk \in LinkType, NEW o \in OrderType
  PROVE  /\ [lk EXCEPT !.inbox = Append(lk.inbox, o)] \in LinkType
         /\ [lk EXCEPT !.inbox = lk.inbox \o <<o>>] \in LinkType
         /\ [lk EXCEPT !.inbox = lk.inbox \o <<>>] \in LinkType
  <1>1. lk.inbox \in Seq(OrderType)
    BY DEF LinkType
  <1>2. /\ Append(lk.inbox, o) \in Seq(OrderType) /\ lk.inbox \o <<o>> \in Seq(OrderType)
        /\ lk.inbox \o <<>> \in Seq(OrderType)
    BY <1>1
  <1> QED  BY <1>2, BoxIs

LEMMA GivesUpIs ==
  ASSUME NEW lk \in LinkType
  PROVE  /\ GivesUp(lk) \in LinkType
         /\ Len(GivesUp(lk).inbox) = Len(lk.inbox)
         /\ \A i \in 1 .. Len(lk.inbox) : GivesUp(lk).inbox[i].what = lk.inbox[i].what
  <1>1. lk.inbox \in Seq(OrderType) /\ lk.writes \in OrderType
    BY DEF LinkType
  <1>2. \A o \in OrderType : Withdrawn(o) \in OrderType /\ Withdrawn(o).what = o.what
    BY DEF Withdrawn, OrderType
  <1> DEFINE box == [i \in DOMAIN lk.inbox |-> Withdrawn(lk.inbox[i])]
  <1>3. box \in Seq(OrderType) /\ Len(box) = Len(lk.inbox)
        /\ \A i \in 1 .. Len(lk.inbox) : box[i].what = lk.inbox[i].what
    BY <1>1, <1>2
  <1>4. GivesUp(lk) = [lk EXCEPT !.inbox = box, !.writes = Withdrawn(lk.writes)]
    BY DEF GivesUp
  <1> HIDE DEF box
  <1> QED  BY <1>1, <1>2, <1>3, <1>4 DEF LinkType

\* An arm whose take may be over.
Stale(a) == [a EXCEPT !.stale = TRUE]

LEMMA StaleIs == \A a \in ArmType : Stale(a) \in ArmType /\ Stale(a).at = a.at /\ Stale(a).stale
  BY DEF ArmType, Stale

LEMMA CountsChangeIs ==
  ASSUME NEW c \in CamType
  PROVE  /\ CountsChange(c) \in CamType
         /\ c.arm = None => CountsChange(c) = c
         /\ c.arm # None => c.arm \in ArmType /\ CountsChange(c) = [c EXCEPT !.arm = Stale(c.arm)]
  <1>1. CASE c.arm = None
    BY <1>1 DEF CountsChange
  <1>2. CASE c.arm # None
    <2>1. c.arm \in ArmType
      BY <1>2 DEF CamType
    <2>2. CountsChange(c) = [c EXCEPT !.arm = [c.arm EXCEPT !.stale = TRUE]]
      BY <1>2, <2>1 DEF CountsChange, CamType
    <2>4. [c.arm EXCEPT !.stale = TRUE] = Stale(c.arm)
      BY DEF Stale
    <2>5. Stale(c.arm) \in ArmType
      BY <2>1, StaleIs
    <2> QED  BY <1>2, <2>1, <2>2, <2>4, <2>5 DEF CamType
  <1> QED  BY <1>1, <1>2

\* What the arm becomes: itself, or stale.
SameArm(r, c) ==
    /\ c.arm = None => r.arm = None
    /\ c.arm # None => r.arm \in {c.arm, Stale(c.arm)}

\* A read of CAM 1.
LEMMA ReadIs ==
  ASSUME NEW c \in CamType, link \in [Links -> LinkType]
  PROVE  /\ Read(c) \in CamType
         /\ Read(c).setUp = c.setUp /\ Read(c).released = c.released /\ Read(c).pocket = c.pocket
         /\ Read(c).recAt = c.recAt
         /\ SameArm(Read(c), c)
         /\ ~TakeMayBeOver(Read(c)) /\ TakeMayBeOver(c) /\ c.arm # None =>
              Read(c).arm = Stale(c.arm)
         /\ c.setUp /\ ~c.released =>
              /\ Read(c).failure = ~Answers(c)
              /\ Answers(c) => Read(c).rec = IF c.rec # None /\ ~link[c.pocket].reported
                                             THEN c.rec ELSE link[c.pocket].rec
  <1>1. CASE ~c.setUp \/ c.released
    BY <1>1 DEF Read, SameArm, TakeMayBeOver, Held
  <1>2. CASE c.setUp /\ ~c.released /\ ~Answers(c)
    <2>1. Read(c) = [c EXCEPT !.failure = TRUE]
      BY <1>2 DEF Read
    <2> QED  BY <1>2, <2>1 DEF CamType, SameArm, TakeMayBeOver, Held
  <1>3. CASE c.setUp /\ ~c.released /\ Answers(c)
    <2> DEFINE rec == IF c.rec # None /\ ~link[c.pocket].reported THEN c.rec ELSE link[c.pocket].rec
               read == [c EXCEPT !.rec = rec, !.failure = FALSE]
    <2>1. Read(c) = IF c.failure \/ (IF c.rec = None THEN "unknown" ELSE c.rec) # rec
                    THEN CountsChange(read) ELSE read
      BY <1>3 DEF Read
    <2>2. c.pocket \in Links
      BY <1>3 DEF Answers, CamType
    <2>3. rec \in Takes \cup {"unknown", None}
      BY <2>2 DEF LinkType, CamType
    <2> HIDE DEF rec
    <2>4. /\ read \in CamType /\ read.setUp = c.setUp /\ read.released = c.released
          /\ read.pocket = c.pocket /\ read.recAt = c.recAt /\ read.arm = c.arm
          /\ read.rec = rec /\ read.failure = FALSE
      BY <2>3 DEF CamType
    <2> HIDE DEF read
    <2>5. /\ CountsChange(read) \in CamType
          /\ c.arm = None => CountsChange(read) = read
          /\ c.arm # None => CountsChange(read) = [read EXCEPT !.arm = Stale(c.arm)]
      BY <2>4, CountsChangeIs
    <2>6. /\ CountsChange(read).setUp = c.setUp /\ CountsChange(read).released = c.released
          /\ CountsChange(read).pocket = c.pocket /\ CountsChange(read).recAt = c.recAt
          /\ CountsChange(read).rec = rec /\ CountsChange(read).failure = FALSE
          /\ c.arm = None => CountsChange(read).arm = None
          /\ c.arm # None => CountsChange(read).arm = Stale(c.arm)
      BY <2>4, <2>5 DEF CamType
    <2>7. CASE Read(c) = CountsChange(read)
      BY <1>3, <2>5, <2>6, <2>7 DEF SameArm, rec
    <2>8. CASE Read(c) = read /\ ~c.failure /\ (IF c.rec = None THEN "unknown" ELSE c.rec) = rec
      <3>1. ~TakeMayBeOver(read) => ~TakeMayBeOver(c)
        BY <1>3, <2>4, <2>8, CameraAssumption DEF TakeMayBeOver, Held
      <3> QED  BY <1>3, <2>4, <2>8, <3>1 DEF SameArm, rec
    <2> QED  BY <2>1, <2>7, <2>8
  <1> QED  BY <1>1, <1>2, <1>3

-----------------------------------------------------------------------------
\* What CAM 1's page shows fits what the link has heard.
Fits(lk, c) ==
    /\ lk.conn # "connected" => c.failure
    /\ lk.fresh /\ ~c.failure => c.rec = lk.rec

\* What a link heard since it connected was reported.
Reported == \A l \in Links : link[l].fresh => link[l].reported

\* The arm of a take that may have ended is stale, or CAM 1 is still out of
\* reach or without a take.
EndedBy(c, o) ==
    /\ (c.arm # None /\ ~c.arm.stale /\ o) => TakeMayBeOver(c)
    /\ c.released => c.arm = None \/ c.arm.stale
Ended == EndedBy(cam, over)

\* The deck's next act keeps a dwell from its last.
Paced ==
    /\ acted > 0 => cam.recAt # None /\ cam.recAt = acted
    /\ press.pc # "none" /\ press.deck /\ acted > 0 => press.at >= acted + Dwell

LEMMA ReadFits ==
  ASSUME NEW c \in CamType, link \in [Links -> LinkType], Reported, c.setUp, ~c.released, c.pocket # 0
  PROVE  Fits(link[c.pocket], Read(c))
  <1>1. c.pocket \in Links
    BY DEF CamType
  <1>2. CASE Answers(c)
    BY <1>1, <1>2, ReadIs DEF Fits, Answers, Reported
  <1>3. CASE ~Answers(c)
    BY <1>3, ReadIs DEF Fits, Answers
  <1> QED  BY <1>2, <1>3

\* What the runtime is left with, when its read is followed by changes that
\* leave the reading or call CAM 1 out of reach.
Follows(c, d) ==
    /\ c.setUp = d.setUp /\ c.released = d.released /\ c.pocket = d.pocket
    /\ c.failure \/ (c.failure = d.failure /\ c.rec = d.rec)

LEMMA FollowsFits ==
  ASSUME NEW c \in CamType, link \in [Links -> LinkType], Reported, c.setUp, ~c.released, c.pocket # 0,
         NEW d, Follows(d, Read(c))
  PROVE  Fits(link[c.pocket], d)
  BY ReadFits DEF Follows, Fits

\* The links' part of the invariant is about what the page may read of them.
SameShown(k, lk) ==
    /\ k.conn = lk.conn /\ k.fresh = lk.fresh /\ k.rec = lk.rec
    /\ k.queued = lk.queued /\ k.notifier = lk.notifier

SameNews(k, lk) == SameShown(k, lk) /\ k.reported = lk.reported

\* A step of one link's thread.
LEMMA LinkStepKeeps ==
  ASSUME Kinds, HeldLink(link, cam), Reported, LinkHeard,
         NEW l \in Links, NEW lk \in LinkType, LinkStep(l, lk),
         lk.fresh => lk.reported,
         cam.pocket = l => /\ lk.thread \notin {"none", "ends"}
                           /\ \A i \in 1 .. Len(lk.inbox) : lk.inbox[i].what # "letgo"
                           /\ lk.queued \/ SameShown(lk, link[l])
  PROVE  link' \in [Links -> LinkType] /\ (HeldLink(link, cam))' /\ Reported' /\ LinkHeard'
  <1> DEFINE new == IF cam.pocket = l \/ lk = NoLink THEN lk ELSE Unread(lk)
  <1>1. link' = [link EXCEPT ![l] = new] /\ cam' = cam
    BY DEF LinkStep
  <1>2. new \in LinkType
    BY UnreadIs
  <1>3. new.fresh => new.reported
    BY UnreadIs DEF Unread, NoLink, LinkType
  <1>4. cam.pocket = l => new = lk
    OBVIOUS
  <1> HIDE DEF new
  <1>5. link' \in [Links -> LinkType] /\ link'[l] = new /\ \A k \in Links \ {l} : link'[k] = link[k]
    BY <1>1, <1>2 DEF Kinds
  <1>6. cam.pocket \in Links \cup {0}
    BY DEF Kinds, CamType
  <1>7. (HeldLink(link, cam))'
    BY <1>1, <1>4, <1>5, <1>6 DEF HeldLink
  <1>8. Reported'
    BY <1>3, <1>5 DEF Reported
  <1>9. LinkHeard'
    <2> SUFFICES ASSUME NEW k \in Links, cam.pocket = k, cam.setUp,
                        ~link'[k].queued, link'[k].notifier # "calls"
                 PROVE  /\ link'[k].conn # "connected" => cam.failure
                        /\ link'[k].fresh /\ ~cam.failure => cam.rec = link'[k].rec
      BY <1>1 DEF LinkHeard
    <2>1. CASE k = l
      BY <1>4, <1>5, <2>1 DEF LinkHeard, SameNews, SameShown
    <2>2. CASE k # l
      BY <1>5, <2>2 DEF LinkHeard
    <2> QED  BY <2>1, <2>2
  <1> QED  BY <1>5, <1>7, <1>8, <1>9

\* A held link that goes through a pass goes on.
LEMMA PassesOn ==
  ASSUME NEW l \in Links, NEW lk \in LinkType, cam.pocket = l
  PROVE  /\ Passes(l, lk).thread = "open" /\ Passes(l, lk).inbox = lk.inbox
         /\ SameNews(Passes(l, lk), lk)
         /\ Handled(l, lk).thread \in {"open", lk.thread} /\ Handled(l, lk).inbox = lk.inbox
         /\ SameNews(Handled(l, lk), lk)
  BY DEF Passes, Handled, SameNews, SameShown, LinkType

\* What the page may read of a link is the same after the end of a pass.
LEMMA PassesNews ==
  ASSUME NEW l \in Links, NEW lk \in LinkType
  PROVE  SameNews(Passes(l, lk), lk) /\ SameNews(Handled(l, lk), lk)
  BY DEF Passes, Handled, SameNews, SameShown, LinkType

\* The links' part of the invariant, over steps that leave the runtime alone.
Linked == HeldLink(link, cam) /\ Reported /\ LinkHeard

LEMMA RepliesIs ==
  ASSUME press \in PressType, NEW order, NEW ok \in BOOLEAN, Replies(order, ok)
  PROVE  /\ press' \in PressType /\ press'.deck = press.deck /\ press'.at = press.at
         /\ press.pc = "none" => press' = press
         /\ press'.pc = "waiting" => press' = press
  <1>1. press' = press \/ (press' = [press EXCEPT !.pc = "answered", !.ok = ok] /\ press.pc = "waiting")
    BY DEF Replies
  <1>2. CASE press' = press
    BY <1>2
  <1>3. CASE press' = [press EXCEPT !.pc = "answered", !.ok = ok] /\ press.pc = "waiting"
    BY <1>3 DEF PressType
  <1> QED  BY <1>1, <1>2, <1>3

\* What a held link's inbox holds is never the order to let go.
NoLetGo(lk) == \A i \in 1 .. Len(lk.inbox) : lk.inbox[i].what # "letgo"

LEMMA TakenHolds ==
  ASSUME NEW lk \in LinkType, lk.inbox # <<>>, NoLetGo(lk)
  PROVE  NoLetGo(Takes1(lk)) /\ Next1(lk).what # "letgo"
  <1>1. Takes1(lk).inbox = Tail(lk.inbox)
    BY TakenIs DEF LinkType
  <1>2. \A i \in 1 .. Len(Tail(lk.inbox)) : i + 1 \in 1 .. Len(lk.inbox)
    BY TakenIs
  <1>3. 1 \in 1 .. Len(lk.inbox)
    BY TakenIs
  <1> QED  BY <1>1, <1>2, <1>3, TakenIs DEF NoLetGo

\* The links after a step that only adds to what waits in their inboxes.
OnlyAdds(new, old) ==
    /\ new \in [Links -> LinkType]
    /\ \A l \in Links :
          /\ SameNews(new[l], old[l])
          /\ old[l].thread \notin {"none", "ends"} => new[l].thread \notin {"none", "ends"}
          /\ NoLetGo(old[l]) => NoLetGo(new[l])

LEMMA OnlyAddsKeeps ==
  ASSUME Kinds, Linked, OnlyAdds(link', link), cam' = cam
  PROVE  Linked'
  <1>1. cam.pocket \in Links \cup {0}
    BY DEF Kinds, CamType
  <1>2. (HeldLink(link, cam))'
    BY <1>1 DEF Linked, HeldLink, OnlyAdds, NoLetGo
  <1>3. Reported'
    BY DEF Linked, Reported, OnlyAdds, SameNews, SameShown
  <1>4. LinkHeard'
    BY DEF Linked, LinkHeard, OnlyAdds, SameNews, SameShown
  <1> QED  BY <1>2, <1>3, <1>4 DEF Linked

LEMMA AppendHolds ==
  ASSUME NEW lk \in LinkType, NEW o \in OrderType, o.what # "letgo"
  PROVE  LET k == [lk EXCEPT !.inbox = Append(lk.inbox, o)] IN
         /\ k \in LinkType /\ SameNews(k, lk) /\ k.thread = lk.thread
         /\ NoLetGo(lk) => NoLetGo(k)
  <1> DEFINE box == Append(lk.inbox, o)
             k == [lk EXCEPT !.inbox = box]
  <1>1. lk.inbox \in Seq(OrderType)
    BY DEF LinkType
  <1>2. /\ box \in Seq(OrderType) /\ Len(box) = Len(lk.inbox) + 1 /\ Len(lk.inbox) \in Nat
        /\ box[Len(lk.inbox) + 1] = o /\ \A i \in 1 .. Len(lk.inbox) : box[i] = lk.inbox[i]
    BY <1>1
  <1> HIDE DEF box
  <1>3. k \in LinkType /\ SameNews(k, lk) /\ k.thread = lk.thread /\ k.inbox = box
    BY <1>2 DEF LinkType, SameNews, SameShown
  <1> HIDE DEF k
  <1>4. NoLetGo(lk) => NoLetGo(k)
    BY <1>2, <1>3 DEF NoLetGo
  <1> QED  BY <1>3, <1>4 DEF k, box

LEMMA HearsMore ==
  ASSUME NEW rec \in Takes \cup {"unknown"}, NEW links \in [Links -> LinkType]
  PROVE  OnlyAdds(HearsOf(rec, links), links)
  <1>1. Order("control", rec) \in OrderType /\ Order("control", rec).what # "letgo"
    BY OrderIs DEF Order
  <1>2. ASSUME NEW l \in Links
        PROVE  /\ HearsOf(rec, links)[l] \in LinkType
               /\ SameNews(HearsOf(rec, links)[l], links[l])
               /\ HearsOf(rec, links)[l].thread = links[l].thread
               /\ NoLetGo(links[l]) => NoLetGo(HearsOf(rec, links)[l])
    <2> DEFINE k == [links[l] EXCEPT !.inbox = Append(links[l].inbox, Order("control", rec))]
    <2>1. HearsOf(rec, links)[l] = links[l] \/ HearsOf(rec, links)[l] = k
      BY DEF HearsOf
    <2>2. k \in LinkType /\ SameNews(k, links[l]) /\ k.thread = links[l].thread
          /\ (NoLetGo(links[l]) => NoLetGo(k))
      BY <1>1, AppendHolds
    <2> HIDE DEF k
    <2> QED  BY <2>1, <2>2 DEF SameNews, SameShown
  <1>3. HearsOf(rec, links) \in [Links -> LinkType]
    BY <1>2 DEF HearsOf
  <1> QED  BY <1>2, <1>3 DEF OnlyAdds

\* Whatever a link's thread does: the kinds stay, the page hears of it, and
\* the press keeps its time.
LEMMA LinkThreadKeeps ==
  ASSUME Kinds, Linked, NEW l \in Links, LinkThread(l)
  PROVE  /\ link' \in [Links -> LinkType] /\ Linked'
         /\ camera' \in Takes \cup {"unknown"} /\ UNCHANGED <<cam, now, over, acted>>
         /\ press' \in PressType /\ press'.deck = press.deck /\ press'.at = press.at
         /\ press.pc = "none" => press' = press
         /\ press'.pc = "waiting" => press' = press
  <1> DEFINE lk == link[l]
  <1>a. lk \in LinkType /\ press \in PressType /\ camera \in Takes \cup {"unknown"}
    BY DEF Kinds
  <1>b. lk.fresh => lk.reported
    BY DEF Linked, Reported
  <1>c. cam.pocket = l => lk.thread \notin {"none", "ends"} /\ NoLetGo(lk)
    BY LinksAre DEF Linked, HeldLink, NoLetGo
  <1> HIDE DEF lk
  <1>d. ASSUME NEW k \in LinkType, LinkStep(l, k), k.fresh => k.reported,
               cam.pocket = l => k.thread \notin {"none", "ends"} /\ NoLetGo(k)
                                 /\ (k.queued \/ SameShown(k, lk))
        PROVE  link' \in [Links -> LinkType] /\ Linked' /\ camera' \in Takes \cup {"unknown"}
               /\ UNCHANGED <<camera, cam, now, over, acted>>
    <2>1. UNCHANGED <<camera, cam, now, over, acted>>
      BY <1>d DEF LinkStep
    <2>2. cam.pocket = l => /\ k.thread \notin {"none", "ends"}
                            /\ \A i \in 1 .. Len(k.inbox) : k.inbox[i].what # "letgo"
                            /\ k.queued \/ SameShown(k, link[l])
      BY <1>d DEF lk, NoLetGo
    <2>3. Kinds /\ HeldLink(link, cam) /\ Reported /\ LinkHeard
      BY DEF Linked
    <2>4. link' \in [Links -> LinkType] /\ (HeldLink(link, cam))' /\ Reported' /\ LinkHeard'
      BY <1>d, <2>2, <2>3, LinkStepKeeps
    <2> QED  BY <1>a, <2>1, <2>4 DEF Linked
  <1>e. press' = press => /\ press' \in PressType /\ press'.deck = press.deck /\ press'.at = press.at
                          /\ (press.pc = "none" => press' = press)
                          /\ (press'.pc = "waiting" => press' = press)
    BY <1>a
  <1>1. CASE SessionOpens(l)
    <2> DEFINE k == [lk EXCEPT !.thread = "open"]
    <2>1. LinkStep(l, k) /\ press' = press
      BY <1>1 DEF SessionOpens, lk
    <2>2. /\ k \in LinkType /\ k.fresh = lk.fresh /\ k.reported = lk.reported /\ k.thread = "open"
          /\ k.inbox = lk.inbox /\ SameNews(k, lk)
      BY <1>a DEF LinkType, SameNews, SameShown
    <2> HIDE DEF k
    <2> QED  BY <1>b, <1>c, <1>d, <1>e, <2>1, <2>2 DEF NoLetGo, SameNews
  <1>2. CASE SessionFails(l)
    <2> DEFINE failed == [lk EXCEPT !.thread = "retry", !.conn = "stopped"]
               k == IF lk.conn = "stopped" THEN failed ELSE Noticed(failed)
    <2>1. LinkStep(l, k) /\ press' = press
      BY <1>2 DEF SessionFails, lk
    <2>2. /\ k \in LinkType /\ k.fresh = lk.fresh /\ k.reported = lk.reported /\ k.thread = "retry"
          /\ k.inbox = lk.inbox /\ (k.queued \/ SameShown(k, lk))
      BY <1>a DEF LinkType, SameNews, SameShown, Noticed
    <2> HIDE DEF k
    <2> QED  BY <1>b, <1>c, <1>d, <1>e, <2>1, <2>2 DEF NoLetGo, SameNews
  <1>3. CASE Retries(l)
    <2> DEFINE k == [lk EXCEPT !.thread = "session"]
    <2>1. LinkStep(l, k) /\ press' = press
      BY <1>3 DEF Retries, lk
    <2>2. /\ k \in LinkType /\ k.fresh = lk.fresh /\ k.reported = lk.reported /\ k.thread = "session"
          /\ k.inbox = lk.inbox /\ SameNews(k, lk)
      BY <1>a DEF LinkType, SameNews, SameShown
    <2> HIDE DEF k
    <2> QED  BY <1>b, <1>c, <1>d, <1>e, <2>1, <2>2 DEF NoLetGo, SameNews
  <1>4. CASE Subscribes(l)
    <2>0. PICK sent \in {<<>>, <<Order("control", camera)>>} :
             LinkStep(l, Noticed([lk EXCEPT !.subscribed = TRUE, !.conn = "connected",
                                            !.reported = FALSE, !.fresh = FALSE,
                                            !.inbox = lk.inbox \o sent])) /\ press' = press
      BY <1>4 DEF Subscribes, lk
    <2> DEFINE box == lk.inbox \o sent
               k == Noticed([lk EXCEPT !.subscribed = TRUE, !.conn = "connected",
                                       !.reported = FALSE, !.fresh = FALSE, !.inbox = box])
    <2>1. LinkStep(l, k) /\ press' = press /\ Open(lk)
      BY <1>4, <2>0 DEF Subscribes, lk
    <2>2. Order("control", camera) \in OrderType /\ Order("control", camera).what = "control"
      BY <1>a, OrderIs DEF Order
    <2>3. lk.inbox \in Seq(OrderType)
      BY <1>a DEF LinkType
    <2>4. box \in Seq(OrderType) /\ (NoLetGo(lk) => \A i \in 1 .. Len(box) : box[i].what # "letgo")
      <3>1. CASE sent = <<>>
        BY <2>3, <3>1 DEF NoLetGo
      <3>2. CASE sent = <<Order("control", camera)>>
        <4>1. Len(box) = Len(lk.inbox) + 1 /\ box[Len(lk.inbox) + 1] = Order("control", camera)
              /\ \A i \in 1 .. Len(lk.inbox) : box[i] = lk.inbox[i]
          BY <2>2, <2>3, <3>2
        <4>2. box \in Seq(OrderType)
          BY <2>2, <2>3, <3>2
        <4> QED  BY <2>2, <2>3, <4>1, <4>2 DEF NoLetGo
      <3> QED  BY <3>1, <3>2
    <2> HIDE DEF box
    <2>5. /\ k \in LinkType /\ ~k.fresh /\ k.thread = lk.thread /\ k.inbox = box /\ k.queued
      BY <1>a, <2>4 DEF LinkType, Noticed
    <2> HIDE DEF k
    <2> QED  BY <1>c, <1>d, <1>e, <2>1, <2>4, <2>5 DEF NoLetGo
  <1>5. CASE RefusesOrder(l)
    <2> DEFINE k == Handled(l, Takes1(lk))
    <2>1. LinkStep(l, k) /\ lk.inbox # <<>> /\ Replies(Next1(lk), FALSE) /\ lk.thread \in {"retry", "open"}
      BY <1>5 DEF RefusesOrder, lk
    <2>2. Takes1(lk) \in LinkType /\ Takes1(lk).fresh = lk.fresh /\ Takes1(lk).reported = lk.reported
          /\ Takes1(lk).thread = lk.thread /\ SameNews(Takes1(lk), lk)
      BY <1>a, <2>1, TakenIs DEF LinkType, SameNews, SameShown
    <2>3. k \in LinkType /\ SameNews(k, Takes1(lk))
      BY <2>2, PassesIs, PassesNews
    <2>4. cam.pocket = l => k.thread \in {"open", lk.thread} /\ k.inbox = Takes1(lk).inbox
      BY <2>2, PassesOn
    <2>5. cam.pocket = l => NoLetGo(Takes1(lk))
      BY <1>a, <1>c, <2>1, TakenHolds
    <2> HIDE DEF k
    <2>6. press' \in PressType /\ press'.deck = press.deck /\ press'.at = press.at
          /\ (press.pc = "none" => press' = press) /\ (press'.pc = "waiting" => press' = press)
      BY <1>a, <2>1, RepliesIs
    <2> QED  BY <1>b, <1>c, <1>d, <2>1, <2>2, <2>3, <2>4, <2>5, <2>6 DEF NoLetGo, SameNews, SameShown
  <1>6. CASE BeginsWrite(l)
    <2> DEFINE k == [Takes1(lk) EXCEPT !.thread = "writing", !.writes = Next1(lk)]
    <2>1. LinkStep(l, k) /\ lk.inbox # <<>> /\ press' = press
      BY <1>6 DEF BeginsWrite, lk
    <2>2. Takes1(lk) \in LinkType /\ Takes1(lk).fresh = lk.fresh /\ Takes1(lk).reported = lk.reported
          /\ SameNews(Takes1(lk), lk) /\ Next1(lk) \in OrderType
      BY <1>a, <2>1, TakenIs DEF LinkType, SameNews, SameShown
    <2>3. /\ k \in LinkType /\ SameNews(k, Takes1(lk)) /\ k.thread = "writing" /\ k.inbox = Takes1(lk).inbox
      BY <2>2 DEF LinkType, SameNews, SameShown
    <2>4. cam.pocket = l => NoLetGo(Takes1(lk))
      BY <1>a, <1>c, <2>1, TakenHolds
    <2> HIDE DEF k
    <2> QED  BY <1>b, <1>c, <1>d, <1>e, <2>1, <2>2, <2>3, <2>4 DEF NoLetGo, SameNews, SameShown
  <1>8. CASE WriteEnds(l)
    <2> DEFINE k0 == [lk EXCEPT !.writes = NoLink.writes]
               k == Passes(l, k0)
    <2>1. LinkStep(l, k) /\ \E ok \in BOOLEAN : Replies(lk.writes, ok)
      BY <1>8 DEF WriteEnds, lk
    <2>2. NoLink.writes \in OrderType
      BY NoLinkIs DEF LinkType
    <2>3. k0 \in LinkType /\ SameNews(k0, lk) /\ k0.inbox = lk.inbox
      BY <1>a, <2>2 DEF LinkType, SameNews, SameShown
    <2> HIDE DEF k0
    <2>4. k \in LinkType /\ SameNews(k, k0)
      BY <2>3, PassesIs, PassesNews
    <2>5. cam.pocket = l => k.thread = "open" /\ k.inbox = k0.inbox
      BY <2>3, PassesOn
    <2> HIDE DEF k
    <2>6. press' \in PressType /\ press'.deck = press.deck /\ press'.at = press.at
          /\ (press.pc = "none" => press' = press) /\ (press'.pc = "waiting" => press' = press)
      BY <1>a, <2>1, RepliesIs
    <2> QED  BY <1>b, <1>c, <1>d, <2>1, <2>3, <2>4, <2>5, <2>6 DEF NoLetGo, SameNews, SameShown
  <1>7. CASE WriteLands(l)
    <2> DEFINE rec == lk.writes.rec
               k == [lk EXCEPT !.thread = "written"]
               written == [link EXCEPT ![l] = k]
    <2>1. /\ camera' = rec /\ UNCHANGED <<cam, press, now, over, acted>>
          /\ link' = written \/ link' = HearsOf(rec, written)
      BY <1>7 DEF WriteLands, lk
    <2>2. k \in LinkType /\ SameNews(k, lk) /\ k.thread = "written" /\ k.inbox = lk.inbox
      BY <1>a DEF LinkType, SameNews, SameShown
    <2> HIDE DEF k
    <2>3. rec \in Takes \cup {"unknown"}
      BY <1>a DEF LinkType, OrderType
    <2> HIDE DEF rec
    <2>4. OnlyAdds(written, link) /\ written \in [Links -> LinkType]
      BY <1>a, <2>2 DEF Kinds, lk, OnlyAdds, SameNews, SameShown, NoLetGo
    <2> HIDE DEF written
    <2>5. OnlyAdds(HearsOf(rec, written), written)
      BY <2>3, <2>4, HearsMore
    <2>6. OnlyAdds(link', link)
      BY <2>1, <2>4, <2>5 DEF OnlyAdds, SameNews, SameShown
    <2> QED  BY <1>e, <2>1, <2>3, <2>6, OnlyAddsKeeps DEF OnlyAdds
  <1>9. CASE HearsReport(l)
    <2> DEFINE k0 == [Takes1(lk) EXCEPT !.rec = Next1(lk).rec, !.reported = TRUE]
               heard == Passes(l, k0)
               k == IF lk.rec = Next1(lk).rec THEN heard ELSE Noticed([heard EXCEPT !.fresh = TRUE])
    <2>1. /\ lk.inbox # <<>> /\ press' = press
          /\ LinkStep(l, k) \/ (lk.thread = "retry" /\ LinkStep(l, Takes1(lk)))
      BY <1>9 DEF HearsReport, lk
    <2>a. Next1(lk) \in OrderType
      BY <1>a, <2>1, TakenIs
    <2>b. Next1(lk).rec \in Takes \cup {"unknown"}
      BY <2>a DEF OrderType
    <2>c. Takes1(lk) \in LinkType /\ SameNews(Takes1(lk), lk) /\ Takes1(lk).thread = lk.thread
      BY <1>a, <2>1, TakenIs DEF LinkType, SameNews, SameShown
    <2>2. /\ Takes1(lk) \in LinkType /\ SameNews(Takes1(lk), lk) /\ Takes1(lk).thread = lk.thread
          /\ Next1(lk).rec \in Takes \cup {"unknown"}
      BY <2>b, <2>c
    <2>3. cam.pocket = l => NoLetGo(Takes1(lk))
      BY <1>a, <1>c, <2>1, TakenHolds
    <2>4. CASE LinkStep(l, Takes1(lk))
      BY <1>b, <1>c, <1>d, <1>e, <2>1, <2>2, <2>3, <2>4 DEF SameNews, SameShown
    <2>5. CASE LinkStep(l, k)
      <3>1. /\ k0 \in LinkType /\ k0.inbox = Takes1(lk).inbox /\ k0.rec = Next1(lk).rec /\ k0.reported
            /\ k0.conn = lk.conn /\ k0.fresh = lk.fresh /\ k0.queued = lk.queued /\ k0.notifier = lk.notifier
        BY <2>2 DEF LinkType, SameNews, SameShown
      <3> HIDE DEF k0
      <3>2. heard \in LinkType /\ SameNews(heard, k0)
            /\ (cam.pocket = l => heard.thread = "open" /\ heard.inbox = k0.inbox)
        BY <3>1, PassesIs, PassesNews, PassesOn
      <3> HIDE DEF heard
      <3> DEFINE k1 == [heard EXCEPT !.fresh = TRUE]
      <3>a. /\ k1 \in LinkType /\ k1.reported = heard.reported /\ k1.thread = heard.thread
            /\ k1.inbox = heard.inbox
        BY <3>2 DEF LinkType
      <3>b. heard.reported
        BY <3>1, <3>2, Zenon DEF SameNews
      <3> HIDE DEF k1
      <3>3. /\ k \in LinkType /\ k.reported /\ k.thread = heard.thread /\ k.inbox = heard.inbox
            /\ k.queued \/ SameShown(k, lk)
        <4>c. CASE k = heard /\ lk.rec = Next1(lk).rec
          BY <3>1, <3>2, <3>b, <4>c DEF SameNews, SameShown
        <4>d. CASE k = Noticed(k1)
          <5>1. k = [k1 EXCEPT !.queued = TRUE]
            BY <4>d DEF Noticed
          <5>2. /\ k \in LinkType /\ k.reported = k1.reported /\ k.thread = k1.thread
                /\ k.inbox = k1.inbox /\ k.queued
            BY <3>a, <5>1 DEF LinkType
          <5>3. k.reported
            BY <3>a, <3>b, <5>2, Zenon
          <5> QED  BY <3>a, <5>2, <5>3
        <4>e. (k = heard /\ lk.rec = Next1(lk).rec) \/ k = Noticed(k1)
          BY DEF k1
        <4> QED  BY <4>c, <4>d, <4>e
      <3> HIDE DEF k
      <3> QED  BY <1>d, <1>e, <2>1, <2>3, <2>5, <3>1, <3>2, <3>3 DEF NoLetGo
    <2> QED  BY <2>1, <2>4, <2>5
  <1>10. CASE HearsDrop(l)
    <2> DEFINE k0 == [Takes1(lk) EXCEPT !.subscribed = FALSE, !.conn = "lost"]
               lost == Passes(l, k0)
               k == IF lk.conn = "lost" THEN lost ELSE Noticed(lost)
               j == Handled(l, Takes1(lk))
    <2>1. /\ lk.inbox # <<>> /\ press' = press
          /\ LinkStep(l, k) \/ LinkStep(l, j)
      BY <1>10 DEF HearsDrop, lk
    <2>2. /\ Takes1(lk) \in LinkType /\ SameNews(Takes1(lk), lk) /\ Takes1(lk).thread = lk.thread
      BY <1>a, <2>1, TakenIs DEF LinkType, SameNews, SameShown
    <2>3. cam.pocket = l => NoLetGo(Takes1(lk))
      BY <1>a, <1>c, <2>1, TakenHolds
    <2>4. CASE LinkStep(l, j)
      <3>1. j \in LinkType /\ SameNews(j, Takes1(lk))
            /\ (cam.pocket = l => j.thread \in {"open", lk.thread} /\ j.inbox = Takes1(lk).inbox)
        BY <2>2, PassesIs, PassesNews, PassesOn
      <3> HIDE DEF j
      <3> QED  BY <1>b, <1>c, <1>d, <1>e, <2>1, <2>2, <2>3, <2>4, <3>1 DEF SameNews, SameShown, NoLetGo
    <2>5. CASE LinkStep(l, k)
      <3>1. /\ k0 \in LinkType /\ k0.inbox = Takes1(lk).inbox /\ k0.rec = lk.rec /\ k0.reported = lk.reported
            /\ k0.conn = "lost" /\ k0.fresh = lk.fresh /\ k0.queued = lk.queued /\ k0.notifier = lk.notifier
        BY <2>2 DEF LinkType, SameNews, SameShown
      <3> HIDE DEF k0
      <3>2. lost \in LinkType /\ SameNews(lost, k0)
            /\ (cam.pocket = l => lost.thread = "open" /\ lost.inbox = k0.inbox)
        BY <3>1, PassesIs, PassesNews, PassesOn
      <3> HIDE DEF lost
      <3>3. /\ k \in LinkType /\ k.fresh = lk.fresh /\ k.reported = lk.reported
            /\ k.thread = lost.thread /\ k.inbox = lost.inbox
            /\ k.queued \/ SameShown(k, lk)
        BY <3>1, <3>2 DEF LinkType, SameNews, SameShown, Noticed
      <3> HIDE DEF k
      <3> QED  BY <1>b, <1>d, <1>e, <2>1, <2>3, <2>5, <3>1, <3>2, <3>3 DEF NoLetGo
    <2> QED  BY <2>1, <2>4, <2>5
  <1>11. CASE ThreadEnds(l)
    <2>1. LinkStep(l, NoLink)
      BY <1>11 DEF ThreadEnds
    <2>2. \/ lk.thread = "ends"
          \/ lk.inbox # <<>> /\ Next1(lk) = LetGo
      BY <1>11 DEF ThreadEnds, lk
    <2>3. cam.pocket # l
      BY <1>a, <1>c, <2>2, TakenHolds DEF LetGo, Order
    <2>4. NoLink \in LinkType /\ ~NoLink.fresh
      BY NoLinkIs DEF NoLink
    <2>5. press' = press \/ (press.pc = "waiting" /\ press' = [press EXCEPT !.pc = "answered"])
      BY <1>11 DEF ThreadEnds
    <2>6. press' \in PressType /\ press'.deck = press.deck /\ press'.at = press.at
          /\ (press.pc = "none" => press' = press) /\ (press'.pc = "waiting" => press' = press)
      BY <1>a, <2>5 DEF PressType
    <2> QED  BY <1>d, <2>1, <2>3, <2>4, <2>6
  <1> QED  BY <1>1, <1>2, <1>3, <1>4, <1>5, <1>6, <1>7, <1>8, <1>9, <1>10, <1>11 DEF LinkThread

-----------------------------------------------------------------------------
\* The runtime's spells under the lock.
LEMMA ReadEnds ==
  ASSUME NEW c \in CamType, link \in [Links -> LinkType], NEW o \in BOOLEAN, EndedBy(c, o)
  PROVE  EndedBy(Read(c), o \/ TakeMayBeOver(Read(c)))
  <1> DEFINE r == Read(c)
  <1>1. /\ r.released = c.released /\ SameArm(r, c)
        /\ ~TakeMayBeOver(r) /\ TakeMayBeOver(c) /\ c.arm # None => r.arm = Stale(c.arm)
        /\ r \in CamType
    BY ReadIs
  <1>2. c.arm # None => Stale(c.arm).stale
    BY StaleIs DEF CamType
  <1> HIDE DEF r
  <1>3. ASSUME r.arm # None, ~r.arm.stale, o, ~TakeMayBeOver(r)
        PROVE  FALSE
    <2>1. c.arm # None /\ r.arm = c.arm
      BY <1>1, <1>2, <1>3 DEF SameArm
    <2>2. ~TakeMayBeOver(c)
      BY <1>1, <1>2, <1>3, <2>1
    <2> QED  BY <1>3, <2>1, <2>2 DEF EndedBy
  <1>4. r.released => r.arm = None \/ r.arm.stale
    BY <1>1, <1>2 DEF EndedBy, SameArm
  <1>5. EndedBy(r, o \/ TakeMayBeOver(r))
    BY <1>3, <1>4 DEF EndedBy
  <1> QED  BY <1>5 DEF r

LEMMA RuntimeLinked ==
  ASSUME NEW c \in CamType, cam' = c, link' \in [Links -> LinkType], Reported',
         c.released => c.pocket = 0,
         c.pocket # 0 => /\ link'[c.pocket].thread \notin {"none", "ends"}
                         /\ NoLetGo(link'[c.pocket])
                         /\ c.setUp => Fits(link'[c.pocket], c)
  PROVE  Linked'
  <1>1. (HeldLink(link, cam))'
    BY DEF HeldLink, NoLetGo
  <1>2. LinkHeard'
    BY LinksAre DEF LinkHeard, Fits
  <1> QED  BY <1>1, <1>2 DEF Linked

LEMMA AddsReported == ASSUME Reported, OnlyAdds(link', link) PROVE Reported'
  BY DEF Reported, OnlyAdds, SameNews, SameShown

LEMMA FollowsLinked ==
  ASSUME Kinds, Linked, NEW d \in CamType, Follows(d, Read(cam)), cam' = d, OnlyAdds(link', link)
  PROVE  Linked'
  <1>1. d.setUp = cam.setUp /\ d.released = cam.released /\ d.pocket = cam.pocket
    BY ReadIs DEF Kinds, Follows
  <1>2. d.pocket \in Links \cup {0}
    BY DEF CamType
  <1>3. Reported /\ link \in [Links -> LinkType] /\ HeldLink(link, cam)
    BY DEF Kinds, Linked
  <1>4. d.pocket # 0 /\ d.setUp => Fits(link[d.pocket], d)
    BY <1>1, <1>3, FollowsFits DEF Kinds, HeldLink
  <1>5. Reported' /\ link' \in [Links -> LinkType]
    BY <1>3, AddsReported DEF OnlyAdds
  <1>6. ASSUME d.pocket # 0
        PROVE  /\ link'[d.pocket].thread \notin {"none", "ends"}
               /\ NoLetGo(link'[d.pocket])
               /\ d.setUp => Fits(link'[d.pocket], d)
    <2>1. /\ link[d.pocket].thread \notin {"none", "ends"} /\ NoLetGo(link[d.pocket])
      BY <1>1, <1>3, <1>6 DEF HeldLink, NoLetGo
    <2>2. /\ SameNews(link'[d.pocket], link[d.pocket])
          /\ link'[d.pocket].thread \notin {"none", "ends"} /\ NoLetGo(link'[d.pocket])
      BY <1>2, <1>6, <2>1 DEF OnlyAdds
    <2>3. d.setUp => Fits(link'[d.pocket], d)
      BY <1>4, <1>6, <2>2 DEF Fits, SameNews, SameShown
    <2> QED  BY <2>2, <2>3
  <1>7. d.released => d.pocket = 0
    BY <1>1, <1>3 DEF HeldLink
  <1> QED  BY <1>5, <1>6, <1>7, RuntimeLinked

LEMMA OnlyAddsNothing == ASSUME link \in [Links -> LinkType], link' = link PROVE OnlyAdds(link', link)
  BY DEF OnlyAdds, SameNews, SameShown

LEMMA LetsGoIs ==
  ASSUME NEW links \in [Links -> LinkType], NEW p \in Links \cup {0},
         \A k \in Links : links[k].fresh => links[k].reported
  PROVE  /\ LetsGo(links, p) \in [Links -> LinkType]
         /\ \A k \in Links \ {p} : LetsGo(links, p)[k] = links[k]
         /\ \A k \in Links : LetsGo(links, p)[k].fresh => LetsGo(links, p)[k].reported
  <1>1. CASE p = 0
    BY <1>1 DEF LetsGo
  <1>2. CASE p # 0
    <2> DEFINE u == Unread(links[p])
               k == [u EXCEPT !.inbox = Append(u.inbox, LetGo)]
    <2>1. u \in LinkType /\ ~u.fresh
      BY <1>2, UnreadIs DEF Unread, NoLink
    <2>2. LetGo \in OrderType
      BY OrderIs DEF LetGo
    <2> HIDE DEF u
    <2>3. k \in LinkType /\ ~k.fresh
      BY <2>1, <2>2, SentIs DEF LinkType
    <2>4. LetsGo(links, p) = [links EXCEPT ![p] = k]
      BY <1>2 DEF LetsGo, u
    <2> HIDE DEF k
    <2> QED  BY <1>2, <2>3, <2>4
  <1> QED  BY <1>1, <1>2

\* Rust's holding of a link, and the read that follows.
LEMMA HoldsAndReadsKeeps ==
  ASSUME Kinds, Linked, NEW c \in CamType, c.setUp, ~c.released, c.pocket = cam.pocket,
         EndedBy(c, over), HoldsAndReads(c), camera' = camera, UNCHANGED <<press, now, acted>>
  PROVE  Kinds' /\ Linked' /\ Ended' /\ cam'.recAt = c.recAt /\ SameArm(cam', c)
  <1>1. Reported /\ link \in [Links -> LinkType] /\ HeldLink(link, cam) /\ over \in BOOLEAN
    BY DEF Kinds, Linked
  <1>2. c.pocket \in Links \cup {0}
    BY DEF CamType
  <1>3. CASE Keeps(Read(c)) /\ link' = link /\ c.pocket # 0
    <2> DEFINE r == Read(c)
    <2>1. cam' = r /\ over' = (over \/ TakeMayBeOver(r))
      BY <1>3 DEF Keeps
    <2>2. r \in CamType /\ r.setUp = c.setUp /\ r.released = c.released /\ r.pocket = c.pocket
          /\ r.recAt = c.recAt /\ SameArm(r, c)
      BY <1>1, ReadIs
    <2>3. Fits(link[c.pocket], r)
      BY <1>1, <1>3, ReadFits
    <2>4. EndedBy(r, over \/ TakeMayBeOver(r))
      BY <1>1, ReadEnds
    <2> HIDE DEF r
    <2>5. link'[r.pocket].thread \notin {"none", "ends"} /\ NoLetGo(link'[r.pocket])
      BY <1>1, <1>3, <2>2 DEF HeldLink, NoLetGo
    <2>6. Reported'
      BY <1>1, <1>3 DEF Reported
    <2>7. Linked'
      BY <1>1, <1>3, <2>1, <2>2, <2>3, <2>5, <2>6, RuntimeLinked
    <2>8. Kinds' /\ Ended'
      BY <1>1, <1>3, <2>1, <2>2, <2>4 DEF Kinds, Ended
    <2> QED  BY <2>1, <2>2, <2>7, <2>8
  <1>4. ASSUME NEW l \in Links, link[l].thread = "none",
               link' = [LetsGo(link, c.pocket) EXCEPT ![l] = Started(c.rec)],
               Keeps([c EXCEPT !.pocket = l, !.failure = TRUE])
        PROVE  Kinds' /\ Linked' /\ Ended' /\ cam'.recAt = c.recAt /\ SameArm(cam', c)
    <2> DEFINE d == [c EXCEPT !.pocket = l, !.failure = TRUE]
               k == Started(c.rec)
    <2>1. cam' = d /\ over' = (over \/ TakeMayBeOver(d))
      BY <1>4 DEF Keeps
    <2>2. /\ d \in CamType /\ d.setUp = c.setUp /\ d.released = c.released /\ d.pocket = l
          /\ d.failure = TRUE /\ d.recAt = c.recAt /\ d.arm = c.arm
      BY DEF CamType
    <2>3. k \in LinkType /\ k.thread = "session" /\ ~k.fresh /\ k.inbox = <<>>
      <3>1. c.rec \in Takes \cup {"unknown", None}
        BY DEF CamType
      <3>2. k \in LinkType
        BY <3>1, NoLinkIs
      <3> QED  BY <3>2 DEF Started, NoLink
    <2> HIDE DEF d, k
    <2>4. /\ LetsGo(link, c.pocket) \in [Links -> LinkType]
          /\ \A j \in Links : LetsGo(link, c.pocket)[j].fresh => LetsGo(link, c.pocket)[j].reported
      BY <1>1, <1>2, LetsGoIs DEF Reported
    <2>5. /\ link' \in [Links -> LinkType] /\ link'[l] = k
          /\ \A j \in Links \ {l} : link'[j] = LetsGo(link, c.pocket)[j]
      BY <1>4, <2>3, <2>4 DEF k
    <2>6. Reported'
      BY <2>3, <2>4, <2>5 DEF Reported
    <2>7. NoLetGo(k)
      BY <2>3 DEF NoLetGo
    <2>8. Fits(k, d)
      BY <2>2, <2>3 DEF Fits
    <2>9. Linked'
      BY <2>1, <2>2, <2>3, <2>5, <2>6, <2>7, <2>8, RuntimeLinked
    <2>10. TakeMayBeOver(d)
      BY <2>2 DEF TakeMayBeOver, Held
    <2>11. Ended'
      BY <2>1, <2>2, <2>10 DEF Ended, EndedBy
    <2>12. Kinds'
      BY <1>1, <2>1, <2>2, <2>5 DEF Kinds
    <2> QED  BY <2>1, <2>2, <2>9, <2>11, <2>12 DEF SameArm
  <1> QED  BY <1>3, <1>4 DEF HoldsAndReads

-----------------------------------------------------------------------------
\* The inductive invariant.
Inv == Kinds /\ Linked /\ Ended /\ Paced

LEMMA InvInit == Init => Inv
  <1> SUFFICES ASSUME Init PROVE Inv
    OBVIOUS
  <1>1. PICK saved \in Takes \cup {None} :
          /\ cam = [setUp |-> TRUE, released |-> FALSE, pocket |-> 1, failure |-> TRUE,
                    rec |-> saved, arm |-> None, recAt |-> None]
          /\ link = [l \in Links |-> IF l = 1 THEN Started(saved) ELSE NoLink]
    BY DEF Init
  <1>2. cam \in CamType
    BY <1>1, LinksAre DEF CamType
  <1>3. Started(saved) \in LinkType /\ NoLink \in LinkType
    BY NoLinkIs
  <1>4. /\ Started(saved).thread = "session" /\ ~Started(saved).fresh /\ Started(saved).inbox = <<>>
        /\ ~NoLink.fresh
    BY <1>3 DEF Started, NoLink
  <1>5. NoPress \in PressType /\ NoPress.pc = "none"
    BY DEF NoPress, PressType, Takes
  <1>6. Kinds
    BY <1>1, <1>2, <1>3, <1>5 DEF Init, Kinds
  <1>7. Linked
    <2>1. link[1] = Started(saved) /\ \A l \in Links : ~link[l].fresh
      BY <1>1, <1>4, LinksAre
    <2>2. cam.pocket = 1 /\ cam.failure = TRUE /\ ~cam.released
      BY <1>1
    <2>3. HeldLink(link, cam)
      BY <1>4, <2>1, <2>2 DEF HeldLink
    <2>4. Reported /\ LinkHeard
      BY <2>1, <2>2 DEF Reported, LinkHeard
    <2> QED  BY <2>3, <2>4 DEF Linked
  <1>8. Ended
    BY <1>1 DEF Ended, EndedBy
  <1>9. Paced
    BY <1>5 DEF Init, Paced
  <1> QED  BY <1>6, <1>7, <1>8, <1>9 DEF Inv

\* A spell that leaves what it read, or calls CAM 1 out of reach.
LEMMA SpellKeeps ==
  ASSUME Inv, NEW d \in CamType, Follows(d, Read(cam)), d.arm \in {None, Read(cam).arm},
         Keeps(d), OnlyAdds(link', link)
  PROVE  /\ link' \in [Links -> LinkType] /\ Linked' /\ Ended' /\ over' \in BOOLEAN
         /\ cam' = d
  <1> DEFINE r == Read(cam)
  <1>0. Kinds /\ Linked /\ Ended
    BY DEF Inv
  <1>1. EndedBy(r, over \/ TakeMayBeOver(r))
    BY <1>0, ReadEnds DEF Kinds, Ended
  <1>2. d.arm \in {None, r.arm} /\ Follows(d, r)
    OBVIOUS
  <1>3. cam' = d /\ over' = (over \/ TakeMayBeOver(d))
    BY DEF Keeps
  <1>4. Linked'
    BY <1>0, <1>3, FollowsLinked
  <1> HIDE DEF r
  <1>5. ~TakeMayBeOver(d) => ~TakeMayBeOver(r)
    BY <1>2 DEF Follows, TakeMayBeOver, Held
  <1>6. EndedBy(d, over \/ TakeMayBeOver(d))
    BY <1>0, <1>1, <1>2, <1>5 DEF EndedBy, Follows, Kinds
  <1>7. link' \in [Links -> LinkType]
    BY DEF OnlyAdds
  <1>8. Ended'
    BY <1>3, <1>6 DEF Ended
  <1>9. over' \in BOOLEAN
    BY <1>0, <1>3 DEF Kinds
  <1> QED  BY <1>3, <1>4, <1>7, <1>8, <1>9

\* The order of a press joins its link's inbox.
LEMMA BeginsIs ==
  ASSUME Kinds, NEW c \in CamType, NEW rec \in Takes, NEW deck \in BOOLEAN, NEW at \in Nat,
         Begins(c, rec, deck, at), c.pocket # 0
  PROVE  /\ OnlyAdds(link', link)
         /\ press' \in PressType /\ press'.deck = deck /\ press'.at = at /\ press'.rec = rec
  <1>1. c.pocket \in Links /\ link \in [Links -> LinkType]
    BY DEF CamType, Kinds
  <1> DEFINE k == [link[c.pocket] EXCEPT !.inbox = Append(link[c.pocket].inbox, Order("send", rec))]
  <1>2. Order("send", rec) \in OrderType /\ Order("send", rec).what # "letgo"
    BY OrderIs DEF Order
  <1>3. k \in LinkType /\ SameNews(k, link[c.pocket]) /\ k.thread = link[c.pocket].thread
        /\ (NoLetGo(link[c.pocket]) => NoLetGo(k))
    BY <1>1, <1>2, AppendHolds
  <1>4. link' = [link EXCEPT ![c.pocket] = k]
    BY <1>1 DEF Begins
  <1> HIDE DEF k
  <1>5. OnlyAdds(link', link)
    BY <1>1, <1>3, <1>4 DEF OnlyAdds, SameNews, SameShown
  <1>6. press' = [pc |-> "waiting", rec |-> rec, deck |-> deck, at |-> at, ok |-> FALSE]
    BY DEF Begins
  <1> QED  BY <1>5, <1>6 DEF PressType

LEMMA HeldHasLink ==
  ASSUME Kinds, Linked, Held(Read(cam))
  PROVE  Read(cam).pocket # 0 /\ Read(cam).setUp /\ ~Read(cam).released
  <1>1. /\ Read(cam).setUp /\ ~Read(cam).released /\ ~Read(cam).failure
    BY DEF Held
  <1>2. cam \in CamType /\ link \in [Links -> LinkType]
    BY DEF Kinds
  <1>3. cam.setUp /\ ~cam.released /\ Read(cam).pocket = cam.pocket
    BY <1>1, <1>2, ReadIs
  <1>4. Answers(cam)
    BY <1>1, <1>2, <1>3, ReadIs
  <1> QED  BY <1>1, <1>3, <1>4 DEF Answers

\* What the deck's key sends, and when.
LEMMA DeckSendsIs ==
  ASSUME Inv, NEW at, NEW rec \in Takes, DeckPress(Read(cam), at), DeckSends(Read(cam), rec, at)
  PROVE  /\ Inv' /\ press'.at = at /\ press'.rec = rec
         /\ cam' = Read(cam)
         /\ acted > 0 => at >= acted + Dwell
  <1> DEFINE c == Read(cam)
  <1>0. Kinds /\ Linked /\ Ended /\ Paced
    BY DEF Inv
  <1>1. c \in CamType /\ c.recAt = cam.recAt
    BY <1>0, ReadIs DEF Kinds
  <1>2. Held(c) /\ ~Dwells(c, at) /\ at \in Nat /\ press.pc = "none"
    BY <1>0 DEF DeckPress, Kinds
  <1>3. c.pocket # 0
    BY <1>0, <1>2, HeldHasLink
  <1>4. Begins(c, rec, TRUE, at) /\ Keeps(c) /\ UNCHANGED <<camera, now, acted>>
    BY DEF DeckSends
  <1>5. /\ OnlyAdds(link', link)
        /\ press' \in PressType /\ press'.deck = TRUE /\ press'.at = at /\ press'.rec = rec
    BY <1>0, <1>1, <1>2, <1>3, <1>4, BeginsIs
  <1>6. Follows(c, c) /\ c.arm \in {None, c.arm}
    BY DEF Follows
  <1>7. link' \in [Links -> LinkType] /\ Linked' /\ Ended' /\ over' \in BOOLEAN /\ cam' = c
    BY <1>1, <1>4, <1>5, <1>6, SpellKeeps
  <1>8. acted > 0 => at >= acted + Dwell
    BY <1>0, <1>1, <1>2, CameraAssumption DEF Paced, Dwells, Since, Kinds
  <1> HIDE DEF c
  <1>9. Kinds'
    BY <1>0, <1>1, <1>4, <1>5, <1>7 DEF Kinds
  <1>10. Paced'
    BY <1>0, <1>1, <1>4, <1>5, <1>7, <1>8 DEF Paced
  <1> QED  BY <1>5, <1>7, <1>8, <1>9, <1>10 DEF Inv, c

\* What StopsItsTake and DoublePressKept say of one step.
StopStep == DeckBegins /\ press'.rec = "off" => ~over'
DwellStep ==
    /\ DeckBegins /\ acted > 0 => press'.at >= acted + Dwell
    /\ (/\ cam'.arm # None /\ (cam.arm = None \/ cam.arm.at # cam'.arm.at) /\ acted > 0)
          => cam'.arm.at >= acted + Dwell

\* A step that begins no press of the deck's and arms nothing.
Quiet == ~DeckBegins /\ (cam'.arm # None => cam.arm # None /\ cam.arm.at = cam'.arm.at)

LEMMA QuietTells == Quiet => StopStep /\ DwellStep
  BY DEF Quiet, StopStep, DwellStep

LEMMA SameArmQuiet ==
  ASSUME NEW c \in CamType, NEW d, SameArm(d, c)
  PROVE  d.arm # None => c.arm # None /\ d.arm.at = c.arm.at
  <1>1. c.arm # None => Stale(c.arm).at = c.arm.at
    BY StaleIs DEF CamType
  <1> QED  BY <1>1 DEF SameArm

\* A spell that begins no press.
LEMMA SpellStep ==
  ASSUME Inv, NEW d \in CamType, Follows(d, Read(cam)), d.arm \in {None, Read(cam).arm},
         d.recAt = cam.recAt, Keeps(d), OnlyAdds(link', link),
         camera' = camera, UNCHANGED <<now, acted>>,
         press' \in PressType, press'.pc # "none" => press'.deck = FALSE \/ press' = press
  PROVE  Inv' /\ Quiet
  <1>0. Kinds /\ Linked /\ Ended /\ Paced
    BY DEF Inv
  <1>1. link' \in [Links -> LinkType] /\ Linked' /\ Ended' /\ over' \in BOOLEAN /\ cam' = d
    BY SpellKeeps
  <1>2. Kinds'
    BY <1>0, <1>1 DEF Kinds
  <1>3. Paced'
    BY <1>0, <1>1 DEF Paced, Kinds, PressType
  <1>4. SameArm(Read(cam), cam)
    BY <1>0, ReadIs DEF Kinds
  <1>5. d.arm # None => cam.arm # None /\ d.arm.at = cam.arm.at
    BY <1>0, <1>4, SameArmQuiet DEF Kinds
  <1>6. ~DeckBegins
    BY DEF DeckBegins
  <1> QED  BY <1>1, <1>2, <1>3, <1>5, <1>6 DEF Inv, Quiet

LEMMA LooksStep == ASSUME Inv, Looks PROVE Inv' /\ Quiet
  <1>0. Kinds
    BY DEF Inv
  <1>1. Read(cam) \in CamType /\ Read(cam).recAt = cam.recAt
    BY <1>0, ReadIs DEF Kinds
  <1>2. Follows(Read(cam), Read(cam))
    BY DEF Follows
  <1>3. Keeps(Read(cam)) /\ link' = link /\ camera' = camera /\ UNCHANGED <<now, acted>> /\ press' = press
    BY DEF Looks
  <1>4. OnlyAdds(link', link)
    BY <1>0, <1>3, OnlyAddsNothing DEF Kinds
  <1> QED  BY <1>0, <1>1, <1>2, <1>3, <1>4, SpellStep DEF Kinds

LEMMA ScreenPressStep == ASSUME Inv, ScreenPress PROVE Inv' /\ Quiet
  <1> DEFINE c == Read(cam)
             rec == IF c.rec = "on" THEN "off" ELSE "on"
  <1>0. Kinds /\ Linked
    BY DEF Inv
  <1>1. c \in CamType /\ c.recAt = cam.recAt
    BY <1>0, ReadIs DEF Kinds
  <1>2. Held(c) /\ Begins(c, rec, FALSE, 0) /\ Keeps(c) /\ UNCHANGED <<camera, now, acted>>
    BY DEF ScreenPress
  <1>3. c.pocket # 0
    BY <1>0, <1>2, HeldHasLink
  <1>4. rec \in Takes
    BY DEF Takes
  <1> HIDE DEF rec
  <1>5. OnlyAdds(link', link) /\ press' \in PressType /\ press'.deck = FALSE
    BY <1>0, <1>1, <1>2, <1>3, <1>4, BeginsIs
  <1>6. Follows(c, c) /\ c.arm \in {None, c.arm}
    BY DEF Follows
  <1> QED  BY <1>1, <1>2, <1>5, <1>6, SpellStep

LEMMA DeckStopsStep == ASSUME Inv, NEW at, DeckStops(at) PROVE Inv' /\ StopStep /\ DwellStep
  <1> DEFINE c == Read(cam)
  <1>0. Kinds /\ Ended
    BY DEF Inv
  <1>1. DeckPress(c, at) /\ InWindow(c, at) /\ ItsTakeRuns(c) /\ DeckSends(c, "off", at)
    BY DEF DeckStops
  <1>2. /\ Inv' /\ press'.at = at /\ press'.rec = "off" /\ cam' = c
        /\ acted > 0 => at >= acted + Dwell
    BY <1>1, DeckSendsIs DEF Takes
  <1>3. EndedBy(c, over \/ TakeMayBeOver(c)) /\ over' = (over \/ TakeMayBeOver(c)) /\ over \in BOOLEAN
    BY <1>0, <1>1, ReadEnds DEF Kinds, Ended, DeckSends, Keeps
  <1>4. SameArm(c, cam)
    BY <1>0, ReadIs DEF Kinds
  <1>5. c.arm # None => cam.arm # None /\ c.arm.at = cam.arm.at
    BY <1>0, <1>4, SameArmQuiet DEF Kinds
  <1> HIDE DEF c
  <1>6. c.arm # None /\ ~c.arm.stale /\ ~TakeMayBeOver(c)
    BY <1>1 DEF DeckPress, InWindow, ItsTakeRuns, TakeMayBeOver
  <1>7. ~over'
    BY <1>3, <1>6 DEF EndedBy
  <1> QED  BY <1>2, <1>5, <1>7 DEF StopStep, DwellStep

LEMMA DeckStartsStep == ASSUME Inv, NEW at, DeckStarts(at) PROVE Inv' /\ StopStep /\ DwellStep
  <1> DEFINE c == Read(cam)
  <1>0. Kinds
    BY DEF Inv
  <1>1. DeckPress(c, at) /\ DeckSends(c, "on", at)
    BY DEF DeckStarts
  <1>2. /\ Inv' /\ press'.at = at /\ press'.rec = "on" /\ cam' = c
        /\ acted > 0 => at >= acted + Dwell
    BY <1>1, DeckSendsIs DEF Takes
  <1>4. SameArm(c, cam)
    BY <1>0, ReadIs DEF Kinds
  <1>5. c.arm # None => cam.arm # None /\ c.arm.at = cam.arm.at
    BY <1>0, <1>4, SameArmQuiet DEF Kinds
  <1> QED  BY <1>2, <1>5 DEF StopStep, DwellStep

LEMMA DeckDisarmsStep == ASSUME Inv, NEW at, DeckDisarms(at) PROVE Inv' /\ Quiet
  <1> DEFINE c == Read(cam)
             d == [c EXCEPT !.arm = None]
  <1>0. Kinds
    BY DEF Inv
  <1>1. c \in CamType /\ c.recAt = cam.recAt
    BY <1>0, ReadIs DEF Kinds
  <1>2. Keeps(d) /\ link' = link /\ press' = press /\ camera' = camera /\ UNCHANGED <<now, acted>>
    BY DEF DeckDisarms
  <1>3. d \in CamType /\ Follows(d, c) /\ d.arm = None /\ d.recAt = c.recAt
    BY <1>1 DEF CamType, Follows
  <1>4. OnlyAdds(link', link)
    BY <1>0, <1>2, OnlyAddsNothing DEF Kinds
  <1> HIDE DEF d
  <1> QED  BY <1>0, <1>1, <1>2, <1>3, <1>4, SpellStep DEF Kinds

LEMMA DeckArmsStep == ASSUME Inv, NEW at, DeckArms(at) PROVE Inv' /\ StopStep /\ DwellStep
  <1> DEFINE c == Read(cam)
             arm == [at |-> at, stale |-> FALSE]
             d == [c EXCEPT !.arm = arm]
  <1>0. Kinds /\ Linked /\ Paced
    BY DEF Inv
  <1>1. c \in CamType /\ c.recAt = cam.recAt
    BY <1>0, ReadIs DEF Kinds
  <1>2. DeckPress(c, at) /\ cam' = d /\ over' = FALSE /\ UNCHANGED <<camera, link, press, now, acted>>
    BY DEF DeckArms
  <1>3. Held(c) /\ ~Dwells(c, at) /\ at \in Nat
    BY <1>0, <1>2 DEF DeckPress, Kinds
  <1>4. arm \in ArmType /\ arm.at = at
    BY <1>3 DEF ArmType
  <1> HIDE DEF arm
  <1>5. d \in CamType /\ Follows(d, c) /\ d.arm = arm /\ d.recAt = c.recAt /\ ~d.released
    BY <1>1, <1>3, <1>4 DEF CamType, Follows, Held
  <1>6. OnlyAdds(link', link)
    BY <1>0, <1>2, OnlyAddsNothing DEF Kinds
  <1>7. acted > 0 => at >= acted + Dwell
    BY <1>0, <1>1, <1>3, CameraAssumption DEF Paced, Dwells, Since, Kinds
  <1> HIDE DEF d
  <1>8. Linked'
    BY <1>0, <1>2, <1>5, <1>6, FollowsLinked
  <1>9. Kinds' /\ Ended' /\ Paced'
    BY <1>0, <1>1, <1>2, <1>5 DEF Kinds, Ended, EndedBy, Paced
  <1>10. ~DeckBegins
    BY <1>2 DEF DeckBegins
  <1> QED  BY <1>2, <1>4, <1>5, <1>7, <1>8, <1>9, <1>10 DEF Inv, StopStep, DwellStep

LEMMA PressSettlesStep == ASSUME Inv, PressSettles PROVE Inv' /\ Quiet
  <1> DEFINE c == Read(cam)
             d == CASE ~press.ok -> [c EXCEPT !.failure = TRUE]
                    [] press.ok /\ Held(c) -> Applied(c)
                    [] OTHER -> c
             taken == press.ok /\ Held(c)
  <1>0. Kinds /\ Linked /\ Paced
    BY DEF Inv
  <1>1. c \in CamType /\ c.recAt = cam.recAt /\ press \in PressType /\ press.at \in Nat /\ acted \in Nat
    BY <1>0, ReadIs DEF Kinds, PressType
  <1>2. /\ Keeps(d) /\ press' = NoPress /\ UNCHANGED <<camera, link, now>>
        /\ acted' = IF taken /\ press.deck /\ press.at > acted THEN press.at ELSE acted
        /\ press.pc = "answered"
    BY DEF PressSettles
  <1>3. /\ d \in CamType /\ Follows(d, c) /\ d.arm \in {None, c.arm}
        /\ d.recAt = IF taken /\ press.deck THEN press.at ELSE c.recAt
    <2>1. CASE ~press.ok
      <3>1. d = [c EXCEPT !.failure = TRUE]
        BY <2>1
      <3> HIDE DEF d
      <3> QED  BY <1>1, <2>1, <3>1 DEF CamType, Follows
    <2>2. CASE taken
      <3>1. d = Applied(c)
        BY <2>2
      <3> HIDE DEF d
      <3> DEFINE a == IF press.rec = "on" THEN [c EXCEPT !.arm = None] ELSE c
      <3>2. /\ a \in CamType /\ Follows(a, c) /\ a.arm \in {None, c.arm} /\ a.recAt = c.recAt
        BY <1>1 DEF CamType, Follows
      <3>3. d = IF press.deck THEN [a EXCEPT !.arm = None, !.recAt = press.at] ELSE a
        BY <3>1 DEF Applied
      <3> HIDE DEF a
      <3>4. CASE press.deck
        <4>1. d = [a EXCEPT !.arm = None, !.recAt = press.at]
          BY <3>3, <3>4
        <4>2. /\ d \in CamType /\ d.arm = None /\ d.recAt = press.at /\ d.setUp = a.setUp /\ d.rec = a.rec
              /\ d.released = a.released /\ d.pocket = a.pocket /\ d.failure = a.failure
          BY <1>1, <3>2, <4>1 DEF CamType
        <4> QED  BY <2>2, <3>2, <3>4, <4>2 DEF Follows
      <3>5. CASE ~press.deck
        BY <2>2, <3>2, <3>3, <3>5
      <3> QED  BY <3>4, <3>5
    <2>3. CASE press.ok /\ ~Held(c)
      <3>1. d = c
        BY <2>3
      <3> QED  BY <1>1, <2>3, <3>1 DEF Follows
    <2> QED  BY <2>1, <2>2, <2>3
  <1> HIDE DEF d, taken
  <1>4. OnlyAdds(link', link)
    BY <1>0, <1>2, OnlyAddsNothing DEF Kinds
  <1>5. link' \in [Links -> LinkType] /\ Linked' /\ Ended' /\ over' \in BOOLEAN /\ cam' = d
    BY <1>2, <1>3, <1>4, SpellKeeps
  <1>6. NoPress \in PressType /\ NoPress.pc = "none"
    BY DEF NoPress, PressType, Takes
  <1>7. Kinds'
    BY <1>0, <1>1, <1>2, <1>3, <1>5, <1>6 DEF Kinds
  <1>8. Paced'
    <2>1. press'.pc = "none"
      BY <1>2, <1>6
    <2>2. ASSUME acted' > 0 PROVE cam'.recAt # None /\ cam'.recAt = acted'
      <3>1. CASE taken /\ press.deck
        <4>1. cam'.recAt = press.at /\ press.at # None
          BY <1>1, <1>3, <1>5, <3>1, CameraAssumption
        <4>2. acted > 0 => press.at > acted
          BY <1>0, <1>1, <1>2, <3>1, CameraAssumption DEF Paced
        <4> QED  BY <1>1, <1>2, <2>2, <3>1, <4>1, <4>2
      <3>2. CASE ~(taken /\ press.deck)
        BY <1>0, <1>1, <1>2, <1>3, <1>5, <2>2, <3>2 DEF Paced
      <3> QED  BY <3>1, <3>2
    <2> QED  BY <2>1, <2>2 DEF Paced
  <1>9. SameArm(c, cam)
    BY <1>0, ReadIs DEF Kinds
  <1>10. d.arm # None => cam.arm # None /\ d.arm.at = cam.arm.at
    BY <1>0, <1>3, <1>9, SameArmQuiet DEF Kinds
  <1>11. ~DeckBegins
    BY <1>2 DEF DeckBegins
  <1> QED  BY <1>5, <1>7, <1>8, <1>10, <1>11 DEF Inv, Quiet

\* A step that lets the link go.
LEMMA LetsGoStep ==
  ASSUME Inv, NEW d \in CamType, d.pocket = 0, d.recAt = cam.recAt,
         SameArm(d, cam), TakeMayBeOver(d), d.released => d.arm = None \/ d.arm.stale,
         Keeps(d), link' = LetsGo(link, cam.pocket), UNCHANGED <<camera, press, now, acted>>
  PROVE  Inv' /\ Quiet
  <1>0. Kinds /\ Linked /\ Paced
    BY DEF Inv
  <1>1. cam.pocket \in Links \cup {0} /\ link \in [Links -> LinkType] /\ Reported
    BY <1>0 DEF Kinds, CamType, Linked
  <1>2. link' \in [Links -> LinkType] /\ Reported'
    BY <1>1, LetsGoIs DEF Reported
  <1>3. cam' = d /\ over' = (over \/ TakeMayBeOver(d))
    BY DEF Keeps
  <1>4. Linked'
    BY <1>2, <1>3, RuntimeLinked
  <1>5. Kinds' /\ Ended' /\ Paced'
    BY <1>0, <1>2, <1>3 DEF Kinds, Ended, EndedBy, Paced
  <1>6. d.arm # None => cam.arm # None /\ d.arm.at = cam.arm.at
    BY <1>0, SameArmQuiet DEF Kinds
  <1>7. ~DeckBegins
    BY DEF DeckBegins
  <1> QED  BY <1>3, <1>4, <1>5, <1>6, <1>7 DEF Inv, Quiet

LEMMA ReleaseStep == ASSUME Inv, Release PROVE Inv' /\ Quiet
  <1> DEFINE c == Read(cam)
             k == CountsChange(c)
             d == [k EXCEPT !.released = TRUE, !.failure = FALSE, !.pocket = 0]
  <1>0. Kinds /\ Ended
    BY DEF Inv
  <1>1. c \in CamType /\ c.recAt = cam.recAt /\ SameArm(c, cam) /\ c.pocket = cam.pocket
    BY <1>0, ReadIs DEF Kinds
  <1>2. Keeps(d) /\ link' = LetsGo(link, c.pocket) /\ UNCHANGED <<camera, press, now, acted>>
    BY DEF Release
  <1> HIDE DEF c
  <1>4. /\ k \in CamType /\ k.recAt = c.recAt
        /\ c.arm = None => k.arm = None
        /\ c.arm # None => k.arm = Stale(c.arm) /\ Stale(c.arm).stale
    BY <1>1, CountsChangeIs, StaleIs DEF CamType
  <1> HIDE DEF k
  <1>5. /\ d \in CamType /\ d.recAt = c.recAt /\ d.arm = k.arm /\ d.pocket = 0 /\ d.released = TRUE
    BY <1>4 DEF CamType
  <1> HIDE DEF d
  <1>6. TakeMayBeOver(d)
    BY <1>5 DEF TakeMayBeOver, Held
  <1>7. d.arm = None \/ d.arm.stale
    BY <1>4, <1>5
  <1>8. \A a \in ArmType : Stale(Stale(a)) = Stale(a)
    BY DEF Stale, ArmType
  <1>9. SameArm(d, cam)
    BY <1>0, <1>1, <1>4, <1>5, <1>8 DEF SameArm, Kinds, CamType
  <1> QED  BY <1>1, <1>2, <1>5, <1>6, <1>7, <1>9, LetsGoStep

LEMMA ForgetsStep == ASSUME Inv, Forgets PROVE Inv' /\ Quiet
  <1> DEFINE c == Read(cam)
             d == [Forgotten(c) EXCEPT !.setUp = FALSE, !.pocket = 0]
  <1>0. Kinds
    BY DEF Inv
  <1>1. c \in CamType /\ c.recAt = cam.recAt /\ SameArm(c, cam) /\ c.pocket = cam.pocket
    BY <1>0, ReadIs DEF Kinds
  <1>2. Keeps(d) /\ link' = LetsGo(link, c.pocket) /\ UNCHANGED <<camera, press, now, acted>>
    BY DEF Forgets
  <1> HIDE DEF c
  <1>3. d \in CamType /\ d.recAt = c.recAt /\ d.arm = c.arm /\ d.pocket = 0 /\ ~d.released /\ ~d.setUp
    BY <1>1 DEF CamType, Forgotten
  <1> HIDE DEF d
  <1>4. TakeMayBeOver(d)
    BY <1>3 DEF TakeMayBeOver, Held
  <1>5. SameArm(d, cam)
    BY <1>1, <1>3 DEF SameArm
  <1> QED  BY <1>1, <1>2, <1>3, <1>4, <1>5, LetsGoStep

\* The link is held, and the camera read.
LEMMA HoldStep ==
  ASSUME Inv, NEW c \in CamType, c.setUp, ~c.released, c.pocket = cam.pocket, c.recAt = cam.recAt,
         SameArm(c, cam), EndedBy(c, over), HoldsAndReads(c), UNCHANGED <<camera, press, now, acted>>
  PROVE  Inv' /\ Quiet
  <1>0. Kinds /\ Linked /\ Paced
    BY DEF Inv
  <1>1. Kinds' /\ Linked' /\ Ended' /\ cam'.recAt = c.recAt /\ SameArm(cam', c)
    BY <1>0, HoldsAndReadsKeeps
  <1>2. Paced'
    BY <1>0, <1>1 DEF Paced
  <1>3. cam'.arm # None => cam.arm # None /\ cam'.arm.at = cam.arm.at
    <2>1. cam'.arm # None => c.arm # None /\ cam'.arm.at = c.arm.at
      BY <1>1, SameArmQuiet
    <2>2. c.arm # None => cam.arm # None /\ c.arm.at = cam.arm.at
      BY <1>0, SameArmQuiet DEF Kinds
    <2> QED  BY <2>1, <2>2
  <1>4. ~DeckBegins
    BY DEF DeckBegins
  <1> QED  BY <1>1, <1>2, <1>3, <1>4 DEF Inv, Quiet

LEMMA ConnectStep == ASSUME Inv, Connect PROVE Inv' /\ Quiet
  <1> DEFINE r == Read(cam)
             c == [r EXCEPT !.released = FALSE]
  <1>0. Kinds /\ Linked /\ Ended
    BY DEF Inv
  <1>1. r \in CamType /\ r.recAt = cam.recAt /\ SameArm(r, cam) /\ r.pocket = cam.pocket
    BY <1>0, ReadIs DEF Kinds
  <1>2. r.setUp /\ (r.released \/ r.failure) /\ HoldsAndReads(c) /\ UNCHANGED <<camera, press, now, acted>>
    BY DEF Connect
  <1>3. EndedBy(r, over \/ TakeMayBeOver(r))
    BY <1>0, ReadEnds DEF Kinds, Ended
  <1> HIDE DEF r
  <1>4. /\ c \in CamType /\ c.recAt = r.recAt /\ c.arm = r.arm /\ c.pocket = r.pocket /\ ~c.released
        /\ c.setUp = r.setUp /\ c.failure = r.failure
    BY <1>1 DEF CamType
  <1> HIDE DEF c
  <1>5. EndedBy(c, over)
    BY <1>2, <1>3, <1>4 DEF EndedBy, TakeMayBeOver, Held
  <1>6. SameArm(c, cam)
    BY <1>1, <1>4 DEF SameArm
  <1> QED  BY <1>1, <1>2, <1>4, <1>5, <1>6, HoldStep

LEMMA PairsStep == ASSUME Inv, Pairs PROVE Inv' /\ Quiet
  <1> DEFINE r == Read(cam)
             c == [Forgotten(r) EXCEPT !.setUp = TRUE]
  <1>0. Kinds
    BY DEF Inv
  <1>1. r \in CamType /\ r.recAt = cam.recAt /\ SameArm(r, cam) /\ r.pocket = cam.pocket
    BY <1>0, ReadIs DEF Kinds
  <1>2. HoldsAndReads(c) /\ UNCHANGED <<camera, press, now, acted>>
    BY DEF Pairs
  <1> HIDE DEF r
  <1>4. /\ c \in CamType /\ c.recAt = r.recAt /\ c.arm = r.arm /\ c.pocket = r.pocket /\ ~c.released
        /\ c.setUp = TRUE /\ c.rec = None
    BY <1>1 DEF CamType, Forgotten
  <1> HIDE DEF c
  <1>5. EndedBy(c, over)
    BY <1>4, CameraAssumption DEF EndedBy, TakeMayBeOver
  <1>6. SameArm(c, cam)
    BY <1>1, <1>4 DEF SameArm
  <1> QED  BY <1>1, <1>2, <1>4, <1>5, <1>6, HoldStep

\* The notifier: what it takes up it looks at, what comes meanwhile stays.
LEMMA NotifierStep == ASSUME Inv, NEW l \in Links, Notifier(l) PROVE Inv' /\ Quiet
  <1> DEFINE lk == link[l]
  <1>0. Kinds /\ Linked /\ Ended /\ Paced
    BY DEF Inv
  <1>1. lk \in LinkType /\ link \in [Links -> LinkType] /\ cam \in CamType /\ Reported /\ HeldLink(link, cam)
    BY <1>0 DEF Kinds, Linked
  <1>2. press' = press /\ UNCHANGED <<camera, now, acted>>
    BY DEF Notifier, NotifierFolds, NotifierCalls, NotifierReturns
  <1>3. PICK k : /\ link' = [link EXCEPT ![l] = k] /\ k \in LinkType /\ k.thread = lk.thread /\ k.inbox = lk.inbox
                 /\ k.conn = lk.conn /\ k.fresh = lk.fresh /\ k.rec = lk.rec /\ k.reported = lk.reported
                 /\ \/ cam' = cam /\ over' = over /\ k.notifier = "calls"
                    \/ Keeps(Read(cam))
                    \/ cam' = cam /\ over' = over /\ k.queued = lk.queued /\ lk.notifier # "calls"
    <2>1. CASE NotifierFolds(l)
      <3> DEFINE k == [lk EXCEPT !.queued = FALSE, !.notifier = "calls"]
      <3>1. link' = [link EXCEPT ![l] = k] /\ cam' = cam /\ over' = over
        BY <2>1 DEF NotifierFolds
      <3>2. /\ k \in LinkType /\ k.thread = lk.thread /\ k.inbox = lk.inbox /\ k.notifier = "calls"
            /\ k.conn = lk.conn /\ k.fresh = lk.fresh /\ k.rec = lk.rec /\ k.reported = lk.reported
        BY <1>1 DEF LinkType
      <3> HIDE DEF k, lk
      <3> QED  BY <3>1, <3>2
    <2>2. CASE NotifierCalls(l)
      <3> DEFINE k == [lk EXCEPT !.notifier = "called"]
      <3>1. link' = [link EXCEPT ![l] = k] /\ Keeps(Read(cam))
        BY <2>2 DEF NotifierCalls
      <3>2. /\ k \in LinkType /\ k.thread = lk.thread /\ k.inbox = lk.inbox
            /\ k.conn = lk.conn /\ k.fresh = lk.fresh /\ k.rec = lk.rec /\ k.reported = lk.reported
        BY <1>1 DEF LinkType
      <3> HIDE DEF k, lk
      <3> QED  BY <3>1, <3>2
    <2>3. CASE NotifierReturns(l)
      <3> DEFINE k == [lk EXCEPT !.notifier = "idle"]
      <3>1. link' = [link EXCEPT ![l] = k] /\ cam' = cam /\ over' = over /\ lk.notifier # "calls"
        BY <2>3 DEF NotifierReturns
      <3>2. /\ k \in LinkType /\ k.thread = lk.thread /\ k.inbox = lk.inbox /\ k.queued = lk.queued
            /\ k.conn = lk.conn /\ k.fresh = lk.fresh /\ k.rec = lk.rec /\ k.reported = lk.reported
        BY <1>1 DEF LinkType
      <3> HIDE DEF k, lk
      <3> QED  BY <3>1, <3>2
    <2> QED  BY <2>1, <2>2, <2>3 DEF Notifier
  <1>4. link' \in [Links -> LinkType] /\ link'[l] = k /\ \A j \in Links \ {l} : link'[j] = link[j]
    BY <1>1, <1>3
  <1>5. Reported'
    BY <1>1, <1>3, <1>4 DEF Reported
  <1>6. \A j \in Links : /\ link'[j].thread = link[j].thread /\ link'[j].inbox = link[j].inbox
                         /\ link'[j].conn = link[j].conn /\ link'[j].fresh = link[j].fresh
                         /\ link'[j].rec = link[j].rec
    BY <1>3, <1>4
  <1>7. cam.pocket \in Links \cup {0}
    BY <1>1 DEF CamType
  <1>8. ~DeckBegins
    BY <1>2 DEF DeckBegins
  <1>9. CASE cam' = cam /\ over' = over /\ (k.notifier = "calls" \/ (k.queued = lk.queued /\ lk.notifier # "calls"))
    <2>1. HeldLink(link, cam)'
      BY <1>1, <1>6, <1>7, <1>9 DEF HeldLink
    <2>2. LinkHeard'
      BY <1>0, <1>4, <1>6, <1>9 DEF Linked, LinkHeard
    <2>3. Kinds' /\ Ended' /\ Paced'
      BY <1>0, <1>2, <1>4, <1>9 DEF Kinds, Ended, EndedBy, Paced
    <2> QED  BY <1>5, <1>8, <1>9, <2>1, <2>2, <2>3 DEF Inv, Linked, Quiet
  <1>10. CASE Keeps(Read(cam))
    <2> DEFINE r == Read(cam)
    <2>1. r \in CamType /\ r.recAt = cam.recAt /\ SameArm(r, cam) /\ r.pocket = cam.pocket
          /\ r.released = cam.released /\ r.setUp = cam.setUp
      BY <1>1, ReadIs
    <2>2. cam' = r /\ over' = (over \/ TakeMayBeOver(r))
      BY <1>10 DEF Keeps
    <2>3. EndedBy(r, over \/ TakeMayBeOver(r))
      BY <1>0, <1>1, ReadEnds DEF Kinds, Ended
    <2>4. cam.pocket # 0 /\ cam.setUp => Fits(link[cam.pocket], r)
      BY <1>1, ReadFits DEF HeldLink
    <2> HIDE DEF r
    <2>5. r.released => r.pocket = 0
      BY <1>1, <2>1 DEF HeldLink
    <2>6. ASSUME r.pocket # 0
          PROVE  /\ link'[r.pocket].thread \notin {"none", "ends"}
                 /\ NoLetGo(link'[r.pocket])
                 /\ r.setUp => Fits(link'[r.pocket], r)
      BY <1>1, <1>6, <1>7, <2>1, <2>4, <2>6 DEF HeldLink, NoLetGo, Fits
    <2>7. Linked'
      BY <1>4, <1>5, <2>1, <2>2, <2>5, <2>6, RuntimeLinked
    <2>8. Kinds' /\ Ended' /\ Paced'
      BY <1>0, <1>2, <1>4, <2>1, <2>2, <2>3 DEF Kinds, Ended, Paced
    <2>9. r.arm # None => cam.arm # None /\ r.arm.at = cam.arm.at
      BY <1>1, <2>1, SameArmQuiet
    <2> QED  BY <1>8, <2>2, <2>7, <2>8, <2>9 DEF Inv, Quiet
  <1> QED  BY <1>3, <1>9, <1>10

\* The camera, its radio, the clock and a press's deadline.
LEMMA AroundStep ==
  ASSUME Inv, CameraChanges \/ (\E l \in Links : Drops(l)) \/ TimePasses \/ DeadlinePasses
  PROVE  Inv' /\ Quiet
  <1>0. Kinds /\ Linked /\ Ended /\ Paced
    BY DEF Inv
  <1>1. cam' = cam /\ over' = over /\ acted' = acted
    BY DEF CameraChanges, Drops, TimePasses, DeadlinePasses
  <1>2. ASSUME OnlyAdds(link', link), camera' \in Takes \cup {"unknown"}, now' \in Nat, press' \in PressType,
               press'.deck = press.deck, press'.at = press.at,
               press' = press \/ (press.pc # "none" /\ press'.pc # "waiting")
        PROVE  Inv' /\ Quiet
    <2>1. Linked'
      BY <1>0, <1>1, <1>2, OnlyAddsKeeps
    <2>2. Kinds' /\ Ended' /\ Paced'
      BY <1>0, <1>1, <1>2 DEF Kinds, Ended, EndedBy, Paced, OnlyAdds
    <2>3. Quiet
      BY <1>1, <1>2 DEF Quiet, DeckBegins
    <2> QED  BY <2>1, <2>2, <2>3 DEF Inv
  <1>3. CASE CameraChanges
    <2>1. PICK rec \in Takes : camera' = rec /\ link' = HearsOf(rec, link)
      BY <1>3 DEF CameraChanges
    <2>2. OnlyAdds(link', link)
      BY <1>0, <2>1, HearsMore DEF Kinds
    <2> QED  BY <1>0, <1>2, <1>3, <2>1, <2>2 DEF CameraChanges, Kinds
  <1>4. ASSUME NEW l \in Links, Drops(l) PROVE Inv' /\ Quiet
    <2> DEFINE k == [link[l] EXCEPT !.inbox = Append(link[l].inbox, Order("dropped", "unknown"))]
    <2>1. link' = [link EXCEPT ![l] = k] /\ UNCHANGED <<camera, press, now>>
      BY <1>4 DEF Drops
    <2>2. Order("dropped", "unknown") \in OrderType /\ Order("dropped", "unknown").what # "letgo"
      BY OrderIs DEF Order
    <2>3. k \in LinkType /\ SameNews(k, link[l]) /\ k.thread = link[l].thread /\ (NoLetGo(link[l]) => NoLetGo(k))
      BY <1>0, <2>2, AppendHolds DEF Kinds
    <2> HIDE DEF k
    <2>4. OnlyAdds(link', link)
      BY <1>0, <2>1, <2>3 DEF Kinds, OnlyAdds, SameNews, SameShown
    <2> QED  BY <1>0, <1>2, <2>1, <2>4 DEF Kinds
  <1>5. CASE TimePasses
    BY <1>0, <1>2, <1>5, OnlyAddsNothing DEF TimePasses, Kinds
  <1>6. CASE DeadlinePasses
    <2>1. /\ press.pc = "waiting" /\ press' = [press EXCEPT !.pc = "answered", !.ok = FALSE]
          /\ link' = [l \in Links |-> GivesUp(link[l])] /\ UNCHANGED <<camera, now>>
      BY <1>6 DEF DeadlinePasses
    <2>2. press' \in PressType /\ press'.deck = press.deck /\ press'.at = press.at /\ press'.pc = "answered"
      BY <1>0, <2>1 DEF Kinds, PressType
    <2>3. ASSUME NEW l \in Links
          PROVE  /\ GivesUp(link[l]) \in LinkType /\ SameNews(GivesUp(link[l]), link[l])
                 /\ GivesUp(link[l]).thread = link[l].thread
                 /\ NoLetGo(link[l]) => NoLetGo(GivesUp(link[l]))
      <3>1. link[l] \in LinkType
        BY <1>0 DEF Kinds
      <3>2. SameNews(GivesUp(link[l]), link[l]) /\ GivesUp(link[l]).thread = link[l].thread
        BY <3>1 DEF GivesUp, SameNews, SameShown, LinkType
      <3> QED  BY <3>1, <3>2, GivesUpIs DEF NoLetGo
    <2>4. OnlyAdds(link', link)
      BY <2>1, <2>3 DEF OnlyAdds
    <2> QED  BY <1>0, <1>2, <2>1, <2>2, <2>4 DEF Kinds
  <1> QED  BY <1>3, <1>4, <1>5, <1>6

LEMMA LinkThreadStep == ASSUME Inv, NEW l \in Links, LinkThread(l) PROVE Inv' /\ Quiet
  <1>0. Kinds /\ Linked /\ Ended /\ Paced
    BY DEF Inv
  <1>1. /\ link' \in [Links -> LinkType] /\ Linked'
        /\ camera' \in Takes \cup {"unknown"} /\ UNCHANGED <<cam, now, over, acted>>
        /\ press' \in PressType /\ press'.deck = press.deck /\ press'.at = press.at
        /\ press.pc = "none" => press' = press
        /\ press'.pc = "waiting" => press' = press
    BY <1>0, LinkThreadKeeps
  <1>2. Kinds' /\ Ended' /\ Paced'
    BY <1>0, <1>1 DEF Kinds, Ended, EndedBy, Paced
  <1>3. Quiet
    BY <1>1 DEF Quiet, DeckBegins
  <1> QED  BY <1>1, <1>2, <1>3 DEF Inv

-----------------------------------------------------------------------------
LEMMA InvStep == ASSUME Inv, Next PROVE Inv' /\ StopStep /\ DwellStep
  <1>1. CASE \E l \in Links : LinkThread(l) \/ Notifier(l) \/ Drops(l)
    BY <1>1, LinkThreadStep, NotifierStep, AroundStep, QuietTells
  <1>2. CASE CameraChanges \/ TimePasses \/ DeadlinePasses
    BY <1>2, AroundStep, QuietTells
  <1>3. CASE Looks \/ ScreenPress \/ PressSettles
    BY <1>3, LooksStep, ScreenPressStep, PressSettlesStep, QuietTells
  <1>4. CASE \E at \in 0..MaxNow : DeckRec(at)
    BY <1>4, DeckStopsStep, DeckStartsStep, DeckDisarmsStep, DeckArmsStep, QuietTells DEF DeckRec
  <1>5. CASE Release \/ Connect \/ Pairs \/ Forgets
    BY <1>5, ReleaseStep, ConnectStep, PairsStep, ForgetsStep, QuietTells
  <1> QED  BY <1>1, <1>2, <1>3, <1>4, <1>5 DEF Next

LEMMA InvStutter == ASSUME Inv, UNCHANGED vars PROVE Inv'
  BY DEF Inv, Kinds, Linked, HeldLink, Reported, LinkHeard, Ended, EndedBy, TakeMayBeOver, Held, Paced, vars

(* With no notice left to take, CAM 1 is not shown as held over a link that *)
(* is gone, and what the camera reported since it connected is what is     *)
(* shown (link.rs, notice and run_notifier).                               *)
THEOREM LinkIsHeard == Spec => []LinkHeard
  <1>1. Inv /\ [Next]_vars => Inv'
    BY InvStep, InvStutter
  <1>2. Inv => LinkHeard
    BY DEF Inv, Linked
  <1> QED  BY <1>1, <1>2, InvInit, PTL DEF Spec

(* The deck's second press stops the take the arm was made for, and no     *)
(* other (deck.rs:310-332).                                                *)
THEOREM SecondPressStopsItsTake == Spec => StopsItsTake
  <1>1. Inv /\ [Next]_vars => Inv'
    BY InvStep, InvStutter
  <1>2. Inv /\ [Next]_vars => [StopStep]_vars
    BY InvStep
  <1> QED  BY <1>1, <1>2, InvInit, PTL DEF Spec, StopsItsTake, StopStep

(* Within the dwell after the deck's REC started or stopped a take, a      *)
(* press starts, stops and arms nothing (deck.rs:313-317).                 *)
THEOREM DoublePressesAreKept == Spec => DoublePressKept
  <1>1. Inv /\ [Next]_vars => Inv'
    BY InvStep, InvStutter
  <1>2. Inv /\ [Next]_vars => [DwellStep]_vars
    BY InvStep
  <1> QED  BY <1>1, <1>2, InvInit, PTL DEF Spec, DoublePressKept, DwellStep
====
