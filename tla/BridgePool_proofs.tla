-------------------------- MODULE BridgePool_proofs --------------------------
(***************************************************************************)
(* The bridge keeps its promises for every number of connections and       *)
(* workers and every size of its lines: the overflow thread's count stays  *)
(* within its line, no worker sleeps over a connection, the presses are    *)
(* begun in the order they came, and displays crowd none of them out.      *)
(*                                                                         *)
(* The order needs to know where connections are: each in one place        *)
(* (Apart), open there (Open), and while the acceptor offers one itself,   *)
(* nobody with the overflow thread (Passing), which its count says         *)
(* (Counted).                                                              *)
(***************************************************************************)
EXTENDS BridgePool, FiniteSetTheorems, SequenceTheorems, TLAPS

PoolType ==
    /\ kind \in [Conns -> Kinds \cup {Nobody}]
    /\ unread \in Seq(Conns) /\ parked \in Seq(Conns) /\ line \in Seq(Conns)
    /\ overdue \in 0..Len(parked)
    /\ asleep \subseteq Workers

WorkerType ==
    /\ worker \in [Workers -> [at : {"free", "read", "park", "answer"},
                               conn : Conns \cup {Nobody}]]
    /\ \A w \in Workers : worker[w].conn = Nobody <=> worker[w].at = "free"

ThreadType ==
    /\ acceptor \in [at : {"accept", "look", "offer", "count", "send", "drop"},
                     conn : Conns \cup {Nobody}]
    /\ overflow \in [at : {"receive", "offer", "peek", "press", "refuse", "leave", "gone"},
                     conn : Conns \cup {Nobody}]
    /\ acceptor.conn = Nobody <=> acceptor.at = "accept"
    /\ overflow.conn = Nobody <=> overflow.at \in {"receive", "leave", "gone"}

(* Overflow.waiting is who is in the line, with the thread, or between the  *)
(* acceptor's count and its try_send.                                      *)
Held == IF overflow.at \in {"receive", "gone"} THEN 0 ELSE 1
Sending == IF acceptor.at \in {"send", "drop"} THEN 1 ELSE 0

Counted ==
    /\ Len(line) <= OverflowQueue
    /\ waiting = Len(line) + Held + Sending
    /\ overflow.at = "gone" => line = <<>>

(* Whom the acceptor offers itself passes nobody.                          *)
Passing == acceptor.at = "offer" => waiting = 0

Distinct(s) == \A i, j \in DOMAIN s : s[i] = s[j] => i = j
AtWorker(c) == \E w \in Workers : worker[w].conn = c

Apart ==
    /\ Distinct(unread) /\ Distinct(parked) /\ Distinct(line)
    /\ \A v, w \in Workers : worker[v].conn = worker[w].conn => v = w \/ worker[v].conn = Nobody
    /\ \A c \in Conns :
        /\ c \in ToSet(unread) =>
            /\ c \notin ToSet(parked) \cup ToSet(line) \cup {overflow.conn, acceptor.conn}
            /\ ~AtWorker(c)
        /\ c \in ToSet(parked) =>
            c \notin ToSet(line) \cup {overflow.conn, acceptor.conn} /\ ~AtWorker(c)
        /\ c \in ToSet(line) => c \notin {overflow.conn, acceptor.conn} /\ ~AtWorker(c)
        /\ c = overflow.conn => c # acceptor.conn /\ ~AtWorker(c)
        /\ c = acceptor.conn => ~AtWorker(c)

(* A connection that is somewhere is open; one that is parked, or about to  *)
(* be, reads the displays; one that is offered as a press posts.           *)
Open ==
    /\ \A c \in Conns : Waits(c) \/ AtWorker(c) => kind[c] # Nobody
    /\ \A c \in ToSet(parked) : kind[c] = "display"
    /\ \A w \in Workers : worker[w].at = "park" => kind[worker[w].conn] = "display"
    /\ overflow.at = "press" => kind[overflow.conn] \in Posts

Typed == PoolType /\ WorkerType /\ ThreadType /\ Counted
Placed == Passing /\ Apart /\ Open
PoolInv == Typed /\ Placed

-----------------------------------------------------------------------------
(* A line of connections that takes one at its end, and gives its first.   *)
LEMMA AppendedLine ==
  ASSUME NEW s \in Seq(Conns), NEW c \in Conns
  PROVE  /\ Append(s, c) \in Seq(Conns) /\ Len(Append(s, c)) = Len(s) + 1
         /\ ToSet(Append(s, c)) = ToSet(s) \cup {c}
         /\ Distinct(s) /\ c \notin ToSet(s) => Distinct(Append(s, c))
         /\ \A p, q : InLine(Append(s, c), p, q) <=> InLine(s, p, q) \/ (p \in ToSet(s) /\ q = c)
  <1> DEFINE t == Append(s, c)
  <1>1. /\ t \in Seq(Conns) /\ Len(t) = Len(s) + 1
        /\ \A i \in 1..Len(s) : t[i] = s[i]
        /\ t[Len(s) + 1] = c
    BY AppendProperties
  <1>2. DOMAIN s = 1..Len(s) /\ DOMAIN t = 1..Len(s) + 1 /\ Len(s) \in Nat
    BY <1>1, LenProperties
  <1> HIDE DEF t
  <1>3. ToSet(t) = ToSet(s) \cup {c}
    BY <1>1, <1>2 DEF ToSet
  <1>4. ASSUME Distinct(s), c \notin ToSet(s)
        PROVE  Distinct(t)
    BY <1>1, <1>2, <1>4 DEF Distinct, ToSet
  <1>5. ASSUME NEW p, NEW q
        PROVE  InLine(t, p, q) <=> InLine(s, p, q) \/ (p \in ToSet(s) /\ q = c)
    BY <1>1, <1>2 DEF InLine, ToSet
  <1> QED  BY <1>1, <1>3, <1>4, <1>5 DEF t

LEMMA TakenLine ==
  ASSUME NEW s \in Seq(Conns), s # <<>>
  PROVE  /\ Tail(s) \in Seq(Conns) /\ Head(s) \in Conns
         /\ Len(s) \in Nat \ {0} /\ Len(Tail(s)) = Len(s) - 1
         /\ ToSet(s) = ToSet(Tail(s)) \cup {Head(s)}
         /\ Distinct(s) => Distinct(Tail(s)) /\ Head(s) \notin ToSet(Tail(s))
         /\ \A p, q : InLine(s, p, q) <=>
                InLine(Tail(s), p, q) \/ (p = Head(s) /\ q \in ToSet(Tail(s)))
  <1> DEFINE t == Tail(s)
  <1>1. /\ t \in Seq(Conns) /\ Head(s) \in Conns /\ Head(s) = s[1]
        /\ Len(s) \in Nat \ {0} /\ Len(t) = Len(s) - 1
        /\ \A i \in 1..Len(t) : t[i] = s[i + 1]
    BY HeadTailProperties, EmptySeq, LenProperties
  <1>2. DOMAIN s = 1..Len(s) /\ DOMAIN t = 1..Len(s) - 1
    BY <1>1, LenProperties
  <1> HIDE DEF t
  <1>3. \A i \in DOMAIN s : i = 1 \/ (i - 1 \in DOMAIN t /\ s[i] = t[i - 1])
    BY <1>1, <1>2
  <1>4. \A i \in DOMAIN t : i + 1 \in DOMAIN s /\ t[i] = s[i + 1]
    BY <1>1, <1>2
  <1>5. ToSet(s) = ToSet(t) \cup {Head(s)}
    <2>1. \A i \in DOMAIN s : s[i] \in ToSet(t) \cup {Head(s)}
      BY <1>1, <1>3 DEF ToSet
    <2>2. \A i \in DOMAIN t : t[i] \in ToSet(s)
      BY <1>4 DEF ToSet
    <2>3. Head(s) \in ToSet(s)
      BY <1>1, <1>2 DEF ToSet
    <2> QED  BY <2>1, <2>2, <2>3 DEF ToSet
  <1>6. ASSUME Distinct(s)
        PROVE  Distinct(t) /\ Head(s) \notin ToSet(t)
    BY <1>1, <1>2, <1>4, <1>6 DEF Distinct, ToSet
  <1>7. ASSUME NEW p, NEW q
        PROVE  InLine(s, p, q) <=> InLine(t, p, q) \/ (p = Head(s) /\ q \in ToSet(t))
    <2>1. InLine(s, p, q) => InLine(t, p, q) \/ (p = Head(s) /\ q \in ToSet(t))
      <3> SUFFICES ASSUME NEW i \in DOMAIN s, NEW j \in DOMAIN s, i < j, s[i] = p, s[j] = q
                   PROVE  InLine(t, p, q) \/ (p = Head(s) /\ q \in ToSet(t))
        BY DEF InLine
      <3>1. j - 1 \in DOMAIN t /\ q = t[j - 1]
        BY <1>2, <1>3
      <3>2. CASE i = 1
        BY <1>1, <3>1, <3>2 DEF ToSet
      <3>3. CASE i # 1
        <4>1. i - 1 \in DOMAIN t /\ p = t[i - 1] /\ i - 1 < j - 1
          BY <1>2, <1>3, <3>3
        <4> QED  BY <3>1, <4>1 DEF InLine
      <3> QED  BY <3>2, <3>3
    <2>2. InLine(t, p, q) => InLine(s, p, q)
      <3> SUFFICES ASSUME NEW i \in DOMAIN t, NEW j \in DOMAIN t, i < j, t[i] = p, t[j] = q
                   PROVE  InLine(s, p, q)
        BY DEF InLine
      <3>1. i + 1 < j + 1
        BY <1>2
      <3> QED  BY <1>4, <3>1 DEF InLine
    <2>3. ASSUME p = Head(s), NEW j \in DOMAIN t, t[j] = q
          PROVE  InLine(s, p, q)
      <3>1. 1 \in DOMAIN s /\ 1 < j + 1
        BY <1>1, <1>2
      <3> QED  BY <1>1, <1>4, <2>3, <3>1 DEF InLine
    <2> QED  BY <2>1, <2>2, <2>3 DEF ToSet
  <1> QED  BY <1>1, <1>5, <1>6, <1>7 DEF t

(* Of two in a line one is the first, and nobody comes before himself.     *)
LEMMA LineOrders ==
  ASSUME NEW s \in Seq(Conns), Distinct(s)
  PROVE  /\ \A p, q : InLine(s, p, q) => p \in ToSet(s) /\ q \in ToSet(s) /\ ~InLine(s, q, p)
         /\ \A p, q \in ToSet(s) : p # q => InLine(s, p, q) \/ InLine(s, q, p)
         /\ \A p, q, r : InLine(s, p, q) /\ InLine(s, q, r) => InLine(s, p, r)
  <1>1. DOMAIN s = 1..Len(s) /\ Len(s) \in Nat
    BY LenProperties
  <1> QED  BY <1>1 DEF InLine, ToSet, Distinct

LEMMA LineMembers ==
  ASSUME NEW s, NEW p, NEW q, InLine(s, p, q)
  PROVE  p \in ToSet(s) /\ q \in ToSet(s)
  BY DEF InLine, ToSet

LEMMA NoLine ==
  /\ <<>> \in Seq(Conns) /\ Len(<<>>) = 0 /\ ToSet(<<>>) = {} /\ Distinct(<<>>)
  /\ \A p, q : ~InLine(<<>>, p, q)
  BY DEF ToSet, Distinct, InLine

-----------------------------------------------------------------------------
LEMMA InitPlaced == Init => PoolInv
  <1> SUFFICES ASSUME Init PROVE PoolInv
    OBVIOUS
  <1>1. PoolType /\ WorkerType /\ ThreadType
    BY PoolAssumption, NoLine DEF Init, PoolType, WorkerType, ThreadType, At
  <1>2. Counted /\ Passing
    BY PoolAssumption, NoLine DEF Init, Counted, Passing, Held, Sending, At
  <1>3. Apart /\ Open
    BY PoolAssumption, NoLine DEF Init, Apart, Open, Waits, AtWorker, At
  <1> QED  BY <1>1, <1>2, <1>3 DEF PoolInv, Typed, Placed

LEMMA Numbers ==
  Typed => Len(line) \in Nat /\ Held \in {0, 1} /\ Sending \in {0, 1} /\ waiting \in Nat
  <1> SUFFICES ASSUME Typed
               PROVE  Len(line) \in Nat /\ Held \in {0, 1} /\ Sending \in {0, 1} /\ waiting \in Nat
    OBVIOUS
  <1>1. Len(line) \in Nat
    BY LenProperties DEF Typed, PoolType
  <1>2. Held \in {0, 1} /\ Sending \in {0, 1}
    BY DEF Held, Sending
  <1> QED  BY <1>1, <1>2 DEF Typed, Counted

LEMMA Notified ==
  ASSUME asleep \subseteq Workers, NotifyOne
  PROVE  asleep' \subseteq asleep /\ asleep' # Workers
  BY PoolAssumption DEF NotifyOne

(* A connection is put into the unread line, from where it was.            *)
LEMMA Queued ==
  ASSUME PoolInv, NEW c \in Conns, Queue(c), c \notin ToSet(unread)
  PROVE  /\ unread' \in Seq(Conns) /\ Len(unread') = Len(unread) + 1
         /\ ToSet(unread') = ToSet(unread) \cup {c} /\ Distinct(unread')
         /\ asleep' \subseteq Workers /\ asleep' # Workers
         /\ \A p, q : InLine(unread', p, q) <=> InLine(unread, p, q) \/ (p \in ToSet(unread) /\ q = c)
  BY AppendedLine, Notified DEF Queue, PoolInv, Typed, Placed, PoolType, Apart

LEMMA AcceptsStep ==
  ASSUME PoolInv, NEW c \in Conns, NEW k \in Kinds, Accepts(c, k)
  PROVE  PoolInv'
  <1> USE DEF PoolInv, Typed, Placed
  <1>1. PoolType' /\ WorkerType' /\ ThreadType'
    BY PoolAssumption DEF Accepts, PoolType, WorkerType, ThreadType, At, poolVars
  <1>2. Counted' /\ Passing'
    BY DEF Accepts, Counted, Passing, Held, Sending, At, poolVars
  <1>3. ~Waits(c) /\ ~AtWorker(c) /\ c \notin ToSet(parked) /\ k # Nobody /\ c # Nobody
    BY PoolAssumption DEF Accepts, Open, PoolType
  <1>4. Apart'
    BY <1>3, PoolAssumption DEF Accepts, Apart, Waits, AtWorker, At, poolVars
  <1>5. Open'
    BY <1>3, PoolAssumption DEF Accepts, Open, Waits, AtWorker, At, poolVars, PoolType, WorkerType, ThreadType
  <1> QED  BY <1>1, <1>2, <1>4, <1>5

LEMMA AcceptorLooksStep == PoolInv /\ AcceptorLooks => PoolInv'
  <1> SUFFICES ASSUME PoolInv, AcceptorLooks PROVE PoolInv'
    OBVIOUS
  <1> USE DEF PoolInv, Typed, Placed
  <1>1. PoolType' /\ WorkerType' /\ ThreadType'
    BY DEF AcceptorLooks, PoolType, WorkerType, ThreadType, At, poolVars
  <1>2. Counted' /\ Passing'
    BY DEF AcceptorLooks, Counted, Passing, Held, Sending, At, poolVars
  <1>3. Apart' /\ Open'
    BY DEF AcceptorLooks, Apart, Open, Waits, AtWorker, At, poolVars
  <1> QED  BY <1>1, <1>2, <1>3

LEMMA AcceptorOffersStep == PoolInv /\ AcceptorOffers => PoolInv'
  <1> SUFFICES ASSUME PoolInv, AcceptorOffers PROVE PoolInv'
    OBVIOUS
  <1> DEFINE c == acceptor.conn
  <1>1. c \in Conns /\ c \notin ToSet(unread)
    BY DEF AcceptorOffers, PoolInv, Typed, Placed, ThreadType, Apart
  <1>2. CASE HasRoom /\ Queue(c) /\ acceptor' = At("accept", Nobody)
    <2>1. /\ unread' \in Seq(Conns)
          /\ ToSet(unread') = ToSet(unread) \cup {c} /\ Distinct(unread')
          /\ asleep' \subseteq Workers
      BY <1>1, <1>2, Queued
    <2>2. UNCHANGED <<kind, parked, overdue, worker, line, waiting, overflow>>
      BY <1>2 DEF AcceptorOffers, Queue
    <2>3. PoolType' /\ WorkerType' /\ ThreadType'
      BY <1>2, <2>1, <2>2 DEF PoolInv, Typed, PoolType, WorkerType, ThreadType, At
    <2>4. Counted' /\ Passing'
      BY <1>2, <2>2 DEF AcceptorOffers, PoolInv, Typed, Counted, Passing, Held, Sending, At
    <2>5. Apart'
      BY <1>1, <1>2, <2>1, <2>2, PoolAssumption DEF PoolInv, Placed, Apart, AtWorker, At
    <2>6. Open'
      BY <1>1, <1>2, <2>1, <2>2, PoolAssumption DEF PoolInv, Placed, Open, Waits, AtWorker, At
    <2> QED  BY <2>3, <2>4, <2>5, <2>6 DEF PoolInv, Typed, Placed
  <1>3. CASE acceptor' = At("count", c) /\ UNCHANGED poolVars
    <2> USE DEF PoolInv, Typed, Placed
    <2>1. PoolType' /\ WorkerType' /\ ThreadType'
      BY <1>1, <1>3, PoolAssumption DEF AcceptorOffers, PoolType, WorkerType, ThreadType, At, poolVars
    <2>2. Counted' /\ Passing'
      BY <1>3 DEF AcceptorOffers, Counted, Passing, Held, Sending, At, poolVars
    <2>3. Apart' /\ Open'
      BY <1>3 DEF AcceptorOffers, Apart, Open, Waits, AtWorker, At, poolVars
    <2> QED  BY <2>1, <2>2, <2>3
  <1> QED  BY <1>2, <1>3 DEF AcceptorOffers

LEMMA AcceptorCountsStep == PoolInv /\ AcceptorCounts => PoolInv'
  <1> SUFFICES ASSUME PoolInv, AcceptorCounts PROVE PoolInv'
    OBVIOUS
  <1> USE DEF PoolInv, Typed, Placed
  <1>1. PoolType' /\ WorkerType' /\ ThreadType'
    BY DEF AcceptorCounts, PoolType, WorkerType, ThreadType, At, poolVars
  <1>2. Counted' /\ Passing'
    <2>1. /\ Sending = 0 /\ Sending' = 1 /\ Held' = Held /\ line' = line /\ overflow' = overflow
          /\ waiting' = waiting + 1 /\ acceptor'.at = "send"
      BY DEF AcceptorCounts, Held, Sending, At
    <2> QED  BY <2>1, Numbers DEF Counted, Passing
  <1>3. Apart' /\ Open'
    BY DEF AcceptorCounts, Apart, Open, Waits, AtWorker, At, poolVars
  <1> QED  BY <1>1, <1>2, <1>3

LEMMA AcceptorSendsStep == PoolInv /\ AcceptorSends => PoolInv'
  <1> SUFFICES ASSUME PoolInv, AcceptorSends PROVE PoolInv'
    OBVIOUS
  <1> DEFINE c == acceptor.conn
  <1>1. c \in Conns /\ c \notin ToSet(line)
    BY DEF AcceptorSends, PoolInv, Typed, Placed, ThreadType, Apart
  <1>2. CASE Len(line) < OverflowQueue /\ overflow.at # "gone"
    <2>1. line' = Append(line, c) /\ acceptor' = At("accept", Nobody)
      BY <1>2 DEF AcceptorSends
    <2>2. /\ line' \in Seq(Conns) /\ Len(line') = Len(line) + 1 /\ Len(line) \in Nat
          /\ ToSet(line') = ToSet(line) \cup {c} /\ Distinct(line')
      BY <1>1, <2>1, AppendedLine, LenProperties DEF PoolInv, Typed, PoolType, Placed, Apart
    <2>3. UNCHANGED <<kind, poolVars, worker, waiting, overflow>>
      BY DEF AcceptorSends
    <2> HIDE DEF c
    <2>4. PoolType' /\ WorkerType' /\ ThreadType'
      BY <2>1, <2>2, <2>3 DEF PoolInv, Typed, PoolType, WorkerType, ThreadType, At, poolVars
    <2>5. Counted' /\ Passing'
      <3>1. /\ Sending = 1 /\ Sending' = 0 /\ Held' = Held /\ overflow' = overflow
            /\ waiting' = waiting /\ acceptor'.at = "accept" /\ overflow.at # "gone"
        BY <1>2, <2>1, <2>3 DEF AcceptorSends, Held, Sending, At
      <3>2. Len(line') <= OverflowQueue
        BY <1>2, <2>2, PoolAssumption
      <3> QED  BY <2>2, <3>1, <3>2, Numbers DEF PoolInv, Typed, Counted, Passing
    <2>6. Apart'
      BY <1>1, <2>1, <2>2, <2>3, PoolAssumption DEF PoolInv, Placed, Apart, AtWorker, At, poolVars, c
    <2>7. Open'
      BY <1>1, <2>1, <2>2, <2>3, PoolAssumption DEF PoolInv, Placed, Open, Waits, AtWorker, At, poolVars, c
    <2> QED  BY <2>4, <2>5, <2>6, <2>7 DEF PoolInv, Typed, Placed
  <1>3. CASE ~(Len(line) < OverflowQueue /\ overflow.at # "gone")
    <2> USE DEF PoolInv, Typed, Placed
    <2>1. acceptor' = At("drop", c) /\ UNCHANGED <<kind, poolVars, worker, line, waiting, overflow>>
      BY <1>3 DEF AcceptorSends
    <2>2. PoolType' /\ WorkerType' /\ ThreadType'
      BY <1>1, <2>1, PoolAssumption DEF PoolType, WorkerType, ThreadType, At, poolVars
    <2>3. Counted' /\ Passing'
      BY <2>1 DEF AcceptorSends, Counted, Passing, Held, Sending, At
    <2>4. Apart' /\ Open'
      BY <2>1 DEF Apart, Open, Waits, AtWorker, At, poolVars
    <2> QED  BY <2>2, <2>3, <2>4
  <1> QED  BY <1>2, <1>3

(* A connection that leaves its place is nowhere else.                     *)
LEMMA AcceptorDropsStep == PoolInv /\ AcceptorDrops => PoolInv'
  <1> SUFFICES ASSUME PoolInv, AcceptorDrops PROVE PoolInv'
    OBVIOUS
  <1> USE DEF PoolInv, Typed, Placed
  <1>1. PoolType' /\ WorkerType' /\ ThreadType'
    BY PoolAssumption DEF AcceptorDrops, Gone, PoolType, WorkerType, ThreadType, At, poolVars
  <1>2. Counted' /\ Passing'
    <2>1. /\ Sending = 1 /\ Sending' = 0 /\ Held' = Held /\ line' = line /\ overflow' = overflow
          /\ waiting' = waiting - 1 /\ acceptor'.at = "accept"
      BY DEF AcceptorDrops, Held, Sending, At
    <2> QED  BY <2>1, Numbers DEF Counted, Passing
  <1>3. Apart'
    BY PoolAssumption DEF AcceptorDrops, Apart, AtWorker, At, poolVars
  <1>4. \A c \in Conns : c # acceptor.conn => kind'[c] = kind[c]
    BY DEF AcceptorDrops, Gone, PoolType
  <1>5. acceptor.conn \in Conns /\ ~AtWorker(acceptor.conn)
        /\ acceptor.conn \notin ToSet(unread) \cup ToSet(parked) \cup ToSet(line) \cup {overflow.conn}
    BY DEF AcceptorDrops, ThreadType, Apart
  <1>6. Open'
    <2>1. UNCHANGED <<poolVars, worker, line, overflow>> /\ acceptor' = At("accept", Nobody)
      BY DEF AcceptorDrops
    <2>2. ToSet(parked) \subseteq Conns
      BY DEF PoolType, ToSet
    <2> QED  BY <1>4, <1>5, <2>1, <2>2, PoolAssumption
             DEF Open, Waits, AtWorker, At, poolVars, WorkerType, ThreadType
  <1> QED  BY <1>1, <1>2, <1>3, <1>6

-----------------------------------------------------------------------------
LEMMA OverflowReceivesStep == PoolInv /\ OverflowReceives => PoolInv'
  <1> SUFFICES ASSUME PoolInv, OverflowReceives PROVE PoolInv'
    OBVIOUS
  <1>1. /\ line' = Tail(line) /\ overflow' = At("offer", Head(line))
        /\ UNCHANGED <<kind, poolVars, worker, acceptor, waiting>>
    BY DEF OverflowReceives
  <1>2. /\ line' \in Seq(Conns) /\ Head(line) \in Conns
        /\ Len(line) \in Nat \ {0} /\ Len(line') = Len(line) - 1
        /\ ToSet(line) = ToSet(line') \cup {Head(line)}
        /\ Distinct(line') /\ Head(line) \notin ToSet(line')
    BY <1>1, TakenLine DEF OverflowReceives, PoolInv, Typed, PoolType, Placed, Apart
  <1>3. PoolType' /\ WorkerType' /\ ThreadType'
    BY <1>1, <1>2, PoolAssumption
    DEF PoolInv, Typed, PoolType, WorkerType, ThreadType, At, poolVars
  <1>4. Counted' /\ Passing'
    <2>1. /\ Held = 0 /\ Held' = 1 /\ Sending' = Sending /\ acceptor' = acceptor
          /\ waiting' = waiting /\ overflow'.at # "gone"
      BY <1>1 DEF OverflowReceives, Held, Sending, At
    <2>2. Len(line') <= OverflowQueue
      BY <1>2, PoolAssumption DEF PoolInv, Typed, Counted
    <2> QED  BY <1>2, <2>1, <2>2, Numbers DEF PoolInv, Typed, Placed, Counted, Passing
  <1>5. Apart'
    BY <1>1, <1>2, PoolAssumption DEF PoolInv, Typed, Placed, Apart, AtWorker, At, poolVars
  <1>6. Open'
    BY <1>1, <1>2, PoolAssumption DEF PoolInv, Placed, Open, Waits, AtWorker, At, poolVars
  <1> QED  BY <1>3, <1>4, <1>5, <1>6 DEF PoolInv, Typed, Placed

(* The connection the thread holds is queued, in either of its offers.     *)
LEMMA OverflowQueuesStep ==
  ASSUME PoolInv, overflow.at \in {"offer", "press"}, Queue(overflow.conn),
         overflow' = At("leave", Nobody), UNCHANGED <<kind, worker, acceptor, line, waiting>>
  PROVE  PoolInv'
  <1> DEFINE c == overflow.conn
  <1>1. c \in Conns /\ c \notin ToSet(unread)
    BY DEF PoolInv, Typed, Placed, ThreadType, Apart
  <1>2. /\ unread' \in Seq(Conns)
        /\ ToSet(unread') = ToSet(unread) \cup {c} /\ Distinct(unread')
        /\ asleep' \subseteq Workers
    BY <1>1, Queued
  <1>3. UNCHANGED <<parked, overdue>>
    BY DEF Queue
  <1>4. PoolType' /\ WorkerType' /\ ThreadType'
    BY <1>2, <1>3 DEF PoolInv, Typed, PoolType, WorkerType, ThreadType, At
  <1>5. Counted' /\ Passing'
    BY DEF PoolInv, Typed, Placed, Counted, Passing, Held, Sending, At
  <1>6. Apart'
    BY <1>1, <1>2, <1>3, PoolAssumption DEF PoolInv, Placed, Apart, AtWorker, At
  <1>7. Open'
    BY <1>1, <1>2, <1>3, PoolAssumption DEF PoolInv, Placed, Open, Waits, AtWorker, At
  <1> QED  BY <1>4, <1>5, <1>6, <1>7 DEF PoolInv, Typed, Placed

(* The thread goes on with the connection it holds.                        *)
LEMMA OverflowsStep ==
  ASSUME PoolInv, NEW to \in {"peek", "press", "refuse"}, Overflows(to),
         overflow.at \in {"offer", "peek", "press"},
         to = "press" => kind[overflow.conn] \in Posts,
         UNCHANGED <<kind, poolVars, worker, acceptor, line, waiting>>
  PROVE  PoolInv'
  <1> USE DEF PoolInv, Typed, Placed
  <1>1. overflow' = At(to, overflow.conn)
    BY DEF Overflows
  <1>2. PoolType' /\ WorkerType' /\ ThreadType'
    BY <1>1, PoolAssumption DEF PoolType, WorkerType, ThreadType, At, poolVars
  <1>3. Counted' /\ Passing'
    BY <1>1 DEF Counted, Passing, Held, Sending, At
  <1>4. Apart' /\ Open'
    BY <1>1 DEF Apart, Open, Waits, AtWorker, At, poolVars
  <1> QED  BY <1>2, <1>3, <1>4

LEMMA OverflowOffersStep == PoolInv /\ OverflowOffers => PoolInv'
  BY OverflowQueuesStep, OverflowsStep DEF OverflowOffers

LEMMA OverflowPeeksStep == PoolInv /\ OverflowPeeks => PoolInv'
  BY OverflowsStep DEF OverflowPeeks

LEMMA OverflowOffersPressStep == PoolInv /\ OverflowOffersPress => PoolInv'
  BY OverflowQueuesStep, OverflowsStep DEF OverflowOffersPress

LEMMA OverflowRefusesStep == PoolInv /\ OverflowRefuses => PoolInv'
  <1> SUFFICES ASSUME PoolInv, OverflowRefuses PROVE PoolInv'
    OBVIOUS
  <1> USE DEF PoolInv, Typed, Placed
  <1>1. PoolType' /\ WorkerType' /\ ThreadType'
    BY PoolAssumption DEF OverflowRefuses, Gone, PoolType, WorkerType, ThreadType, At, poolVars
  <1>2. Counted' /\ Passing'
    BY DEF OverflowRefuses, Counted, Passing, Held, Sending, At, poolVars
  <1>3. Apart'
    BY PoolAssumption DEF OverflowRefuses, Apart, AtWorker, At, poolVars
  <1>4. \A c \in Conns : c # overflow.conn => kind'[c] = kind[c]
    BY DEF OverflowRefuses, Gone, PoolType
  <1>5. overflow.conn \in Conns /\ ~AtWorker(overflow.conn)
        /\ overflow.conn \notin ToSet(unread) \cup ToSet(parked) \cup ToSet(line) \cup {acceptor.conn}
    BY DEF OverflowRefuses, ThreadType, Apart
  <1>6. Open'
    <2>1. UNCHANGED <<poolVars, worker, line, acceptor>> /\ overflow' = At("leave", Nobody)
      BY DEF OverflowRefuses
    <2>2. ToSet(parked) \subseteq Conns
      BY DEF PoolType, ToSet
    <2> QED  BY <1>4, <1>5, <2>1, <2>2, PoolAssumption
             DEF Open, Waits, AtWorker, At, poolVars, WorkerType, ThreadType
  <1> QED  BY <1>1, <1>2, <1>3, <1>6

LEMMA OverflowLeavesStep == PoolInv /\ OverflowLeaves => PoolInv'
  <1> SUFFICES ASSUME PoolInv, OverflowLeaves PROVE PoolInv'
    OBVIOUS
  <1> USE DEF PoolInv, Typed, Placed
  <1>1. PoolType' /\ WorkerType' /\ ThreadType'
    BY DEF OverflowLeaves, PoolType, WorkerType, ThreadType, At, poolVars
  <1>2. Counted' /\ Passing'
    <2>1. /\ Held = 1 /\ Held' = 0 /\ Sending' = Sending /\ line' = line
          /\ waiting' = waiting - 1 /\ acceptor' = acceptor /\ overflow'.at # "gone"
      BY DEF OverflowLeaves, Held, Sending, At
    <2> QED  BY <2>1, Numbers DEF Counted, Passing
  <1>3. Apart' /\ Open'
    BY DEF OverflowLeaves, Apart, Open, Waits, AtWorker, At, poolVars, ThreadType
  <1> QED  BY <1>1, <1>2, <1>3

-----------------------------------------------------------------------------
LEMMA WorkerReadsStep ==
  ASSUME PoolInv, NEW w \in Workers, WorkerReads(w)
  PROVE  PoolInv'
  <1> USE DEF PoolInv, Typed, Placed
  <1>1. PICK to \in {"park", "answer"} :
           /\ worker' = [worker EXCEPT ![w].at = to]
           /\ to = "park" => kind[worker[w].conn] = "display"
    BY DEF WorkerReads
  <1>2. UNCHANGED <<kind, poolVars, acceptor, line, waiting, overflow>> /\ worker[w].at = "read"
    BY DEF WorkerReads
  <1>3. \A v \in Workers : worker'[v].conn = worker[v].conn
                           /\ worker'[v].at = IF v = w THEN to ELSE worker[v].at
    BY <1>1 DEF WorkerType
  <1>4. PoolType' /\ WorkerType' /\ ThreadType'
    BY <1>1, <1>2, <1>3 DEF PoolType, WorkerType, ThreadType, poolVars
  <1>5. Counted' /\ Passing'
    BY <1>2 DEF Counted, Passing, Held, Sending
  <1>6. \A c : AtWorker(c)' <=> AtWorker(c)
    BY <1>3 DEF AtWorker
  <1>7. Apart'
    BY <1>2, <1>3, <1>6 DEF Apart, poolVars
  <1>8. Open'
    BY <1>1, <1>2, <1>3, <1>6 DEF Open, Waits, poolVars
  <1> QED  BY <1>4, <1>5, <1>7, <1>8

LEMMA WorkerEndsStep ==
  ASSUME PoolInv, NEW w \in Workers, WorkerEnds(w)
  PROVE  PoolInv'
  <1> USE DEF PoolInv, Typed, Placed
  <1>1. /\ worker' = [worker EXCEPT ![w] = At("free", Nobody)]
        /\ kind' = [kind EXCEPT ![worker[w].conn] = Nobody]
        /\ UNCHANGED <<poolVars, acceptor, line, waiting, overflow>>
    BY DEF WorkerEnds, Gone
  <1>2. /\ worker[w].conn \in Conns
        /\ \A v \in Workers : worker'[v] = IF v = w THEN At("free", Nobody) ELSE worker[v]
    BY <1>1 DEF WorkerEnds, WorkerType
  <1>3. \A c \in Conns : c # worker[w].conn => kind'[c] = kind[c]
    BY <1>1 DEF PoolType
  <1>4. PoolType' /\ WorkerType' /\ ThreadType'
    BY <1>1, <1>2, PoolAssumption DEF PoolType, WorkerType, ThreadType, At, poolVars
  <1>5. Counted' /\ Passing'
    BY <1>1 DEF Counted, Passing, Held, Sending
  <1>6. \A c \in Conns : AtWorker(c)' => AtWorker(c) /\ c # worker[w].conn
    BY <1>2, PoolAssumption DEF AtWorker, At, Apart, WorkerType
  <1>7. Apart'
    BY <1>1, <1>2, <1>6 DEF Apart, poolVars, At
  <1>8. Open'
    <2>1. ToSet(parked) \subseteq Conns /\ AtWorker(worker[w].conn)
      BY DEF PoolType, ToSet, AtWorker
    <2>2. worker[w].conn \notin ToSet(unread) \cup ToSet(parked) \cup ToSet(line)
                                   \cup {acceptor.conn, overflow.conn}
      BY <1>2, <2>1 DEF Apart
    <2>3. \A c \in Conns : (Waits(c) \/ AtWorker(c))' => kind'[c] # Nobody
      BY <1>1, <1>3, <1>6, <2>2 DEF Open, Waits, poolVars
    <2>4. \A v \in Workers : worker'[v].at = "park" => kind'[worker'[v].conn] = "display"
      BY <1>2, <1>3, PoolAssumption DEF Open, Apart, WorkerType, At
    <2>5. /\ \A c \in ToSet(parked') : kind'[c] = "display"
          /\ overflow'.at = "press" => kind'[overflow'.conn] \in Posts
      BY <1>1, <1>3, <2>1, <2>2 DEF Open, poolVars, ThreadType
    <2> QED  BY <2>3, <2>4, <2>5 DEF Open
  <1> QED  BY <1>4, <1>5, <1>7, <1>8

LEMMA WorkerParksStep ==
  ASSUME PoolInv, NEW w \in Workers, WorkerParks(w)
  PROVE  PoolInv'
  <1> DEFINE c == worker[w].conn
  <1>1. /\ worker' = [worker EXCEPT ![w] = At("free", Nobody)]
        /\ parked' = Append(parked, c)
        /\ UNCHANGED <<kind, unread, overdue, acceptor, line, waiting, overflow>>
    BY DEF WorkerParks
  <1>2. /\ c \in Conns /\ kind[c] = "display" /\ AtWorker(c)
        /\ \A v \in Workers : worker'[v] = IF v = w THEN At("free", Nobody) ELSE worker[v]
    BY <1>1 DEF WorkerParks, PoolInv, Typed, WorkerType, Placed, Open, AtWorker
  <1>3. c \notin ToSet(unread) \cup ToSet(parked) \cup ToSet(line)
                     \cup {acceptor.conn, overflow.conn}
    BY <1>2 DEF PoolInv, Placed, Apart
  <1>4. /\ parked' \in Seq(Conns) /\ Len(parked') = Len(parked) + 1 /\ Len(parked) \in Nat
        /\ ToSet(parked') = ToSet(parked) \cup {c} /\ Distinct(parked')
    BY <1>1, <1>2, <1>3, AppendedLine, LenProperties DEF PoolInv, Typed, PoolType, Placed, Apart
  <1>5. asleep' \subseteq Workers
    BY Notified DEF WorkerParks, PoolInv, Typed, PoolType
  <1> HIDE DEF c
  <1>6. overdue' \in 0..Len(parked')
    BY <1>1, <1>4 DEF PoolInv, Typed, PoolType
  <1>7. PoolType' /\ WorkerType' /\ ThreadType'
    BY <1>1, <1>2, <1>4, <1>5, <1>6, PoolAssumption
    DEF PoolInv, Typed, PoolType, WorkerType, ThreadType, At
  <1>8. Counted' /\ Passing'
    BY <1>1 DEF PoolInv, Typed, Placed, Counted, Passing, Held, Sending
  <1>9. \A d \in Conns : AtWorker(d)' => AtWorker(d) /\ d # c
    BY <1>2, PoolAssumption DEF AtWorker, At, PoolInv, Placed, Apart, Typed, WorkerType, c
  <1>10. Apart'
    BY <1>1, <1>2, <1>3, <1>4, <1>9 DEF PoolInv, Placed, Apart, At
  <1>11. Open'
    <2>1. \A d \in Conns : (Waits(d) \/ AtWorker(d))' => kind'[d] # Nobody
      BY <1>1, <1>9 DEF PoolInv, Placed, Open, Waits
    <2>2. /\ \A v \in Workers : worker'[v].at = "park" => kind'[worker'[v].conn] = "display"
          /\ \A d \in ToSet(parked') : kind'[d] = "display"
          /\ overflow'.at = "press" => kind'[overflow'.conn] \in Posts
      BY <1>1, <1>2, <1>4 DEF PoolInv, Placed, Open, At
    <2> QED  BY <2>1, <2>2 DEF Open
  <1> QED  BY <1>7, <1>8, <1>10, <1>11 DEF PoolInv, Typed, Placed

(* A worker takes an unread connection, a parked one, or sleeps.           *)
TakesUnread(w) ==
    /\ unread # <<>> /\ unread' = Tail(unread)
    /\ worker' = [worker EXCEPT ![w] = At("read", Head(unread))]
    /\ UNCHANGED <<kind, parked, overdue, asleep, acceptor, line, waiting, overflow>>

TakesParked(w) ==
    /\ parked # <<>> /\ parked' = Tail(parked)
    /\ overdue' = (IF overdue = 0 THEN 0 ELSE overdue - 1)
    /\ worker' = [worker EXCEPT ![w] = At("answer", Head(parked))]
    /\ UNCHANGED <<kind, unread, asleep, acceptor, line, waiting, overflow>>

Sleeps(w) ==
    /\ unread = <<>> /\ parked = <<>> /\ asleep' = asleep \cup {w}
    /\ UNCHANGED <<kind, unread, parked, overdue, worker, acceptor, line, waiting, overflow>>

LEMMA WorkerLooksWays ==
  ASSUME NEW w \in Workers, WorkerLooks(w)
  PROVE  worker[w].at = "free" /\ (TakesUnread(w) \/ TakesParked(w) \/ Sleeps(w))
  BY DEF WorkerLooks, TakesUnread, TakesParked, Sleeps

LEMMA TakesUnreadStep ==
  ASSUME PoolInv, NEW w \in Workers, worker[w].at = "free", TakesUnread(w)
  PROVE  PoolInv'
  <1> DEFINE c == Head(unread)
  <1>1. /\ worker' = [worker EXCEPT ![w] = At("read", c)]
        /\ UNCHANGED <<kind, parked, overdue, asleep, acceptor, line, waiting, overflow>>
    BY DEF TakesUnread
  <1>2. /\ unread' \in Seq(Conns) /\ c \in Conns
        /\ ToSet(unread) = ToSet(unread') \cup {c}
        /\ Distinct(unread') /\ c \notin ToSet(unread')
    BY TakenLine DEF TakesUnread, PoolInv, Typed, PoolType, Placed, Apart
  <1> HIDE DEF c
  <1>3. /\ \A v \in Workers : worker'[v] = IF v = w THEN At("read", c) ELSE worker[v]
        /\ c # Nobody
    BY <1>1, <1>2, PoolAssumption DEF PoolInv, Typed, WorkerType
  <1>4. PoolType' /\ WorkerType' /\ ThreadType'
    BY <1>1, <1>2, <1>3 DEF PoolInv, Typed, PoolType, WorkerType, ThreadType, At
  <1>5. Counted' /\ Passing'
    BY <1>1 DEF PoolInv, Typed, Placed, Counted, Passing, Held, Sending
  <1>6. /\ \A d : AtWorker(d)' => AtWorker(d) \/ d = c
        /\ ~AtWorker(c)
    BY <1>2, <1>3 DEF AtWorker, At, PoolInv, Placed, Apart
  <1>7. Apart'
    BY <1>1, <1>2, <1>3, <1>6 DEF PoolInv, Placed, Apart, At, AtWorker
  <1>8. Open'
    <2>1. \A d \in Conns : (Waits(d) \/ AtWorker(d))' => kind'[d] # Nobody
      BY <1>1, <1>2, <1>6 DEF PoolInv, Placed, Open, Waits
    <2>2. /\ \A v \in Workers : worker'[v].at = "park" => kind'[worker'[v].conn] = "display"
          /\ \A d \in ToSet(parked') : kind'[d] = "display"
          /\ overflow'.at = "press" => kind'[overflow'.conn] \in Posts
      BY <1>1, <1>3 DEF PoolInv, Placed, Open, At
    <2> QED  BY <2>1, <2>2 DEF Open
  <1> QED  BY <1>4, <1>5, <1>7, <1>8 DEF PoolInv, Typed, Placed

LEMMA TakesParkedStep ==
  ASSUME PoolInv, NEW w \in Workers, worker[w].at = "free", TakesParked(w)
  PROVE  PoolInv'
  <1> DEFINE c == Head(parked)
  <1>1. /\ worker' = [worker EXCEPT ![w] = At("answer", c)]
        /\ UNCHANGED <<kind, unread, asleep, acceptor, line, waiting, overflow>>
    BY DEF TakesParked
  <1>2. /\ parked' \in Seq(Conns) /\ c \in Conns
        /\ Len(parked) \in Nat \ {0} /\ Len(parked') = Len(parked) - 1
        /\ ToSet(parked) = ToSet(parked') \cup {c}
        /\ Distinct(parked') /\ c \notin ToSet(parked')
    BY TakenLine DEF TakesParked, PoolInv, Typed, PoolType, Placed, Apart
  <1>3. overdue' \in 0..Len(parked')
    BY <1>2 DEF TakesParked, PoolInv, Typed, PoolType
  <1> HIDE DEF c
  <1>4. /\ \A v \in Workers : worker'[v] = IF v = w THEN At("answer", c) ELSE worker[v]
        /\ c # Nobody
    BY <1>1, <1>2, PoolAssumption DEF PoolInv, Typed, WorkerType
  <1>5. PoolType' /\ WorkerType' /\ ThreadType'
    BY <1>1, <1>2, <1>3, <1>4 DEF PoolInv, Typed, PoolType, WorkerType, ThreadType, At
  <1>6. Counted' /\ Passing'
    BY <1>1 DEF PoolInv, Typed, Placed, Counted, Passing, Held, Sending
  <1>7. /\ \A d : AtWorker(d)' => AtWorker(d) \/ d = c
        /\ ~AtWorker(c)
    BY <1>2, <1>4 DEF AtWorker, At, PoolInv, Placed, Apart
  <1>8. Apart'
    BY <1>1, <1>2, <1>4, <1>7 DEF PoolInv, Placed, Apart, At, AtWorker
  <1>9. Open'
    <2>1. \A d \in Conns : (Waits(d) \/ AtWorker(d))' => kind'[d] # Nobody
      BY <1>1, <1>2, <1>7, PoolAssumption DEF PoolInv, Placed, Open, Waits
    <2>2. /\ \A v \in Workers : worker'[v].at = "park" => kind'[worker'[v].conn] = "display"
          /\ \A d \in ToSet(parked') : kind'[d] = "display"
          /\ overflow'.at = "press" => kind'[overflow'.conn] \in Posts
      BY <1>1, <1>2, <1>4 DEF PoolInv, Placed, Open, At
    <2> QED  BY <2>1, <2>2 DEF Open
  <1> QED  BY <1>5, <1>6, <1>8, <1>9 DEF PoolInv, Typed, Placed

LEMMA WorkerLooksStep ==
  ASSUME PoolInv, NEW w \in Workers, WorkerLooks(w)
  PROVE  PoolInv'
  <1>1. CASE Sleeps(w)
    <2> USE DEF PoolInv, Typed, Placed
    <2>1. PoolType' /\ WorkerType' /\ ThreadType'
      BY <1>1 DEF Sleeps, PoolType, WorkerType, ThreadType
    <2>2. Counted' /\ Passing' /\ Apart' /\ Open'
      BY <1>1 DEF Sleeps, Counted, Passing, Held, Sending, Apart, Open, Waits, AtWorker
    <2> QED  BY <2>1, <2>2
  <1> QED  BY <1>1, WorkerLooksWays, TakesUnreadStep, TakesParkedStep

LEMMA ParkedReadAgesStep == PoolInv /\ ParkedReadAges => PoolInv'
  <1> SUFFICES ASSUME PoolInv, ParkedReadAges PROVE PoolInv'
    OBVIOUS
  <1>1. Len(parked) \in Nat
    BY LenProperties DEF PoolInv, Typed, PoolType
  <1>2. overdue' \in 0..Len(parked')
    BY <1>1 DEF ParkedReadAges, PoolInv, Typed, PoolType
  <1> USE DEF PoolInv, Typed, Placed, ParkedReadAges
  <1>3. PoolType' /\ WorkerType' /\ ThreadType'
    BY <1>2 DEF PoolType, WorkerType, ThreadType
  <1>4. Counted' /\ Passing' /\ Apart' /\ Open'
    BY DEF Counted, Passing, Held, Sending, Apart, Open, Waits, AtWorker
  <1> QED  BY <1>3, <1>4

LEMMA StutterStep == PoolInv /\ UNCHANGED vars => PoolInv'
  <1> SUFFICES ASSUME PoolInv, UNCHANGED vars PROVE PoolInv'
    OBVIOUS
  <1> USE DEF vars, poolVars, PoolInv, Typed, Placed
  <1>1. PoolType' /\ WorkerType' /\ ThreadType'
    BY DEF PoolType, WorkerType, ThreadType
  <1>2. Counted' /\ Passing' /\ Apart' /\ Open'
    BY DEF Counted, Passing, Held, Sending, Apart, Open, Waits, AtWorker
  <1> QED  BY <1>1, <1>2

LEMMA StepPlaced == PoolInv /\ [Next]_vars => PoolInv'
  <1> SUFFICES ASSUME PoolInv, [Next]_vars PROVE PoolInv'
    OBVIOUS
  <1>1. CASE Acceptor
    BY <1>1, AcceptorLooksStep, AcceptorOffersStep, AcceptorCountsStep, AcceptorSendsStep,
       AcceptorDropsStep DEF Acceptor
  <1>2. CASE Overflow
    BY <1>2, OverflowReceivesStep, OverflowOffersStep, OverflowPeeksStep,
       OverflowOffersPressStep, OverflowRefusesStep, OverflowLeavesStep DEF Overflow
  <1>3. ASSUME NEW w \in Workers, Worker(w)
        PROVE  PoolInv'
    BY <1>3, WorkerLooksStep, WorkerReadsStep, WorkerParksStep, WorkerEndsStep DEF Worker
  <1> QED  BY <1>1, <1>2, <1>3, AcceptsStep, ParkedReadAgesStep, StutterStep DEF Next

LEMMA AlwaysPlaced == Spec => []PoolInv
  BY InitPlaced, StepPlaced, PTL DEF Spec

-----------------------------------------------------------------------------
(* The bridge's state is what its types say for every step of its threads  *)
(* (accept, overflow_one, serve_next); above all, Overflow.waiting never   *)
(* passes OVERFLOW_QUEUE and the two that may be on their way.             *)
THEOREM PoolTypeCorrect == Spec => []TypeOK
  <1>1. PoolInv => TypeOK
    <2> SUFFICES ASSUME PoolInv PROVE TypeOK
      OBVIOUS
    <2>1. waiting \in 0..(OverflowQueue + 2)
      BY Numbers, PoolAssumption DEF PoolInv, Typed, Counted
    <2> QED  BY <2>1 DEF PoolInv, Typed, PoolType, WorkerType, ThreadType, TypeOK
  <1> QED  BY <1>1, AlwaysPlaced, PTL

-----------------------------------------------------------------------------
(* Nobody waits in the queue while every worker sleeps (Pool::next and the *)
(* notify_one of queue and park): a worker sleeps only when both lines are *)
(* empty, and who joins a line wakes one.                                  *)
LEMMA NothingQueued ==
  ASSUME PoolType, PoolType', unread' = unread \/ unread' = Tail(unread),
         parked' = parked \/ parked' = Tail(parked), Depth = 0
  PROVE  Depth' = 0
  <1>1. /\ Len(unread) \in Nat /\ Len(parked) \in Nat
        /\ Len(unread') \in Nat /\ Len(parked') \in Nat
    BY LenProperties DEF PoolType
  <1>2. Len(unread) = 0 /\ Len(parked) = 0
    BY <1>1 DEF Depth
  <1>3. unread = <<>> /\ parked = <<>>
    BY <1>2, EmptySeq DEF PoolType
  <1> QED  BY <1>1, <1>2, <1>3 DEF Depth

LEMMA StepHears == PoolInv /\ PoolInv' /\ WorkersHear /\ [Next]_vars => WorkersHear'
  <1> SUFFICES ASSUME PoolInv, PoolInv', WorkersHear, [Next]_vars PROVE WorkersHear'
    OBVIOUS
  <1> USE DEF PoolInv, Typed
  <1>1. asleep \subseteq Workers
    BY DEF PoolType
  <1>2. CASE UNCHANGED poolVars
    BY <1>2 DEF poolVars, WorkersHear, Depth
  <1>3. CASE NotifyOne
    BY <1>1, <1>3, Notified DEF WorkersHear
  <1>4. ASSUME NEW w \in Workers, WorkerLooks(w)
        PROVE  WorkersHear'
    <2>1. CASE Sleeps(w)
      BY <2>1, NoLine DEF Sleeps, WorkersHear, Depth
    <2>2. CASE TakesUnread(w) \/ TakesParked(w)
      BY <2>2, NothingQueued DEF TakesUnread, TakesParked, WorkersHear
    <2> QED  BY <1>4, <2>1, <2>2, WorkerLooksWays
  <1>5. CASE ParkedReadAges
    BY <1>5, NothingQueued DEF ParkedReadAges, WorkersHear
  <1>6. CASE Acceptor
    BY <1>2, <1>3, <1>6 DEF Acceptor, AcceptorLooks, AcceptorOffers, AcceptorCounts,
       AcceptorSends, AcceptorDrops, Queue
  <1>7. CASE Overflow
    BY <1>2, <1>3, <1>7 DEF Overflow, OverflowReceives, OverflowOffers, OverflowPeeks,
       OverflowOffersPress, OverflowRefuses, OverflowLeaves, Queue
  <1>8. ASSUME NEW w \in Workers, WorkerReads(w) \/ WorkerParks(w) \/ WorkerEnds(w)
        PROVE  WorkersHear'
    BY <1>2, <1>3, <1>8 DEF WorkerReads, WorkerParks, WorkerEnds
  <1>9. CASE \E c \in Conns, k \in Kinds : Accepts(c, k)
    BY <1>2, <1>9 DEF Accepts
  <1>10. CASE UNCHANGED vars
    BY <1>2, <1>10 DEF vars
  <1> QED  BY <1>4, <1>5, <1>6, <1>7, <1>8, <1>9, <1>10 DEF Next, Worker

THEOREM NobodySleepsOverAConnection == Spec => []WorkersHear
  <1>1. Init => WorkersHear
    BY PoolAssumption, NoLine DEF Init, WorkersHear, Depth
  <1>2. PoolInv /\ PoolInv' /\ WorkersHear /\ [Next]_vars => WorkersHear'
    BY StepHears
  <1> QED  BY <1>1, <1>2, AlwaysPlaced, PTL DEF Spec

-----------------------------------------------------------------------------
(* The presses' line.  A connection moves on from one place to the next     *)
(* without passing another.                                                *)
LEMMA PlacesKept ==
  ASSUME kind' = kind,
         \A c \in Conns : AtWorker(c)' <=> AtWorker(c),
         \A c \in Conns : Waits(c)' <=> Waits(c),
         \A c, d \in Conns : Ahead(c, d)' <=> Ahead(c, d)
  PROVE  UNCHANGED Presses!pressVars
  <1>1. ComingPresses' = ComingPresses
    BY DEF ComingPresses, IsPress
  <1>2. PressOrder' = PressOrder
    <2>1. ComingPresses \subseteq Conns
      BY DEF ComingPresses
    <2> QED  BY <1>1, <2>1 DEF PressOrder
  <1>3. BegunPresses' = BegunPresses
    BY DEF BegunPresses, IsPress, AtWorker
  <1> QED  BY <1>1, <1>2, <1>3 DEF Presses!pressVars

LEMMA AcceptsCome ==
  ASSUME PoolInv, NEW c \in Conns, NEW k \in Kinds, Accepts(c, k)
  PROVE  [Presses!PressesNext]_(Presses!pressVars)
  <1>1. ~Waits(c) /\ ~AtWorker(c) /\ acceptor.conn = Nobody
    BY DEF Accepts, PoolInv, Placed, Open, Typed, ThreadType
  <1>2. /\ acceptor'.conn = c
        /\ UNCHANGED <<unread, line, worker, overflow>>
        /\ kind'[c] = k
        /\ \A d \in Conns : d # c => kind'[d] = kind[d]
    BY DEF Accepts, At, poolVars, PoolInv, Typed, PoolType
  <1>3. \A d \in Conns : Waits(d)' <=> Waits(d) \/ d = c
    BY <1>1, <1>2, PoolAssumption DEF Waits
  <1>4. BegunPresses' = BegunPresses
    BY <1>1, <1>2 DEF BegunPresses, IsPress, AtWorker
  <1>5. \A d, e \in Conns : Waits(d) /\ Waits(e) => (Ahead(d, e)' <=> Ahead(d, e))
    BY <1>1, <1>2, PoolAssumption DEF Ahead, Waits
  <1>6. CASE k # "press"
    <2>1. ComingPresses' = ComingPresses
      BY <1>1, <1>2, <1>3, <1>6 DEF ComingPresses, IsPress
    <2>2. PressOrder' = PressOrder
      BY <1>5, <2>1 DEF PressOrder, ComingPresses
    <2> QED  BY <1>4, <2>1, <2>2 DEF Presses!pressVars
  <1>7. CASE k = "press"
    <2>1. ComingPresses' = ComingPresses \cup {c} /\ c \notin ComingPresses \cup BegunPresses
      BY <1>1, <1>2, <1>3, <1>7 DEF ComingPresses, BegunPresses, AtWorker, IsPress
    <2>2. \A d \in Conns : Waits(d) => Ahead(d, c)' /\ ~Ahead(c, d)'
      BY <1>1, <1>2, LineMembers, PoolAssumption DEF Ahead, Waits
    <2>3. ~Ahead(c, c)'
      BY <1>1, <1>2, LineMembers DEF Ahead, Waits
    <2>4. PressOrder' = PressOrder \cup (ComingPresses \X {c})
      <3>1. \A d, e \in ComingPresses' :
                Ahead(d, e)' <=> (<<d, e>> \in PressOrder \/ (d \in ComingPresses /\ e = c))
        BY <1>5, <2>1, <2>2, <2>3 DEF PressOrder, ComingPresses
      <3>2. PressOrder \subseteq ComingPresses \X ComingPresses
        BY DEF PressOrder
      <3>3. PressOrder' = {b \in ComingPresses' \X ComingPresses' : Ahead(b[1], b[2])'}
        BY DEF PressOrder
      <3> QED  BY <2>1, <3>1, <3>2, <3>3
    <2>5. Presses!Come(c)
      BY <1>4, <2>1, <2>4, Zenon DEF Presses!Come
    <2> QED  BY <2>5 DEF Presses!PressesNext
  <1> QED  BY <1>6, <1>7

(* A connection p leaves the line, the others keep their order.             *)
LEMMA LineLeft ==
  ASSUME NEW p \in Conns,
         \A c \in Conns : c # p => kind'[c] = kind[c],
         \A c \in Conns : Waits(c)' <=> Waits(c) /\ c # p,
         \A c, d \in Conns : c # p /\ d # p => (Ahead(c, d)' <=> Ahead(c, d))
  PROVE  /\ p \in ComingPresses => Presses!Leaves(p)
         /\ p \notin ComingPresses => UNCHANGED <<ComingPresses, PressOrder>>
  <1>1. ComingPresses' = ComingPresses \ {p}
    BY DEF ComingPresses, IsPress
  <1>2. /\ PressOrder = {b \in ComingPresses \X ComingPresses : Ahead(b[1], b[2])}
        /\ PressOrder' = {b \in ComingPresses' \X ComingPresses' : Ahead(b[1], b[2])'}
    BY DEF PressOrder
  <1>3. \A c, d \in ComingPresses' : Ahead(c, d)' <=> Ahead(c, d)
    BY <1>1 DEF ComingPresses
  <1>4. PressOrder' = PressOrder \cap (ComingPresses' \X ComingPresses')
    BY <1>1, <1>2, <1>3
  <1>5. p \in ComingPresses => Presses!Leaves(p)
    BY <1>1, <1>4, Zenon DEF Presses!Leaves
  <1>6. p \notin ComingPresses => UNCHANGED <<ComingPresses, PressOrder>>
    BY <1>1, <1>2, <1>3
  <1> QED  BY <1>5, <1>6

LEMMA LeftUnbegun ==
  ASSUME NEW p \in Conns,
         \A c \in Conns : c # p => kind'[c] = kind[c],
         \A c \in Conns : Waits(c)' <=> Waits(c) /\ c # p,
         \A c, d \in Conns : c # p /\ d # p => (Ahead(c, d)' <=> Ahead(c, d)),
         worker' = worker, ~AtWorker(p)
  PROVE  [Presses!PressesNext]_(Presses!pressVars)
  <1>1. BegunPresses' = BegunPresses
    BY DEF BegunPresses, IsPress, AtWorker
  <1>2. CASE p \in ComingPresses
    BY <1>1, <1>2, LineLeft, Zenon DEF Presses!TurnAway, Presses!PressesNext
  <1>3. CASE p \notin ComingPresses
    BY <1>1, <1>3, LineLeft DEF Presses!pressVars
  <1> QED  BY <1>2, <1>3

LEMMA AcceptorOffersMove == PoolInv /\ AcceptorOffers => UNCHANGED Presses!pressVars
  <1> SUFFICES ASSUME PoolInv, AcceptorOffers PROVE UNCHANGED Presses!pressVars
    OBVIOUS
  <1> DEFINE c == acceptor.conn
  <1>1. c \in Conns /\ c \notin ToSet(unread) /\ acceptor.at = "offer"
    BY DEF AcceptorOffers, PoolInv, Typed, Placed, ThreadType, Apart
  <1>2. UNCHANGED <<kind, worker, line, overflow>>
    BY DEF AcceptorOffers
  <1>3. CASE Queue(c) /\ acceptor' = At("accept", Nobody)
    <2>1. /\ ToSet(unread') = ToSet(unread) \cup {c} /\ acceptor'.conn = Nobody
          /\ \A p, q : InLine(unread', p, q) <=> InLine(unread, p, q) \/ (p \in ToSet(unread) /\ q = c)
      BY <1>1, <1>3, Queued DEF At
    <2>2. line = <<>> /\ overflow.conn = Nobody
      <3>1. waiting = 0
        BY <1>1 DEF PoolInv, Placed, Passing
      <3>2. Len(line) = 0 /\ Held = 0
        BY <3>1, Numbers DEF PoolInv, Typed, Counted
      <3> QED  BY <3>2, EmptySeq DEF PoolInv, Typed, PoolType, ThreadType, Held
    <2>3. \A d \in Conns : Waits(d)' <=> Waits(d)
      BY <1>1, <1>2, <2>1, PoolAssumption DEF Waits
    <2>4. \A d, e \in Conns : Ahead(d, e)' <=> Ahead(d, e)
      BY <1>1, <1>2, <2>1, <2>2, NoLine, PoolAssumption DEF Ahead
    <2> QED  BY <1>2, <2>3, <2>4, PlacesKept DEF AtWorker
  <1>4. CASE acceptor' = At("count", c) /\ UNCHANGED poolVars
    <2>1. \A d, e \in Conns : (Waits(d)' <=> Waits(d)) /\ (Ahead(d, e)' <=> Ahead(d, e))
      BY <1>2, <1>4 DEF Waits, Ahead, At, poolVars
    <2> QED  BY <1>2, <2>1, PlacesKept DEF AtWorker
  <1> QED  BY <1>3, <1>4 DEF AcceptorOffers

LEMMA AcceptorSendsMove == PoolInv /\ AcceptorSends => UNCHANGED Presses!pressVars
  <1> SUFFICES ASSUME PoolInv, AcceptorSends PROVE UNCHANGED Presses!pressVars
    OBVIOUS
  <1> DEFINE c == acceptor.conn
  <1>1. c \in Conns
    BY DEF AcceptorSends, PoolInv, Typed, ThreadType
  <1>2. UNCHANGED <<kind, unread, worker, overflow>>
    BY DEF AcceptorSends, poolVars
  <1>3. CASE line' = Append(line, c) /\ acceptor' = At("accept", Nobody)
    <2>1. /\ ToSet(line') = ToSet(line) \cup {c} /\ acceptor'.conn = Nobody
          /\ \A p, q : InLine(line', p, q) <=> InLine(line, p, q) \/ (p \in ToSet(line) /\ q = c)
      BY <1>1, <1>3, AppendedLine DEF At, PoolInv, Typed, PoolType
    <2>2. \A d \in Conns : Waits(d)' <=> Waits(d)
      BY <1>2, <2>1, PoolAssumption DEF Waits
    <2>3. \A d, e \in Conns : Ahead(d, e)' <=> Ahead(d, e)
      BY <1>2, <2>1, PoolAssumption DEF Ahead
    <2> QED  BY <1>2, <2>2, <2>3, PlacesKept DEF AtWorker
  <1>4. CASE line' = line /\ acceptor' = At("drop", c)
    <2>1. \A d, e \in Conns : (Waits(d)' <=> Waits(d)) /\ (Ahead(d, e)' <=> Ahead(d, e))
      BY <1>2, <1>4 DEF Waits, Ahead, At
    <2> QED  BY <1>2, <2>1, PlacesKept DEF AtWorker
  <1> QED  BY <1>3, <1>4 DEF AcceptorSends

LEMMA AcceptorDropsMove == PoolInv /\ AcceptorDrops => [Presses!PressesNext]_(Presses!pressVars)
  <1> SUFFICES ASSUME PoolInv, AcceptorDrops
               PROVE  [Presses!PressesNext]_(Presses!pressVars)
    OBVIOUS
  <1> DEFINE p == acceptor.conn
  <1>1. /\ p \in Conns /\ ~AtWorker(p)
        /\ p \notin ToSet(unread) \cup ToSet(line) \cup {overflow.conn}
    BY DEF AcceptorDrops, PoolInv, Typed, Placed, ThreadType, Apart
  <1>2. /\ UNCHANGED <<unread, line, worker, overflow>> /\ acceptor'.conn = Nobody
        /\ \A c \in Conns : c # p => kind'[c] = kind[c]
    BY DEF AcceptorDrops, Gone, At, poolVars, PoolInv, Typed, PoolType
  <1>3. \A c \in Conns : Waits(c)' <=> Waits(c) /\ c # p
    BY <1>1, <1>2, PoolAssumption DEF Waits
  <1>4. \A c, d \in Conns : c # p /\ d # p => (Ahead(c, d)' <=> Ahead(c, d))
    BY <1>2, PoolAssumption DEF Ahead
  <1> QED  BY <1>1, <1>2, <1>3, <1>4, LeftUnbegun

LEMMA OverflowReceivesMove == PoolInv /\ OverflowReceives => UNCHANGED Presses!pressVars
  <1> SUFFICES ASSUME PoolInv, OverflowReceives PROVE UNCHANGED Presses!pressVars
    OBVIOUS
  <1> DEFINE c == Head(line)
  <1>1. /\ UNCHANGED <<kind, unread, worker, acceptor>>
        /\ overflow'.conn = c /\ overflow.conn = Nobody /\ line' = Tail(line)
    BY DEF OverflowReceives, At, poolVars, PoolInv, Typed, ThreadType
  <1>2. /\ c \in Conns /\ ToSet(line) = ToSet(line') \cup {c}
        /\ \A p, q : InLine(line, p, q) <=> InLine(line', p, q) \/ (p = c /\ q \in ToSet(line'))
    BY <1>1, TakenLine DEF OverflowReceives, PoolInv, Typed, PoolType
  <1>3. \A d \in Conns : Waits(d)' <=> Waits(d)
    BY <1>1, <1>2, PoolAssumption DEF Waits
  <1>4. \A d, e \in Conns : Ahead(d, e)' <=> Ahead(d, e)
    BY <1>1, <1>2, PoolAssumption DEF Ahead
  <1> QED  BY <1>1, <1>3, <1>4, PlacesKept DEF AtWorker

LEMMA OverflowQueuesMove ==
  ASSUME PoolInv, overflow.at \in {"offer", "press"}, Queue(overflow.conn),
         overflow' = At("leave", Nobody), UNCHANGED <<kind, worker, acceptor, line, waiting>>
  PROVE  UNCHANGED Presses!pressVars
  <1> DEFINE c == overflow.conn
  <1>1. c \in Conns /\ c \notin ToSet(unread) /\ overflow'.conn = Nobody
    BY DEF PoolInv, Typed, Placed, ThreadType, Apart, At
  <1>2. /\ ToSet(unread') = ToSet(unread) \cup {c}
        /\ \A p, q : InLine(unread', p, q) <=> InLine(unread, p, q) \/ (p \in ToSet(unread) /\ q = c)
    BY <1>1, Queued
  <1>3. \A d \in Conns : Waits(d)' <=> Waits(d)
    BY <1>1, <1>2, PoolAssumption DEF Waits
  <1>4. \A d, e \in Conns : Ahead(d, e)' <=> Ahead(d, e)
    BY <1>1, <1>2, PoolAssumption DEF Ahead
  <1> QED  BY <1>3, <1>4, PlacesKept DEF AtWorker

LEMMA OverflowsMove ==
  ASSUME NEW to, Overflows(to), UNCHANGED <<kind, poolVars, worker, acceptor, line, waiting>>
  PROVE  UNCHANGED Presses!pressVars
  <1>1. \A d, e \in Conns : (Waits(d)' <=> Waits(d)) /\ (Ahead(d, e)' <=> Ahead(d, e))
    BY DEF Waits, Ahead, Overflows, At, poolVars
  <1> QED  BY <1>1, PlacesKept DEF AtWorker

LEMMA OverflowRefusesMove == PoolInv /\ OverflowRefuses => [Presses!PressesNext]_(Presses!pressVars)
  <1> SUFFICES ASSUME PoolInv, OverflowRefuses
               PROVE  [Presses!PressesNext]_(Presses!pressVars)
    OBVIOUS
  <1> DEFINE p == overflow.conn
  <1>1. /\ p \in Conns /\ ~AtWorker(p)
        /\ p \notin ToSet(unread) \cup ToSet(line) \cup {acceptor.conn}
    BY DEF OverflowRefuses, PoolInv, Typed, Placed, ThreadType, Apart
  <1>2. /\ UNCHANGED <<unread, line, worker, acceptor>> /\ overflow'.conn = Nobody
        /\ \A c \in Conns : c # p => kind'[c] = kind[c]
    BY DEF OverflowRefuses, Gone, At, poolVars, PoolInv, Typed, PoolType
  <1>3. \A c \in Conns : Waits(c)' <=> Waits(c) /\ c # p
    BY <1>1, <1>2, PoolAssumption DEF Waits
  <1>4. \A c, d \in Conns : c # p /\ d # p => (Ahead(c, d)' <=> Ahead(c, d))
    BY <1>2, PoolAssumption DEF Ahead
  <1> QED  BY <1>1, <1>2, <1>3, <1>4, LeftUnbegun

LEMMA TakesUnreadMove ==
  ASSUME PoolInv, NEW w \in Workers, worker[w].at = "free", TakesUnread(w)
  PROVE  [Presses!PressesNext]_(Presses!pressVars)
  <1> DEFINE p == Head(unread)
  <1>1. /\ UNCHANGED <<kind, acceptor, line, overflow>> /\ unread' = Tail(unread)
        /\ worker' = [worker EXCEPT ![w] = At("read", p)]
    BY DEF TakesUnread
  <1>2. /\ p \in Conns
        /\ ToSet(unread) = ToSet(unread') \cup {p} /\ p \notin ToSet(unread')
        /\ \A c, d : InLine(unread, c, d) <=> InLine(unread', c, d) \/ (c = p /\ d \in ToSet(unread'))
    BY <1>1, TakenLine DEF TakesUnread, PoolInv, Typed, PoolType, Placed, Apart
  <1>3. p \notin ToSet(line) \cup {overflow.conn, acceptor.conn} /\ p # Nobody
    BY <1>2, PoolAssumption DEF PoolInv, Placed, Apart
  <1> HIDE DEF p
  <1>4. \A c \in Conns : Waits(c)' <=> Waits(c) /\ c # p
    BY <1>1, <1>2, <1>3 DEF Waits
  <1>5. \A c, d \in Conns : c # p /\ d # p => (Ahead(c, d)' <=> Ahead(c, d))
    BY <1>1, <1>2 DEF Ahead
  <1>6. \A c \in Conns : ~Ahead(c, p)
    BY <1>2, <1>3, LineMembers DEF Ahead
  <1>7. \A c \in Conns : AtWorker(c)' <=> AtWorker(c) \/ c = p
    <2>1. \A v \in Workers : worker'[v].conn = IF v = w THEN p ELSE worker[v].conn
      BY <1>1 DEF At, PoolInv, Typed, WorkerType
    <2>2. worker[w].conn = Nobody
      BY DEF PoolInv, Typed, WorkerType
    <2> QED  BY <2>1, <2>2, PoolAssumption DEF AtWorker
  <1>8. Waits(p)
    BY <1>2 DEF Waits
  <1>9. CASE IsPress(p)
    <2>1. p \in ComingPresses /\ Presses!Leaves(p)
      BY <1>1, <1>2, <1>4, <1>5, <1>8, <1>9, LineLeft DEF ComingPresses
    <2>2. \A q \in ComingPresses : <<q, p>> \notin PressOrder
      BY <1>6 DEF PressOrder, ComingPresses
    <2>3. BegunPresses' = BegunPresses \cup {p}
      BY <1>1, <1>2, <1>7, <1>9 DEF BegunPresses, IsPress, AtWorker
    <2>4. Presses!Begin(p)
      BY <2>1, <2>2, <2>3, Zenon DEF Presses!Begin
    <2> QED  BY <1>2, <2>4 DEF Presses!PressesNext
  <1>10. CASE ~IsPress(p)
    <2>1. UNCHANGED <<ComingPresses, PressOrder>>
      BY <1>1, <1>2, <1>4, <1>5, <1>10, LineLeft DEF ComingPresses
    <2>2. BegunPresses' = BegunPresses
      BY <1>1, <1>7, <1>10 DEF BegunPresses, IsPress, AtWorker
    <2> QED  BY <2>1, <2>2 DEF Presses!pressVars
  <1> QED  BY <1>9, <1>10

(* A parked read is no press: neither its taking nor its parking moves one. *)
LEMMA TakesParkedMove ==
  ASSUME PoolInv, NEW w \in Workers, worker[w].at = "free", TakesParked(w)
  PROVE  UNCHANGED Presses!pressVars
  <1> DEFINE p == Head(parked)
  <1>1. /\ UNCHANGED <<kind, unread, acceptor, line, overflow>>
        /\ worker' = [worker EXCEPT ![w] = At("answer", p)]
    BY DEF TakesParked
  <1>2. p \in Conns /\ kind[p] = "display"
    BY TakenLine DEF TakesParked, PoolInv, Typed, PoolType, Placed, Open
  <1> HIDE DEF p
  <1>3. /\ ComingPresses' = ComingPresses
        /\ PressOrder' = PressOrder
    BY <1>1 DEF ComingPresses, PressOrder, IsPress, Waits, Ahead
  <1>4. BegunPresses' = BegunPresses
    <2>1. \A v \in Workers : worker'[v].conn = IF v = w THEN p ELSE worker[v].conn
      BY <1>1 DEF At, PoolInv, Typed, WorkerType
    <2>2. worker[w].conn = Nobody
      BY DEF PoolInv, Typed, WorkerType
    <2>3. \A c \in Conns : IsPress(c) => (AtWorker(c)' <=> AtWorker(c))
      BY <1>2, <2>1, <2>2, PoolAssumption DEF AtWorker, IsPress
    <2> QED  BY <1>1, <2>3 DEF BegunPresses, IsPress, AtWorker
  <1> QED  BY <1>3, <1>4 DEF Presses!pressVars

LEMMA WorkerParksMove ==
  ASSUME PoolInv, NEW w \in Workers, WorkerParks(w)
  PROVE  UNCHANGED Presses!pressVars
  <1> DEFINE p == worker[w].conn
  <1>1. /\ UNCHANGED <<kind, unread, acceptor, line, overflow>>
        /\ worker' = [worker EXCEPT ![w] = At("free", Nobody)]
        /\ kind[p] = "display"
    BY DEF WorkerParks, PoolInv, Placed, Open
  <1>2. /\ ComingPresses' = ComingPresses
        /\ PressOrder' = PressOrder
    BY <1>1 DEF ComingPresses, PressOrder, IsPress, Waits, Ahead
  <1>3. BegunPresses' = BegunPresses
    <2>1. \A v \in Workers : worker'[v].conn = IF v = w THEN Nobody ELSE worker[v].conn
      BY <1>1 DEF At, PoolInv, Typed, WorkerType
    <2>2. \A c \in Conns : IsPress(c) => (AtWorker(c)' <=> AtWorker(c))
      BY <1>1, <2>1, PoolAssumption DEF AtWorker, IsPress
    <2> QED  BY <1>1, <2>2 DEF BegunPresses, IsPress, AtWorker
  <1> QED  BY <1>2, <1>3 DEF Presses!pressVars

LEMMA WorkerReadsMove ==
  ASSUME PoolInv, NEW w \in Workers, WorkerReads(w)
  PROVE  UNCHANGED Presses!pressVars
  <1>1. /\ UNCHANGED <<kind, unread, acceptor, line, overflow>>
        /\ \A v \in Workers : worker'[v].conn = worker[v].conn
    BY DEF WorkerReads, poolVars, PoolInv, Typed, WorkerType
  <1> QED  BY <1>1, PlacesKept DEF AtWorker, Waits, Ahead

LEMMA WorkerEndsMove ==
  ASSUME PoolInv, NEW w \in Workers, WorkerEnds(w)
  PROVE  [Presses!PressesNext]_(Presses!pressVars)
  <1> DEFINE p == worker[w].conn
  <1>1. /\ UNCHANGED <<unread, acceptor, line, overflow>>
        /\ worker' = [worker EXCEPT ![w] = At("free", Nobody)]
        /\ p \in Conns
        /\ kind'[p] = Nobody /\ \A c \in Conns : c # p => kind'[c] = kind[c]
    BY DEF WorkerEnds, Gone, poolVars, PoolInv, Typed, PoolType, WorkerType
  <1>2. ~Waits(p)
    BY <1>1 DEF PoolInv, Placed, Apart, AtWorker, Waits
  <1>3. /\ ComingPresses' = ComingPresses
        /\ PressOrder' = PressOrder
    <2>1. ComingPresses' = ComingPresses
      BY <1>1, <1>2 DEF ComingPresses, IsPress, Waits
    <2> QED  BY <1>1, <2>1 DEF PressOrder, Ahead
  <1>4. BegunPresses' = BegunPresses \ {p}
    <2>1. \A v \in Workers : worker'[v].conn = IF v = w THEN Nobody ELSE worker[v].conn
      BY <1>1 DEF At, PoolInv, Typed, WorkerType
    <2>2. \A c \in Conns : c # p => (AtWorker(c)' <=> AtWorker(c))
      BY <2>1, PoolAssumption DEF AtWorker
    <2>3. kind'[p] # "press"
      BY <1>1, PoolAssumption
    <2> HIDE DEF p
    <2> QED  BY <1>1, <2>2, <2>3 DEF BegunPresses, IsPress, AtWorker
  <1>5. CASE p \in BegunPresses
    BY <1>1, <1>3, <1>4, <1>5, Zenon DEF Presses!Done, Presses!PressesNext
  <1>6. CASE p \notin BegunPresses
    BY <1>3, <1>4, <1>6 DEF Presses!pressVars
  <1> QED  BY <1>5, <1>6

LEMMA StepMoves == PoolInv /\ [Next]_vars => [Presses!PressesNext]_(Presses!pressVars)
  <1> SUFFICES ASSUME PoolInv, [Next]_vars
               PROVE  [Presses!PressesNext]_(Presses!pressVars)
    OBVIOUS
  <1>1. CASE Acceptor
    <2>1. CASE AcceptorLooks \/ AcceptorCounts
      <3>1. /\ UNCHANGED <<kind, unread, worker, line, overflow>> /\ acceptor'.conn = acceptor.conn
        BY <2>1 DEF AcceptorLooks, AcceptorCounts, poolVars, At
      <3> QED  BY <3>1, PlacesKept DEF AtWorker, Waits, Ahead
    <2> QED  BY <1>1, <2>1, AcceptorOffersMove, AcceptorSendsMove, AcceptorDropsMove DEF Acceptor
  <1>2. CASE Overflow
    <2>1. CASE OverflowLeaves
      <3>1. UNCHANGED <<kind, unread, worker, line, acceptor>> /\ overflow'.conn = overflow.conn
        BY <2>1 DEF OverflowLeaves, poolVars, At, PoolInv, Typed, ThreadType
      <3> QED  BY <3>1, PlacesKept DEF AtWorker, Waits, Ahead
    <2>2. CASE OverflowOffers \/ OverflowPeeks \/ OverflowOffersPress
      BY <2>2, OverflowQueuesMove, OverflowsMove
      DEF OverflowOffers, OverflowPeeks, OverflowOffersPress
    <2> QED  BY <1>2, <2>1, <2>2, OverflowReceivesMove, OverflowRefusesMove DEF Overflow
  <1>3. ASSUME NEW w \in Workers, Worker(w)
        PROVE  [Presses!PressesNext]_(Presses!pressVars)
    <2>1. CASE Sleeps(w)
      BY <2>1, PlacesKept DEF Sleeps, AtWorker, Waits, Ahead
    <2>2. CASE WorkerLooks(w)
      BY <2>1, <2>2, WorkerLooksWays, TakesUnreadMove, TakesParkedMove
    <2> QED  BY <1>3, <2>2, WorkerReadsMove, WorkerParksMove, WorkerEndsMove DEF Worker
  <1>4. CASE ParkedReadAges \/ UNCHANGED vars
    BY <1>4, PlacesKept DEF ParkedReadAges, vars, poolVars, AtWorker, Waits, Ahead
  <1> QED  BY <1>1, <1>2, <1>3, <1>4, AcceptsCome DEF Next

(* Whatever lines and threads the presses pass through (the acceptor, the   *)
(* overflow thread and the workers of control_surface_http.rs), they are    *)
(* begun in the order they came, and who is turned away leaves the others   *)
(* in theirs: the pool implements PressLine.                               *)
THEOREM PressesInOrder == Spec => InOrder
  <1>1. Init => Presses!PressesInit
    <2> SUFFICES ASSUME Init PROVE Presses!PressesInit
      OBVIOUS
    <2>1. ComingPresses = {} /\ BegunPresses = {}
      BY NoLine, PoolAssumption DEF Init, At, ComingPresses, BegunPresses, Waits, IsPress
    <2>2. PressOrder = {}
      BY <2>1 DEF PressOrder
    <2> QED  BY <2>1, <2>2 DEF Presses!PressesInit
  <1>2. PoolInv /\ [Next]_vars => [Presses!PressesNext]_(Presses!pressVars)
    BY StepMoves
  <1> QED  BY <1>1, <1>2, AlwaysPlaced, PTL DEF Spec, InOrder, Presses!PressesSpec

-----------------------------------------------------------------------------
(* Displays crowd no press out.  Who is no press and waits in the queue, or  *)
(* is read by a worker that may park it, took a place of Capacity while     *)
(* there was one; at that time, no more than the workers were on top.       *)
Others ==
    {c \in Conns : /\ kind[c] \notin Posts
                   /\ \/ c \in ToSet(unread) \cup ToSet(parked)
                      \/ \E w \in Workers : worker[w].at \in {"read", "park"} /\ worker[w].conn = c}

Uncrowded == IsFiniteSet(Others) /\ Cardinality(Others) <= Capacity + Cardinality(Workers)

LEMMA LineCounts ==
  ASSUME NEW s \in Seq(Conns), Distinct(s), NEW I \in SUBSET (1..Len(s))
  PROVE  /\ IsFiniteSet(I) /\ IsFiniteSet({s[i] : i \in I})
         /\ Cardinality({s[i] : i \in I}) = Cardinality(I)
         /\ Cardinality(I) \in Nat /\ Cardinality(1..Len(s)) = Len(s)
  <1> DEFINE f == [i \in I |-> s[i]]
             J == {s[i] : i \in I}
  <1>1. Len(s) \in Nat /\ DOMAIN s = 1..Len(s)
    BY LenProperties
  <1>2. IsFiniteSet(1..Len(s)) /\ Cardinality(1..Len(s)) = Len(s)
    <2>1. 1 \in Int /\ Len(s) \in Int
      BY <1>1
    <2>2. /\ IsFiniteSet(1..Len(s))
          /\ Cardinality(1..Len(s)) = IF 1 > Len(s) THEN 0 ELSE Len(s) - 1 + 1
      BY <2>1, FS_Interval
    <2> QED  BY <1>1, <2>2
  <1>3. IsFiniteSet(I) /\ Cardinality(I) \in Nat
    BY <1>2, FS_Subset, FS_CardinalityType
  <1>4. f \in Bijection(I, J)
    <2>1. f \in [I -> J]
      OBVIOUS
    <2>2. \A i, j \in I : f[i] = f[j] => i = j
      BY <1>1 DEF Distinct
    <2>3. \A c \in J : \E i \in I : f[i] = c
      OBVIOUS
    <2> QED  BY <2>1, <2>2, <2>3 DEF Bijection, Injection, IsInjective, Surjection
  <1>5. IsFiniteSet(J) /\ Cardinality(J) = Cardinality(I)
    BY <1>3, <1>4, FS_Bijection DEF ExistsBijection
  <1> QED  BY <1>2, <1>3, <1>5

LEMMA WholeLineCounts ==
  ASSUME NEW s \in Seq(Conns), Distinct(s)
  PROVE  IsFiniteSet(ToSet(s)) /\ Cardinality(ToSet(s)) = Len(s) /\ Len(s) \in Nat
  <1>1. DOMAIN s = 1..Len(s) /\ Len(s) \in Nat
    BY LenProperties
  <1>2. ToSet(s) = {s[i] : i \in 1..Len(s)}
    BY <1>1 DEF ToSet
  <1> QED  BY <1>1, <1>2, LineCounts

LEMMA TwoSets ==
  ASSUME NEW A, NEW B, IsFiniteSet(A), IsFiniteSet(B)
  PROVE  /\ IsFiniteSet(A \cup B) /\ Cardinality(A) \in Nat /\ Cardinality(B) \in Nat
         /\ Cardinality(A \cup B) \in Nat
         /\ Cardinality(A \cup B) <= Cardinality(A) + Cardinality(B)
         /\ A \cap B = {} => Cardinality(A \cup B) = Cardinality(A) + Cardinality(B)
  <1>1. /\ IsFiniteSet(A \cup B)
        /\ Cardinality(A \cup B) = Cardinality(A) + Cardinality(B) - Cardinality(A \cap B)
    BY FS_Union
  <1>2. IsFiniteSet(A \cap B)
    BY FS_Subset
  <1>3. /\ Cardinality(A) \in Nat /\ Cardinality(B) \in Nat
        /\ Cardinality(A \cap B) \in Nat /\ Cardinality(A \cup B) \in Nat
    BY <1>1, <1>2, FS_CardinalityType
  <1>4. A \cap B = {} => Cardinality(A \cap B) = 0
    BY FS_EmptySet
  <1> QED  BY <1>1, <1>3, <1>4

(* Three places hold no more than they have room for.                      *)
LEMMA QueuedAndWorked == PoolInv /\ Depth <= Capacity => Uncrowded
  <1> SUFFICES ASSUME PoolInv, Depth <= Capacity PROVE Uncrowded
    OBVIOUS
  <1> DEFINE U == ToSet(unread)
             P == ToSet(parked)
             f == [w \in Workers |-> worker[w].conn]
             W == {f[w] : w \in Workers}
  <1>1. /\ IsFiniteSet(U) /\ Cardinality(U) = Len(unread) /\ Len(unread) \in Nat
        /\ IsFiniteSet(P) /\ Cardinality(P) = Len(parked) /\ Len(parked) \in Nat
    BY WholeLineCounts DEF PoolInv, Typed, Placed, PoolType, Apart
  <1>2. IsFiniteSet(W) /\ Cardinality(W) <= Cardinality(Workers)
    <2>1. f \in Surjection(Workers, W)
      BY DEF Surjection
    <2> QED  BY <2>1, PoolAssumption, FS_Surjection
  <1>3. Others \subseteq (U \cup P) \cup W
    BY DEF Others
  <1> HIDE DEF U, P, W
  <1>4. /\ IsFiniteSet(U \cup P)
        /\ Cardinality(U \cup P) <= Len(unread) + Len(parked) /\ Cardinality(U \cup P) \in Nat
    BY <1>1, TwoSets
  <1>5. /\ IsFiniteSet((U \cup P) \cup W)
        /\ Cardinality((U \cup P) \cup W) <= Cardinality(U \cup P) + Cardinality(W)
        /\ Cardinality((U \cup P) \cup W) \in Nat /\ Cardinality(W) \in Nat
    BY <1>2, <1>4, TwoSets
  <1>6. IsFiniteSet(Others) /\ Cardinality(Others) <= Cardinality((U \cup P) \cup W)
    BY <1>3, <1>5, FS_Subset
  <1>7. Cardinality(Others) \in Nat /\ Cardinality(Workers) \in Nat
    BY <1>6, PoolAssumption, FS_CardinalityType
  <1>8. Len(unread) + Len(parked) <= Capacity
    BY DEF Depth
  <1> QED  BY <1>1, <1>2, <1>4, <1>5, <1>6, <1>7, <1>8, PoolAssumption DEF Uncrowded

LEMMA QueuedAndWorkedNext == PoolInv' /\ (Depth <= Capacity)' => Uncrowded'
  BY QueuedAndWorked, PTL

LEMMA FewerOthers ==
  ASSUME Uncrowded, Others' \subseteq Others
  PROVE  Uncrowded'
  <1>1. IsFiniteSet(Others') /\ Cardinality(Others') <= Cardinality(Others)
    BY FS_Subset DEF Uncrowded
  <1>2. Cardinality(Others') \in Nat /\ Cardinality(Others) \in Nat /\ Cardinality(Workers) \in Nat
    BY <1>1, PoolAssumption, FS_CardinalityType DEF Uncrowded
  <1> QED  BY <1>1, <1>2, PoolAssumption DEF Uncrowded

(* The queue takes one that found room, or a press.                        *)
LEMMA QueueUncrowded ==
  ASSUME PoolInv, PoolInv', Uncrowded, NEW c \in Conns, c \notin ToSet(unread),
         Queue(c), UNCHANGED <<kind, worker>>, HasRoom \/ kind[c] \in Posts
  PROVE  Uncrowded'
  <1>1. CASE HasRoom
    <2>1. Len(unread') = Len(unread) + 1 /\ parked' = parked
      BY Queued DEF Queue
    <2>2. Len(unread) \in Nat /\ Len(parked) \in Nat
      BY LenProperties DEF PoolInv, Typed, PoolType
    <2>3. (Depth <= Capacity)'
      BY <1>1, <2>1, <2>2, PoolAssumption DEF HasRoom, Depth
    <2> QED  BY <2>3, QueuedAndWorkedNext
  <1>2. CASE kind[c] \in Posts
    <2>1. ToSet(unread') = ToSet(unread) \cup {c} /\ parked' = parked
      BY Queued DEF Queue
    <2>2. Others' \subseteq Others
      BY <1>2, <2>1 DEF Others
    <2> QED  BY <2>2, FewerOthers
  <1> QED  BY <1>1, <1>2

LEMMA WorkersUncrowded ==
  ASSUME PoolInv, PoolInv', Uncrowded, NEW w \in Workers, Worker(w)
  PROVE  Uncrowded'
  <1>1. \A d \in Conns : kind'[d] = kind[d] \/ ~(Waits(d) \/ AtWorker(d) \/ d \in ToSet(parked))'
    <2>1. CASE WorkerEnds(w)
      <3>1. /\ kind' = [kind EXCEPT ![worker[w].conn] = Nobody]
            /\ \A v \in Workers : worker'[v] = IF v = w THEN At("free", Nobody) ELSE worker[v]
            /\ worker[w].conn \in Conns
            /\ UNCHANGED <<poolVars, acceptor, line, overflow>>
        BY <2>1 DEF WorkerEnds, Gone, PoolInv, Typed, WorkerType
      <3>2. \A d \in Conns : d # worker[w].conn => kind'[d] = kind[d]
        BY <3>1 DEF PoolInv, Typed, PoolType
      <3>4. \A d \in Conns : d = worker[w].conn => ~AtWorker(d)'
        BY <3>1, PoolAssumption DEF AtWorker, At, PoolInv, Placed, Apart
      <3>5. \A d \in Conns : d = worker[w].conn => ~(Waits(d) \/ d \in ToSet(parked))'
        BY <3>1 DEF AtWorker, Waits, poolVars, PoolInv, Placed, Apart
      <3> QED  BY <3>2, <3>4, <3>5
    <2>2. CASE WorkerLooks(w) \/ WorkerReads(w) \/ WorkerParks(w)
      BY <2>2 DEF WorkerLooks, WorkerReads, WorkerParks
    <2> QED  BY <2>1, <2>2 DEF Worker
  <1>2. Others' \subseteq Others
    <2>1. CASE WorkerEnds(w)
      <3>1. /\ UNCHANGED <<unread, parked>>
            /\ \A v \in Workers : worker'[v] = IF v = w THEN At("free", Nobody) ELSE worker[v]
        BY <2>1 DEF WorkerEnds, poolVars, PoolInv, Typed, WorkerType
      <3> QED  BY <1>1, <3>1 DEF Others, Waits, AtWorker, At
    <2>2. CASE TakesUnread(w)
      <3>1. /\ UNCHANGED <<kind, parked>>
            /\ \A v \in Workers : worker'[v] = IF v = w THEN At("read", Head(unread)) ELSE worker[v]
            /\ ToSet(unread) = ToSet(unread') \cup {Head(unread)}
        BY <2>2, TakenLine DEF TakesUnread, PoolInv, Typed, WorkerType, PoolType
      <3> QED  BY <3>1 DEF Others, At
    <2>3. CASE TakesParked(w)
      <3>1. /\ UNCHANGED <<kind, unread>>
            /\ \A v \in Workers : worker'[v] = IF v = w THEN At("answer", Head(parked)) ELSE worker[v]
            /\ ToSet(parked) = ToSet(parked') \cup {Head(parked)}
        BY <2>3, TakenLine DEF TakesParked, PoolInv, Typed, WorkerType, PoolType
      <3> QED  BY <3>1 DEF Others, At
    <2>4. CASE Sleeps(w)
      BY <2>4 DEF Sleeps, Others
    <2>5. CASE WorkerReads(w)
      <3>1. /\ UNCHANGED <<kind, unread, parked>> /\ worker[w].at = "read"
            /\ \A v \in Workers : worker'[v].conn = worker[v].conn
                                  /\ (v # w => worker'[v].at = worker[v].at)
        BY <2>5 DEF WorkerReads, poolVars, PoolInv, Typed, WorkerType
      <3> QED  BY <3>1 DEF Others
    <2>6. CASE WorkerParks(w)
      <3>1. /\ UNCHANGED <<kind, unread>> /\ worker[w].at = "park"
            /\ \A v \in Workers : worker'[v] = IF v = w THEN At("free", Nobody) ELSE worker[v]
            /\ parked' = Append(parked, worker[w].conn) /\ worker[w].conn \in Conns
        BY <2>6 DEF WorkerParks, PoolInv, Typed, WorkerType
      <3>2. ToSet(parked') = ToSet(parked) \cup {worker[w].conn}
        BY <3>1, AppendedLine DEF PoolInv, Typed, PoolType
      <3> QED  BY <3>1, <3>2 DEF Others, At
    <2> QED  BY <2>1, <2>2, <2>3, <2>4, <2>5, <2>6, WorkerLooksWays DEF Worker
  <1> QED  BY <1>2, FewerOthers

LEMMA StepUncrowded == PoolInv /\ PoolInv' /\ Uncrowded /\ [Next]_vars => Uncrowded'
  <1> SUFFICES ASSUME PoolInv, PoolInv', Uncrowded, [Next]_vars PROVE Uncrowded'
    OBVIOUS
  <1>1. ASSUME UNCHANGED <<unread, parked, worker>>,
               \A d \in Conns : kind'[d] # kind[d] =>
                   d \notin ToSet(unread) \cup ToSet(parked) /\ ~AtWorker(d)
        PROVE  Uncrowded'
    <2>1. Others' \subseteq Others
      BY <1>1 DEF Others, AtWorker
    <2> QED  BY <2>1, FewerOthers
  <1>2. ASSUME NEW c \in Conns, NEW k \in Kinds, Accepts(c, k)
        PROVE  Uncrowded'
    <2>1. ~Waits(c) /\ ~AtWorker(c) /\ c \notin ToSet(parked)
      BY <1>2, PoolAssumption DEF Accepts, PoolInv, Placed, Open
    <2>2. /\ UNCHANGED <<unread, parked, worker>>
          /\ \A d \in Conns : d # c => kind'[d] = kind[d]
      BY <1>2 DEF Accepts, poolVars, PoolInv, Typed, PoolType
    <2> QED  BY <1>1, <2>1, <2>2 DEF Waits
  <1>3. CASE Acceptor
    <2>1. CASE AcceptorDrops
      <3>1. /\ UNCHANGED <<unread, parked, worker>> /\ acceptor.conn \in Conns
            /\ \A d \in Conns : d # acceptor.conn => kind'[d] = kind[d]
        BY <2>1 DEF AcceptorDrops, Gone, poolVars, PoolInv, Typed, PoolType, ThreadType
      <3> QED  BY <1>1, <3>1 DEF PoolInv, Placed, Apart
    <2>2. CASE AcceptorOffers
      <3>1. acceptor.conn \in Conns /\ acceptor.conn \notin ToSet(unread)
        BY <2>2 DEF AcceptorOffers, PoolInv, Typed, ThreadType, Placed, Apart
      <3> QED  BY <1>1, <2>2, <3>1, QueueUncrowded DEF AcceptorOffers, poolVars
    <2> QED  BY <1>1, <1>3, <2>1, <2>2 DEF Acceptor, AcceptorLooks, AcceptorCounts, AcceptorSends, poolVars
  <1>4. CASE Overflow
    <2>1. CASE OverflowRefuses
      <3>1. /\ UNCHANGED <<unread, parked, worker>> /\ overflow.conn \in Conns
            /\ \A d \in Conns : d # overflow.conn => kind'[d] = kind[d]
        BY <2>1 DEF OverflowRefuses, Gone, poolVars, PoolInv, Typed, PoolType, ThreadType
      <3> QED  BY <1>1, <3>1 DEF PoolInv, Placed, Apart
    <2>2. CASE OverflowOffers \/ OverflowOffersPress
      <3>1. overflow.conn \in Conns /\ overflow.conn \notin ToSet(unread)
        BY <2>2 DEF OverflowOffers, OverflowOffersPress, PoolInv, Typed, ThreadType, Placed, Apart
      <3>2. OverflowOffersPress => kind[overflow.conn] \in Posts
        BY DEF OverflowOffersPress, PoolInv, Placed, Open
      <3> QED  BY <1>1, <2>2, <3>1, <3>2, QueueUncrowded
               DEF OverflowOffers, OverflowOffersPress, poolVars
    <2> QED  BY <1>1, <1>4, <2>1, <2>2 DEF Overflow, OverflowReceives, OverflowPeeks, OverflowLeaves, poolVars
  <1>5. CASE ParkedReadAges \/ UNCHANGED vars
    BY <1>1, <1>5 DEF ParkedReadAges, vars, poolVars
  <1> QED  BY <1>2, <1>3, <1>4, <1>5, WorkersUncrowded DEF Next

(* Who waits in the queue is a post of the unread line, or one of Others.   *)
LEMMA QueueIsPostsAndOthers ==
  ASSUME PoolInv, Uncrowded
  PROVE  /\ Cardinality(UnreadPosts) \in Nat
         /\ Depth <= Cardinality(UnreadPosts) + Cardinality(Others)
  <1> DEFINE I == UnreadPosts
             J == (1..Len(unread)) \ I
             U == {unread[i] : i \in J}
             P == ToSet(parked)
  <1>1. /\ unread \in Seq(Conns) /\ Distinct(unread) /\ parked \in Seq(Conns) /\ Distinct(parked)
    BY DEF PoolInv, Typed, PoolType, Placed, Apart
  <1>2. I \in SUBSET (1..Len(unread)) /\ J \in SUBSET (1..Len(unread))
    BY DEF UnreadPosts
  <1>3. DOMAIN unread = 1..Len(unread) /\ Len(unread) \in Nat
    BY <1>1, LenProperties
  <1>4. \A i \in J : unread[i] \in Conns /\ unread[i] \in ToSet(unread) /\ kind[unread[i]] \notin Posts
    BY <1>1, <1>2, <1>3 DEF ToSet, UnreadPosts
  <1>5. \A c \in P : c \in Conns /\ c \notin ToSet(unread) /\ kind[c] \notin Posts
    <2>1. P \subseteq Conns
      BY <1>1 DEF ToSet
    <2> QED  BY <2>1 DEF PoolInv, Placed, Open, Apart, Posts
  <1>6. U \cup P \subseteq Others /\ U \cap P = {}
    BY <1>4, <1>5 DEF Others
  <1>7. /\ IsFiniteSet(I) /\ Cardinality(I) \in Nat /\ Cardinality(1..Len(unread)) = Len(unread)
    BY <1>1, <1>2, LineCounts
  <1>8. IsFiniteSet(J) /\ IsFiniteSet(U) /\ Cardinality(U) = Cardinality(J)
    BY <1>1, <1>2, LineCounts
  <1>9. IsFiniteSet(P) /\ Cardinality(P) = Len(parked) /\ Len(parked) \in Nat
    BY <1>1, WholeLineCounts
  <1>10. I \cup J = 1..Len(unread) /\ I \cap J = {}
    BY <1>2
  <1> HIDE DEF I, J, U, P
  <1>11. Len(unread) = Cardinality(I) + Cardinality(J) /\ Cardinality(J) \in Nat
    BY <1>7, <1>8, <1>10, TwoSets
  <1>12. Cardinality(U \cup P) = Cardinality(J) + Len(parked) /\ Cardinality(U \cup P) \in Nat
    BY <1>6, <1>8, <1>9, TwoSets
  <1>13. Cardinality(U \cup P) <= Cardinality(Others) /\ Cardinality(Others) \in Nat
    BY <1>6, FS_Subset, FS_CardinalityType DEF Uncrowded
  <1>14. Depth <= Cardinality(I) + Cardinality(Others)
    BY <1>3, <1>7, <1>9, <1>11, <1>12, <1>13 DEF Depth
  <1> QED  BY <1>7, <1>14 DEF I

LEMMA RefusedByPresses ==
  PoolInv /\ Uncrowded /\ [Next]_vars /\ overflow.at = "press" /\ overflow'.at = "refuse"
      => Cardinality(UnreadPosts) + Cardinality(Workers) >= Reserve
  <1> SUFFICES ASSUME PoolInv, Uncrowded, [Next]_vars, overflow.at = "press", overflow'.at = "refuse"
               PROVE  Cardinality(UnreadPosts) + Cardinality(Workers) >= Reserve
    OBVIOUS
  <1>1. overflow' # overflow
    OBVIOUS
  <1>2. OverflowOffersPress
    <2>1. ~(ParkedReadAges \/ UNCHANGED vars \/ Acceptor \/ \E w \in Workers : Worker(w))
      BY <1>1 DEF ParkedReadAges, vars, Acceptor, AcceptorLooks, AcceptorOffers, AcceptorCounts,
         AcceptorSends, AcceptorDrops, Worker, WorkerLooks, WorkerReads, WorkerParks, WorkerEnds
    <2>2. ~(\E c \in Conns, k \in Kinds : Accepts(c, k))
      BY <1>1 DEF Accepts
    <2> QED  BY <2>1, <2>2 DEF Next, Overflow, OverflowReceives, OverflowOffers, OverflowPeeks,
             OverflowRefuses, OverflowLeaves, At
  <1>3. ~HasRoomForPress
    BY <1>2 DEF OverflowOffersPress, At
  <1>4. Len(unread) \in Nat /\ Len(parked) \in Nat
    BY LenProperties DEF PoolInv, Typed, PoolType
  <1>5. Depth >= Capacity + Reserve
    BY <1>3, <1>4, PoolAssumption DEF HasRoomForPress, Depth
  <1>6. Cardinality(UnreadPosts) \in Nat /\ Depth <= Cardinality(UnreadPosts) + Cardinality(Others)
    BY QueueIsPostsAndOthers
  <1>7. /\ Cardinality(Others) \in Nat /\ Cardinality(Workers) \in Nat
        /\ Cardinality(Others) <= Capacity + Cardinality(Workers)
    BY PoolAssumption, FS_CardinalityType DEF Uncrowded
  <1>8. Depth \in Nat
    BY <1>4 DEF Depth
  <1> QED  BY <1>5, <1>6, <1>7, <1>8, PoolAssumption

(* A press whose bytes are there is refused (overflow_one) only when presses *)
(* hold what PRESS_RESERVE keeps for them, less a slot for each worker,      *)
(* which may park a read over the capacity.                                 *)
THEOREM DisplaysCrowdNoPressOut == Spec => RoomForPress
  <1>1. Init => Uncrowded
    <2> SUFFICES ASSUME Init PROVE Uncrowded
      OBVIOUS
    <2>1. Depth <= Capacity
      BY NoLine, PoolAssumption DEF Init, Depth
    <2> QED  BY <2>1, InitPlaced, QueuedAndWorked
  <1>2. PoolInv /\ PoolInv' /\ Uncrowded /\ [Next]_vars => Uncrowded'
    BY StepUncrowded
  <1>3. PoolInv /\ Uncrowded /\ [Next]_vars
            => [overflow.at = "press" /\ overflow'.at = "refuse"
                   => Cardinality(UnreadPosts) + Cardinality(Workers) >= Reserve]_vars
    BY RefusedByPresses
  <1> QED  BY <1>1, <1>2, <1>3, AlwaysPlaced, PTL DEF Spec, RoomForPress

=============================================================================
