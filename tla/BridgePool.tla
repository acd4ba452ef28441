----------------------------- MODULE BridgePool -----------------------------
(***************************************************************************)
(* The Stream Deck bridge's way from a connection to its answer            *)
(* (control_surface_http.rs, control_surface_pool.rs,                      *)
(* control_surface_http/overflow.rs): the acceptor, the bounded queue with *)
(* its unread line and its parked reads, the fixed pool of workers, and    *)
(* the overflow thread with its own line and its count of who waits for it.*)
(*                                                                         *)
(* The acceptor, the overflow thread and every worker run at the same      *)
(* time; each step under the queue's lock is one action, the notify that   *)
(* follows it included.  A connection's name is free again once it is      *)
(* answered, refused or closed, so connections come for ever.              *)
(***************************************************************************)
EXTENDS Naturals, Sequences, SequencesExt, FiniteSets

CONSTANTS
    Conns,          \* names for connections
    Nobody,         \* no connection
    Kinds,          \* the kinds that come, of "press", "post", "display", "get"
    Workers,        \* WORKER_COUNT threads
    Capacity,       \* QUEUE_CAPACITY
    Reserve,        \* PRESS_RESERVE
    OverflowQueue   \* OVERFLOW_QUEUE

(* A press is a POST to one of KEY_ROUTES, "post" one to another route; a  *)
(* "display" is a read of the deck's displays, "get" any other.            *)
Posts == {"press", "post"}

ASSUME PoolAssumption ==
    /\ Nobody \notin Conns \cup {"press", "post", "display", "get"}
    /\ Kinds \subseteq {"press", "post", "display", "get"}
    /\ IsFiniteSet(Workers) /\ Workers # {}
    /\ Capacity \in Nat \ {0} /\ Reserve \in Nat /\ OverflowQueue \in Nat

VARIABLES
    kind,       \* what each connection that is open asks
    unread, parked,     \* Lines
    overdue,    \* how many parked reads, from the oldest, waited parked_at_most
    asleep,     \* the workers that wait on the condvar
    worker,     \* where each worker is, and with which connection
    acceptor,   \* where the acceptor is (accept)
    line,       \* the overflow thread's channel
    waiting,    \* Overflow.waiting
    overflow    \* where the overflow thread is (overflow_one)

poolVars == <<unread, parked, overdue, asleep>>
vars == <<kind, poolVars, worker, acceptor, line, waiting, overflow>>

At(place, c) == [at |-> place, conn |-> c]

-----------------------------------------------------------------------------
(* The queue.                                                              *)

Depth == Len(unread) + Len(parked)

(* notify_one: one sleeping worker, if any, goes on.                       *)
NotifyOne ==
    IF asleep = {} THEN UNCHANGED asleep ELSE \E w \in asleep : asleep' = asleep \ {w}

(* Mutant: nobody is told.                                                 *)
QueueSilently(c) ==
    /\ unread' = Append(unread, c)
    /\ UNCHANGED <<asleep, parked, overdue>>

(* queue, with room: the connection joins the unread line.                 *)
Queue(c) ==
    /\ unread' = Append(unread, c)
    /\ NotifyOne
    /\ UNCHANGED <<parked, overdue>>

HasRoom == Depth < Capacity
HasRoomForPress == Depth < Capacity + Reserve

Gone(c) == kind' = [kind EXCEPT ![c] = Nobody]

-----------------------------------------------------------------------------
(* The acceptor (accept).  A connection came.                              *)
Accepts(c, k) ==
    /\ acceptor.at = "accept" /\ kind[c] = Nobody
    /\ kind' = [kind EXCEPT ![c] = k]
    /\ acceptor' = At("look", c)
    /\ UNCHANGED <<poolVars, worker, line, waiting, overflow>>

(* Mutant: a connection that finds room passes those that wait for the     *)
(* overflow thread.                                                        *)
AcceptorPasses ==
    /\ acceptor.at = "look"
    /\ acceptor' = At("offer", acceptor.conn)
    /\ UNCHANGED <<kind, poolVars, worker, line, waiting, overflow>>

(* While connections wait for the overflow thread it takes them all.       *)
AcceptorLooks ==
    /\ acceptor.at = "look"
    /\ acceptor' = At(IF waiting = 0 THEN "offer" ELSE "count", acceptor.conn)
    /\ UNCHANGED <<kind, poolVars, worker, line, waiting, overflow>>

AcceptorOffers ==
    /\ acceptor.at = "offer"
    /\ \/ HasRoom /\ Queue(acceptor.conn) /\ acceptor' = At("accept", Nobody)
       \/ ~HasRoom /\ acceptor' = At("count", acceptor.conn) /\ UNCHANGED poolVars
    /\ UNCHANGED <<kind, worker, line, waiting, overflow>>

AcceptorCounts ==
    /\ acceptor.at = "count"
    /\ waiting' = waiting + 1
    /\ acceptor' = At("send", acceptor.conn)
    /\ UNCHANGED <<kind, poolVars, worker, line, overflow>>

(* try_send, which a full line or a thread that never started refuses.     *)
AcceptorSends ==
    /\ acceptor.at = "send"
    /\ IF Len(line) < OverflowQueue /\ overflow.at # "gone"
       THEN /\ line' = Append(line, acceptor.conn)
            /\ acceptor' = At("accept", Nobody)
       ELSE acceptor' = At("drop", acceptor.conn) /\ UNCHANGED line
    /\ UNCHANGED <<kind, poolVars, worker, waiting, overflow>>

AcceptorDrops ==
    /\ acceptor.at = "drop"
    /\ Gone(acceptor.conn)
    /\ waiting' = waiting - 1
    /\ acceptor' = At("accept", Nobody)
    /\ UNCHANGED <<poolVars, worker, line, overflow>>

-----------------------------------------------------------------------------
(* The overflow thread (spawn_overflow, overflow_one).                     *)

Overflows(to) == overflow' = At(to, overflow.conn)

OverflowReceives ==
    /\ overflow.at = "receive" /\ line # <<>>
    /\ line' = Tail(line)
    /\ overflow' = At("offer", Head(line))
    /\ UNCHANGED <<kind, poolVars, worker, acceptor, waiting>>

OverflowOffers ==
    /\ overflow.at = "offer"
    /\ \/ HasRoom /\ Queue(overflow.conn) /\ overflow' = At("leave", Nobody)
       \/ ~HasRoom /\ Overflows("peek") /\ UNCHANGED poolVars
    /\ UNCHANGED <<kind, worker, acceptor, line, waiting>>

(* starts_a_press: the first bytes are a POST's, and there in time.        *)
OverflowPeeks ==
    /\ overflow.at = "peek"
    /\ \/ kind[overflow.conn] \in Posts /\ Overflows("press")
       \/ Overflows("refuse")
    /\ UNCHANGED <<kind, poolVars, worker, acceptor, line, waiting>>

(* Mutant: a press has no slot of its own.                                 *)
OverflowOffersPressAsAny ==
    /\ overflow.at = "press"
    /\ \/ HasRoom /\ Queue(overflow.conn) /\ overflow' = At("leave", Nobody)
       \/ ~HasRoom /\ Overflows("refuse") /\ UNCHANGED poolVars
    /\ UNCHANGED <<kind, worker, acceptor, line, waiting>>

OverflowOffersPress ==
    /\ overflow.at = "press"
    /\ \/ HasRoomForPress /\ Queue(overflow.conn) /\ overflow' = At("leave", Nobody)
       \/ ~HasRoomForPress /\ Overflows("refuse") /\ UNCHANGED poolVars
    /\ UNCHANGED <<kind, worker, acceptor, line, waiting>>

(* 503, and the connection is closed; or a panic, which closes it unsaid.  *)
OverflowRefuses ==
    /\ overflow.at \in {"offer", "peek", "press", "refuse"}
    /\ Gone(overflow.conn)
    /\ overflow' = At("leave", Nobody)
    /\ UNCHANGED <<poolVars, worker, acceptor, line, waiting>>

(* Mutant: the one who left is not taken off the count.                    *)
OverflowLeavesUncounted ==
    /\ overflow.at = "leave"
    /\ overflow' = At("receive", Nobody)
    /\ UNCHANGED <<kind, poolVars, worker, acceptor, line, waiting>>

OverflowLeaves ==
    /\ overflow.at = "leave"
    /\ waiting' = waiting - 1
    /\ overflow' = At("receive", Nobody)
    /\ UNCHANGED <<kind, poolVars, worker, acceptor, line>>

-----------------------------------------------------------------------------
(* A worker (serve_queued_connections, serve_next).                        *)

(* Mutant: an unread connection always comes first.                        *)
OverdueNever == FALSE

Overdue == overdue > 0

(* Pool::next: an overdue parked read, then an unread connection, then the *)
(* oldest parked read, or the worker sleeps.                               *)
WorkerLooks(w) ==
    /\ worker[w].at = "free" /\ w \notin asleep
    /\ \/ /\ ~Overdue /\ unread # <<>>
          /\ unread' = Tail(unread)
          /\ worker' = [worker EXCEPT ![w] = At("read", Head(unread))]
          /\ UNCHANGED <<parked, overdue, asleep>>
       \/ /\ Overdue \/ unread = <<>>
          /\ parked # <<>>
          /\ parked' = Tail(parked)
          /\ overdue' = IF overdue = 0 THEN 0 ELSE overdue - 1
          /\ worker' = [worker EXCEPT ![w] = At("answer", Head(parked))]
          /\ UNCHANGED <<unread, asleep>>
       \/ /\ unread = <<>> /\ parked = <<>>
          /\ asleep' = asleep \cup {w}
          /\ UNCHANGED <<unread, parked, overdue, worker>>
    /\ UNCHANGED <<kind, acceptor, line, waiting, overflow>>

(* The request is read within its deadline: a display's read is to be      *)
(* parked.  Anything else, a read that failed included, is answered.       *)
WorkerReads(w) ==
    /\ worker[w].at = "read"
    /\ \/ /\ kind[worker[w].conn] = "display"
          /\ worker' = [worker EXCEPT ![w].at = "park"]
       \/ worker' = [worker EXCEPT ![w].at = "answer"]
    /\ UNCHANGED <<kind, poolVars, acceptor, line, waiting, overflow>>

(* Pool::park, which turns nothing away.                                   *)
WorkerParks(w) ==
    /\ worker[w].at = "park"
    /\ parked' = Append(parked, worker[w].conn)
    /\ NotifyOne
    /\ worker' = [worker EXCEPT ![w] = At("free", Nobody)]
    /\ UNCHANGED <<kind, unread, overdue, acceptor, line, waiting, overflow>>

(* The answer is written and the connection closed; or the handler         *)
(* panicked, which closes it without one.                                  *)
WorkerEnds(w) ==
    /\ worker[w].at \in {"read", "answer"}
    /\ Gone(worker[w].conn)
    /\ worker' = [worker EXCEPT ![w] = At("free", Nobody)]
    /\ UNCHANGED <<poolVars, acceptor, line, waiting, overflow>>

(* A parked read has waited for parked_at_most; the oldest comes first.    *)
ParkedReadAges ==
    /\ overdue < Len(parked)
    /\ overdue' = overdue + 1
    /\ UNCHANGED <<kind, unread, parked, asleep, worker, acceptor, line, waiting, overflow>>

-----------------------------------------------------------------------------
(* The overflow thread may fail to start (spawn_overflow).                 *)
Init ==
    /\ kind = [c \in Conns |-> Nobody]
    /\ unread = <<>> /\ parked = <<>> /\ overdue = 0 /\ asleep = {}
    /\ worker = [w \in Workers |-> At("free", Nobody)]
    /\ acceptor = At("accept", Nobody)
    /\ line = <<>> /\ waiting = 0
    /\ overflow \in {At("receive", Nobody), At("gone", Nobody)}

Acceptor ==
    AcceptorLooks \/ AcceptorOffers \/ AcceptorCounts \/ AcceptorSends \/ AcceptorDrops

Overflow ==
    \/ OverflowReceives \/ OverflowOffers \/ OverflowPeeks \/ OverflowOffersPress
    \/ OverflowRefuses \/ OverflowLeaves

Worker(w) == WorkerLooks(w) \/ WorkerReads(w) \/ WorkerParks(w) \/ WorkerEnds(w)

Next ==
    \/ \E c \in Conns, k \in Kinds : Accepts(c, k)
    \/ Acceptor \/ Overflow \/ ParkedReadAges
    \/ \E w \in Workers : Worker(w)

Spec == Init /\ [][Next]_vars

(* Every thread goes on: reading has its deadline, answering ends, and     *)
(* time passes.  Nothing obliges a connection to come.                     *)
Fairness ==
    /\ WF_vars(Acceptor) /\ WF_vars(Overflow) /\ WF_vars(ParkedReadAges)
    /\ \A w \in Workers : WF_vars(Worker(w))

FairSpec == Spec /\ Fairness

-----------------------------------------------------------------------------
(* Properties.                                                             *)

TypeOK ==
    /\ kind \in [Conns -> Kinds \cup {Nobody}]
    /\ unread \in Seq(Conns) /\ parked \in Seq(Conns) /\ line \in Seq(Conns)
    /\ overdue \in 0..Len(parked)
    /\ asleep \subseteq Workers
    /\ worker \in [Workers -> [at : {"free", "read", "park", "answer"}, conn : Conns \cup {Nobody}]]
    /\ acceptor \in [at : {"accept", "look", "offer", "count", "send", "drop"},
                     conn : Conns \cup {Nobody}]
    /\ waiting \in 0..(OverflowQueue + 2)
    /\ overflow \in [at : {"receive", "offer", "peek", "press", "refuse", "leave", "gone"},
                     conn : Conns \cup {Nobody}]

IsPress(c) == c \in Conns /\ kind[c] = "press"

(* A press passes from the acceptor to the overflow thread's line, to the  *)
(* thread, to the unread line, in the order the presses came, and is begun *)
(* in that order: none is overtaken by a later one that found room.        *)
Waits(c) == c \in ToSet(unread) \cup ToSet(line) \cup {overflow.conn, acceptor.conn}

InLine(s, c, d) == \E i, j \in DOMAIN s : i < j /\ s[i] = c /\ s[j] = d

Ahead(c, d) ==
    \/ InLine(unread, c, d)
    \/ c \in ToSet(unread) /\ d \in ToSet(line) \cup {overflow.conn, acceptor.conn}
    \/ c = overflow.conn /\ d \in ToSet(line) \cup {acceptor.conn}
    \/ InLine(line, c, d)
    \/ c \in ToSet(line) /\ d = acceptor.conn

ComingPresses == {c \in Conns : IsPress(c) /\ Waits(c)}
PressOrder == {b \in ComingPresses \X ComingPresses : Ahead(b[1], b[2])}
BegunPresses == {c \in Conns : IsPress(c) /\ \E w \in Workers : worker[w].conn = c}

Presses == INSTANCE PressLine WITH
    Presses <- Conns, coming <- ComingPresses, before <- PressOrder, begun <- BegunPresses

InOrder == Presses!PressesSpec

UnreadPosts == {i \in 1..Len(unread) : kind[unread[i]] \in Posts}

(* A press whose bytes are there is refused only when presses hold what    *)
(* was kept for them, less a slot for each worker: a display's read that a *)
(* worker has read is parked over the capacity.  A full queue of displays  *)
(* never refuses a press.                                                  *)
RoomForPress ==
    [][overflow.at = "press" /\ overflow'.at = "refuse"
          => Cardinality(UnreadPosts) + Cardinality(Workers) >= Reserve]_vars

(* Nobody waits in the queue while every worker sleeps.                    *)
WorkersHear == asleep = Workers => Depth = 0

(* Every connection that comes is answered, refused or closed, however     *)
(* many come after it: a parked read is not passed for ever by a stream of *)
(* presses, nor a waiting press by the parked reads.                       *)
IsServed(c) == kind[c] # Nobody ~> kind[c] = Nobody
Served == \A c \in Conns : IsServed(c)

=============================================================================
