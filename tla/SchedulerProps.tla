-------------------------- MODULE SchedulerProps --------------------------
(***************************************************************************)
(* What the scheduler and the registry promise: the properties that the    *)
(* configurations check and SchedulerProofs proves.                        *)
(***************************************************************************)
EXTENDS Scheduler, Selection

Elements(s) == {s[i] : i \in DOMAIN s}

\* Immediate events that have been generated and not yet dispatched.
Waiting == Elements(priority) \cup Elements(standard) \cup Elements(pending)

Dispatched == hand = NoEvent /\ hand' # NoEvent

\* An event of this type for this instance is queued, buffered or in hand.
Underway(type, a) ==
    \E e \in Waiting \cup ({hand} \ {NoEvent}) : e.type = type /\ e.target = a

-----------------------------------------------------------------------------
(* Invariants *)

\* The type of every variable, and which locals of the generator hold an
\* event or an instance where.
TypeOK ==
    /\ priority \in Seq(Event)
    /\ standard \in Seq(Event)
    /\ delay \in SUBSET DelayEntry
    /\ seq \in Nat
    /\ pending \in Seq(Event)
    /\ inFlight \in Event \cup {NoEvent}
    /\ registry \in [Addr -> StateOrNone \cup {Absent}]
    /\ now \in Nat
    /\ pc \in {"idle", "tick", "tickMore", "ticked", "pick", "selected",
               "created", "deleted", "error", "received", "guarding", "guarded",
               "acting", "executed", "transit", "fired", "flush"}
    /\ hand \in Event \cup {NoEvent}
    /\ conc \in Addr \cup {NoAddr}
    /\ from \in StateOrNone
    /\ cand \in Nat \ {0}
    /\ chosen \in Nat
    /\ closing \in BOOLEAN
    /\ nextStamp \in Nat

\* D-14, rule 5: at most one delayed event of a type is pending for a sender
\* and a target, however timers are set, superseded, cancelled and expire
\* (_enqueue_delay and tick_delay_queue, scheduler.py).
DelayUnique ==
    \A x, y \in delay : SameTriple(x.ev, y.ev) => x = y

\* Two heap entries never tie on (expiry, seq): heapq would go on to compare
\* two Event objects, which have no order, and raise TypeError inside the
\* scheduler (scheduler.py:162, heappush of (expiry, seq, event)).
HeapKeysDistinct ==
    \A x, y \in delay : x # y => x.expiry # y.expiry \/ x.seq # y.seq

\* The run-to-completion buffer belongs to the event in flight: between two
\* events nothing is left in it, on any path, an exception in an action
\* included (the finally blocks of _process_event and _process_creation). A
\* leftover would be delivered with some later event, or never.
BufferScoped ==
    /\ pending # <<>> => inFlight # NoEvent \/ pc = "flush"
    /\ inFlight # NoEvent => inFlight = hand

\* Each queue holds events in the order they were generated, and everything
\* in the buffer is younger than everything in the queues: buffering and
\* flushing never reorder events (scheduler.py:480-486).
FifoOrder ==
    /\ \A i, j \in DOMAIN priority : i < j => priority[i].stamp < priority[j].stamp
    /\ \A i, j \in DOMAIN standard : i < j => standard[i].stamp < standard[j].stamp
    /\ \A i, j \in DOMAIN pending : i < j => pending[i].stamp < pending[j].stamp
    /\ \A p \in Elements(pending), q \in Elements(priority) \cup Elements(standard) :
          q.stamp < p.stamp

\* No event is in two places at once, or still waiting while it is processed:
\* it will be dispatched at most once.
DispatchedOnce ==
    /\ Elements(priority) \cap Elements(standard) = {}
    /\ hand \notin Waiting

\* Creation and deletion are never delayed and never overtake: they are only
\* in the standard queue or on their way to it (rule 3), though their sender
\* is their target.
LifecycleIsStandard ==
    /\ \A e \in Elements(priority) : e.type \notin Lifecycle
    /\ \A x \in delay : x.ev.type \notin Lifecycle

\* An instance that was created asynchronously has no state only as long as
\* its creation event is on its way (D-02, rule 14). Otherwise every event
\* it received would be a can't-happen error for ever.
UnsetHasCreation ==
    \A a \in Addr :
        registry[a] = Unset /\ Initial[a[1]] # Unset
        => Underway("__creation__", a)

\* An instance that reached a final state has its deletion on the way (rule
\* 18), whatever else happens to it meanwhile, as long as none is created in
\* such a state. (Between the transition and its completion the deletion is
\* still to be posted.)
FinalHasDeletion ==
    \A a \in Addr :
        registry[a] \in Final[a[1]] /\ ~(pc = "fired" /\ conc = a)
        => Underway("__deletion__", a)

-----------------------------------------------------------------------------
(* Action properties *)

\* Rule 11: while one event is being processed nothing is put in, or taken
\* from, the immediate queues, whoever generates events.
RunToCompletion ==
    [][inFlight # NoEvent /\ inFlight' # NoEvent => UNCHANGED <<priority, standard>>]_vars

\* Rules 1, 6, 7: when a standard event is dispatched, no self-directed event
\* waits, neither in a queue nor in the buffer: an instance finishes what it
\* told itself to do before anything from outside is considered.
SelfDirectedFirst ==
    [][Dispatched /\ (~SelfDirected(hand') \/ hand'.type \in Lifecycle)
       => \A e \in Waiting : SelfDirected(e) => e.type \in Lifecycle]_vars

\* The entry was chosen for the state `from`, and the transition fires from it.
FromStateIsCurrent ==
    pc \in {"received", "guarding", "guarded", "acting", "executed", "transit"}
       /\ hand.type \in Signal
    => registry[conc] = from

\* A call, between events, at a yield or in an action, that creates, replaces
\* or deletes this instance and no other.
ByCall(a) ==
    /\ pc = "idle" \/ AtYield \/ pc = "acting"
    /\ UNCHANGED <<pc, frameVars>>
    /\ registry' = [registry EXCEPT ![a] = registry'[a]]

\* The state that is read at EventReceived (scheduler.py:378) is the one the
\* transition leaves (465), across the yields, the guards and the action in
\* between, unless a trigger, a method or the action itself creates or deletes
\* that very instance; whatever happens to others is no matter. And the
\* transition of an instance that is gone by then, or the creation event of
\* one, does not bring it back: only a call does.
StaleOnlyByCall ==
    [][/\ FromStateIsCurrent /\ ~FromStateIsCurrent' => ByCall(conc)
       /\ \A a \in Addr : registry[a] = Absent /\ registry'[a] # Absent => ByCall(a)]_vars

\* Two immediate events from the same sender to the same target are
\* dispatched in the order in which they were generated, through the buffer
\* or not. (Lifecycle events go by another queue than the self-directed ones.)
PairwiseOrder ==
    [][Dispatched =>
         \A e \in Waiting :
            /\ e.sender = hand'.sender /\ e.target = hand'.target
            /\ (e.type \in Lifecycle) <=> (hand'.type \in Lifecycle)
            => e.stamp >= hand'.stamp]_vars

\* Nothing is lost: an event leaves the queues and the buffer only by being
\* dispatched, also when an action raises; a delayed event leaves the heap
\* only by becoming immediate, or by a call of the context.
NothingLost ==
    [][/\ Waiting \subseteq Waiting' \cup {hand'}
       /\ \A x \in delay \ delay' :
             \/ \E e \in Waiting' \ Waiting : SameTriple(e, x.ev)
             \/ pc = pc' /\ pc \notin {"tick", "tickMore"}]_vars

\* Delayed events expire in the order of their expiry times, first posted
\* first at the same instant, and never before their time.
ExpiryOrder ==
    [][(pc \in {"tick", "tickMore"}) =>
         \A x \in delay \ delay' :
            x.expiry <= now /\ \A y \in delay' : Earlier(x, y)]_vars

-----------------------------------------------------------------------------
(* Refinement *)

IsUrgent(e) == SelfDirected(e) /\ e.type \notin Lifecycle

UrgentEvent == {e \in Event : IsUrgent(e)}
OrdinaryEvent == {e \in Event : ~IsUrgent(e)}

\* The buffered events count as queued already.
UrgentLine == priority \o Filtered(pending, UrgentEvent)
OrdinaryLine == standard \o Filtered(pending, OrdinaryEvent)

Pump == INSTANCE EventPump WITH
            urgent   <- UrgentLine,
            ordinary <- OrdinaryLine,
            timers   <- delay,
            clock    <- now,
            current  <- hand

\* The run-to-completion buffer cannot be observed: the scheduler dispatches
\* what a pump without a buffer would dispatch, in the same order, through
\* exceptions and dropped generators too.
RefinesPump == Pump!PumpSpec

-----------------------------------------------------------------------------
(* Liveness, under FairSpec *)

\* While the caller keeps iterating, every event in a queue or in the buffer
\* is dispatched.
QueuedIsDispatched ==
    \A n \in 1 .. 2 * MaxEvents :
        (pc # "idle" /\ \E e \in Waiting : e.stamp = n)
        ~> (hand # NoEvent /\ hand.stamp = n)

\* A timer that has run out while the engine is running is not left in the
\* heap.
ExpiredIsMoved ==
    \A n \in 0 .. MaxEvents :
        (pc # "idle" /\ \E x \in delay : x.seq = n /\ x.expiry <= now)
        ~> (\A x \in delay : x.seq # n)

\* An instance in a final state disappears, if the engine keeps running
\* (rule 18).
FinalIsRemoved ==
    \A a \in Addr :
        (pc # "idle" /\ registry[a] \in Final[a[1]])
        ~> (registry[a] \notin Final[a[1]])
=============================================================================
