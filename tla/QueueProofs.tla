---------------------------- MODULE QueueProofs ----------------------------
(***************************************************************************)
(* Proofs about what is in the queues and in which order, by the shapes of *)
(* a step (SchedulerProofs), and about the delay queue: the heap of        *)
(* _enqueue_delay(), cancel() and tick_delay_queue() (scheduler.py). Last, *)
(* that the scheduler implements EventPump: the run-to-completion buffer   *)
(* cannot be observed.                                                     *)
(***************************************************************************)
EXTENDS SchedulerProofs, SelectionProofs

Ordered(s) == \A i, j \in DOMAIN s : i < j => s[i].stamp < s[j].stamp

\* The queues, the buffer and the event in hand: each line is in the order in
\* which its events were numbered, no number occurs twice, and an event is
\* where its routing puts it.
QueueInv ==
    /\ Ordered(priority) /\ Ordered(standard) /\ Ordered(pending)
    /\ \A e \in Elements(priority) : IsUrgent(e)
    /\ \A e \in Elements(standard) : ~IsUrgent(e)
    /\ \A e \in Waiting : e.stamp < nextStamp
    /\ \A e \in Elements(pending), f \in Elements(priority) \cup Elements(standard) :
          f.stamp < e.stamp
    /\ \A e \in Elements(priority), f \in Elements(standard) : e.stamp # f.stamp
    /\ hand # NoEvent =>
          hand.stamp < nextStamp /\ \A e \in Waiting : e.stamp # hand.stamp

-----------------------------------------------------------------------------
(* Sequences of events *)

LEMMA ElementsType ==
    ASSUME NEW s \in Seq(Event)
    PROVE  Elements(s) \subseteq Event
  BY DEF Elements

LEMMA AppendElements ==
    ASSUME NEW s \in Seq(Event), NEW e \in Event
    PROVE  Elements(Append(s, e)) = Elements(s) \cup {e}
  <1>1. /\ DOMAIN Append(s, e) = 1 .. (Len(s) + 1)
        /\ \A i \in 1 .. Len(s) : Append(s, e)[i] = s[i]
        /\ Append(s, e)[Len(s) + 1] = e
        /\ DOMAIN s = 1 .. Len(s)
        /\ Len(s) \in Nat
    OBVIOUS
  <1>2. ASSUME NEW x \in Elements(Append(s, e))
        PROVE  x \in Elements(s) \cup {e}
    BY <1>1 DEF Elements
  <1>3. ASSUME NEW x \in Elements(s) \cup {e}
        PROVE  x \in Elements(Append(s, e))
    <2>1. CASE x = e
      BY <1>1, <2>1 DEF Elements
    <2>2. CASE x \in Elements(s)
      <3>1. PICK i \in 1 .. Len(s) : x = s[i]
        BY <1>1, <2>2 DEF Elements
      <3>2. i \in DOMAIN Append(s, e) /\ x = Append(s, e)[i]
        BY <1>1, <3>1
      <3> QED
        BY <3>2 DEF Elements
    <2> QED
      BY <1>3, <2>1, <2>2
  <1> QED
    BY <1>2, <1>3

\* Appending a younger event keeps a line in order.
LEMMA AppendOrdered ==
    ASSUME NEW s \in Seq(Event), NEW e \in Event, Ordered(s),
           \A x \in Elements(s) : x.stamp < e.stamp
    PROVE  Ordered(Append(s, e))
  <1>1. /\ DOMAIN Append(s, e) = 1 .. (Len(s) + 1)
        /\ \A i \in 1 .. Len(s) : Append(s, e)[i] = s[i]
        /\ Append(s, e)[Len(s) + 1] = e
        /\ DOMAIN s = 1 .. Len(s)
        /\ Len(s) \in Nat
    OBVIOUS
  <1> SUFFICES ASSUME NEW i \in 1 .. (Len(s) + 1), NEW j \in 1 .. (Len(s) + 1), i < j
               PROVE  Append(s, e)[i].stamp < Append(s, e)[j].stamp
    BY <1>1 DEF Ordered
  <1>2. i \in 1 .. Len(s)
    BY <1>1
  <1>3. CASE j = Len(s) + 1
    <2>1. s[i] \in Elements(s)
      BY <1>1, <1>2 DEF Elements
    <2> QED
      BY <1>1, <1>2, <1>3, <2>1
  <1>4. CASE j \in 1 .. Len(s)
    BY <1>1, <1>2, <1>4 DEF Ordered
  <1> QED
    BY <1>1, <1>3, <1>4

\* The head of a line is its oldest event.
LEMMA HeadAndTail ==
    ASSUME NEW s \in Seq(Event), s # <<>>
    PROVE  /\ Head(s) \in Event
           /\ Tail(s) \in Seq(Event)
           /\ Elements(s) = {Head(s)} \cup Elements(Tail(s))
           /\ Ordered(s) => /\ Ordered(Tail(s))
                            /\ \A x \in Elements(Tail(s)) : Head(s).stamp < x.stamp
  <1>1. /\ Len(s) \in Nat \ {0}
        /\ DOMAIN s = 1 .. Len(s)
        /\ Head(s) = s[1]
        /\ DOMAIN Tail(s) = 1 .. (Len(s) - 1)
        /\ \A i \in 1 .. (Len(s) - 1) : Tail(s)[i] = s[i + 1]
    OBVIOUS
  <1>2. Elements(s) \subseteq {Head(s)} \cup Elements(Tail(s))
    <2> SUFFICES ASSUME NEW i \in 1 .. Len(s), i # 1 PROVE s[i] \in Elements(Tail(s))
      BY <1>1 DEF Elements
    <2>1. i - 1 \in DOMAIN Tail(s) /\ s[i] = Tail(s)[i - 1]
      BY <1>1
    <2> QED
      BY <2>1 DEF Elements
  <1>3. {Head(s)} \cup Elements(Tail(s)) \subseteq Elements(s)
    BY <1>1 DEF Elements
  <1>4. ASSUME Ordered(s)
        PROVE  Ordered(Tail(s))
    BY <1>1, <1>4 DEF Ordered
  <1>5. ASSUME Ordered(s), NEW x \in Elements(Tail(s))
        PROVE  Head(s).stamp < x.stamp
    <2>1. PICK i \in 1 .. (Len(s) - 1) : x = s[i + 1]
      BY <1>1 DEF Elements
    <2> QED
      BY <1>1, <1>5, <2>1 DEF Ordered
  <1> QED
    BY <1>2, <1>3, <1>4, <1>5

\* _enqueue_direct() appends to the queue that _classify_queue() names.
LEMMA EnqueueDirectCases ==
    ASSUME NEW e \in Event, EnqueueDirect(e)
    PROVE  \/ IsUrgent(e) /\ priority' = Append(priority, e) /\ UNCHANGED standard
           \/ ~IsUrgent(e) /\ standard' = Append(standard, e) /\ UNCHANGED priority
  BY DEF EnqueueDirect, ClassifyQueue, IsUrgent

-----------------------------------------------------------------------------
(* QueueInv, shape by shape *)

LEMMA QuietQueues ==
    ASSUME QueueInv, Quiet
    PROVE  QueueInv'
  BY DEF QueueInv, Quiet, Waiting, Elements, Ordered

\* An event numbered nextStamp is younger than everything that waits.
LEMMA JoiningQueues ==
    ASSUME TypeInv, QueueInv, Joining
    PROVE  QueueInv'
  <1>0. /\ priority \in Seq(Event) /\ standard \in Seq(Event) /\ pending \in Seq(Event)
        /\ nextStamp \in Nat
        /\ hand \in Event \cup {NoEvent}
        /\ \A e \in Waiting : e.stamp \in Nat
        /\ hand # NoEvent => hand.stamp \in Nat
    <2>1. Waiting \subseteq Event
      BY ElementsType DEF TypeInv, TypeOK, Waiting
    <2> QED
      BY <2>1 DEF TypeInv, TypeOK, Event
  <1>1. PICK e \in Event :
           /\ e.stamp = nextStamp
           /\ nextStamp' = nextStamp + 1
           /\ UNCHANGED hand
           /\ \/ pending' = Append(pending, e) /\ UNCHANGED <<priority, standard>>
              \/ /\ pending = <<>>
                 /\ EnqueueDirect(e)
                 /\ UNCHANGED pending
    BY DEF Joining
  <1>2. CASE pending' = Append(pending, e) /\ UNCHANGED <<priority, standard>>
    <2>1. Elements(pending)' = Elements(pending) \cup {e}
      BY <1>0, <1>2, AppendElements
    <2>2. Ordered(pending)'
      <3>1. \A x \in Elements(pending) : x.stamp < e.stamp
        BY <1>1 DEF QueueInv, Waiting
      <3>2. Ordered(Append(pending, e))
        BY <1>0, <3>1, AppendOrdered DEF QueueInv
      <3> QED
        BY <1>2, <3>2 DEF Ordered
    <2>3. /\ Elements(priority)' = Elements(priority) /\ Elements(standard)' = Elements(standard)
          /\ Ordered(priority)' /\ Ordered(standard)'
      BY <1>2 DEF QueueInv, Ordered, Elements
    <2>4. Waiting' = Waiting \cup {e}
      BY <2>1, <2>3 DEF Waiting
    <2> QED
      BY <1>0, <1>1, <2>1, <2>2, <2>3, <2>4 DEF QueueInv, Waiting, IsUrgent, SelfDirected
  <1>3. CASE pending = <<>> /\ EnqueueDirect(e) /\ UNCHANGED pending
    <2>0. Elements(pending) = {} /\ Elements(pending)' = {} /\ Ordered(pending)'
      BY <1>3 DEF Elements, Ordered
    <2>1. CASE IsUrgent(e) /\ priority' = Append(priority, e) /\ UNCHANGED standard
      <3>1. Elements(priority)' = Elements(priority) \cup {e}
        BY <1>0, <2>1, AppendElements
      <3>2. Ordered(Append(priority, e))
        BY <1>0, <1>1, AppendOrdered DEF QueueInv, Waiting
      <3>3. Elements(standard)' = Elements(standard) /\ Ordered(standard)' /\ Ordered(priority)'
        BY <2>1, <3>2 DEF QueueInv, Ordered, Elements
      <3>4. Waiting' = Waiting \cup {e}
        BY <2>0, <3>1, <3>3 DEF Waiting
      <3> QED
        BY <1>0, <1>1, <2>0, <2>1, <3>1, <3>3, <3>4 DEF QueueInv, Waiting, IsUrgent, SelfDirected
    <2>2. CASE ~IsUrgent(e) /\ standard' = Append(standard, e) /\ UNCHANGED priority
      <3>1. Elements(standard)' = Elements(standard) \cup {e}
        BY <1>0, <2>2, AppendElements
      <3>2. Ordered(Append(standard, e))
        BY <1>0, <1>1, AppendOrdered DEF QueueInv, Waiting
      <3>3. Elements(priority)' = Elements(priority) /\ Ordered(priority)' /\ Ordered(standard)'
        BY <2>2, <3>2 DEF QueueInv, Ordered, Elements
      <3>4. Waiting' = Waiting \cup {e}
        BY <2>0, <3>1, <3>3 DEF Waiting
      <3> QED
        BY <1>0, <1>1, <2>0, <2>2, <3>1, <3>3, <3>4 DEF QueueInv, Waiting, IsUrgent, SelfDirected
    <2> QED
      BY <1>3, <2>1, <2>2, EnqueueDirectCases
  <1> QED
    BY <1>1, <1>2, <1>3

LEMMA SettingTimerQueues ==
    ASSUME QueueInv, SettingTimer
    PROVE  QueueInv'
  BY DEF QueueInv, SettingTimer, EnqueueDelay, Waiting, Elements, Ordered

\* The head of a queue goes; what stays has other numbers.
LEMMA SelectingQueues ==
    ASSUME TypeInv, QueueInv, Selecting
    PROVE  QueueInv'
  <1>0. /\ priority \in Seq(Event) /\ standard \in Seq(Event)
        /\ \A e \in Waiting : e.stamp \in Nat
    <2>1. Waiting \subseteq Event
      BY ElementsType DEF TypeInv, TypeOK, Waiting
    <2> QED
      BY <2>1 DEF TypeInv, TypeOK, Event
  <1>1. /\ Elements(pending) = {} /\ Elements(pending)' = {} /\ Ordered(pending)'
        /\ nextStamp' = nextStamp
    BY DEF Selecting, Elements, Ordered
  <1>2. CASE /\ priority # <<>> /\ hand' = Head(priority) /\ priority' = Tail(priority)
             /\ UNCHANGED standard
    <2>1. /\ Elements(priority) = {Head(priority)} \cup Elements(priority)'
          /\ Ordered(priority)'
          /\ \A x \in Elements(priority)' : Head(priority).stamp < x.stamp
      <3>1. Elements(priority)' = Elements(Tail(priority)) /\ Ordered(priority)' = Ordered(Tail(priority))
        BY <1>2 DEF Elements, Ordered
      <3>2. Ordered(priority)
        BY DEF QueueInv
      <3> QED
        BY <1>0, <1>2, <3>1, <3>2, HeadAndTail
    <2>2. Elements(standard)' = Elements(standard) /\ Ordered(standard)'
      BY <1>2 DEF QueueInv, Elements, Ordered
    <2>3. Waiting = {Head(priority)} \cup Waiting'
      BY <1>1, <2>1, <2>2 DEF Waiting
    <2> QED
      BY <1>0, <1>1, <1>2, <2>1, <2>2, <2>3 DEF QueueInv, Waiting, IsUrgent, SelfDirected
  <1>3. CASE /\ standard # <<>> /\ hand' = Head(standard) /\ standard' = Tail(standard)
             /\ UNCHANGED priority
    <2>1. /\ Elements(standard) = {Head(standard)} \cup Elements(standard)'
          /\ Ordered(standard)'
          /\ \A x \in Elements(standard)' : Head(standard).stamp < x.stamp
      <3>1. Elements(standard)' = Elements(Tail(standard)) /\ Ordered(standard)' = Ordered(Tail(standard))
        BY <1>3 DEF Elements, Ordered
      <3>2. Ordered(standard)
        BY DEF QueueInv
      <3> QED
        BY <1>0, <1>3, <3>1, <3>2, HeadAndTail
    <2>2. Elements(priority)' = Elements(priority) /\ Ordered(priority)'
      BY <1>3 DEF QueueInv, Elements, Ordered
    <2>3. Waiting = {Head(standard)} \cup Waiting'
      BY <1>1, <2>1, <2>2 DEF Waiting
    <2> QED
      BY <1>0, <1>1, <1>3, <2>1, <2>2, <2>3 DEF QueueInv, Waiting, IsUrgent, SelfDirected
  <1> QED
    BY <1>2, <1>3 DEF Selecting

\* The oldest event of the buffer is younger than both queues.
LEMMA FlushingQueues ==
    ASSUME TypeInv, QueueInv, Flushing
    PROVE  QueueInv'
  <1> DEFINE e == Head(pending)
  <1>0. /\ priority \in Seq(Event) /\ standard \in Seq(Event) /\ pending \in Seq(Event)
        /\ \A x \in Waiting : x.stamp \in Nat
        /\ nextStamp' = nextStamp /\ hand' = hand
    <2>1. Waiting \subseteq Event
      BY ElementsType DEF TypeInv, TypeOK, Waiting
    <2> QED
      BY <2>1 DEF TypeInv, TypeOK, Event, Flushing
  <1>1. /\ e \in Event
        /\ Elements(pending) = {e} \cup Elements(pending)'
        /\ Ordered(pending)'
        /\ \A x \in Elements(pending)' : e.stamp < x.stamp
    <2>1. /\ Elements(pending)' = Elements(Tail(pending))
          /\ Ordered(pending)' = Ordered(Tail(pending))
      BY DEF Flushing, Elements, Ordered
    <2>2. pending # <<>> /\ Ordered(pending)
      BY DEF Flushing, QueueInv
    <2> QED
      BY <1>0, <2>1, <2>2, HeadAndTail
  <1>2. \A x \in Elements(priority) \cup Elements(standard) : x.stamp < e.stamp
    BY <1>1 DEF QueueInv
  <1>3. CASE IsUrgent(e) /\ priority' = Append(priority, e) /\ UNCHANGED standard
    <2>1. Elements(priority)' = Elements(priority) \cup {e}
      BY <1>0, <1>1, <1>3, AppendElements
    <2>2. Ordered(Append(priority, e))
      BY <1>0, <1>1, <1>2, AppendOrdered DEF QueueInv
    <2>3. Elements(standard)' = Elements(standard) /\ Ordered(standard)' /\ Ordered(priority)'
      BY <1>3, <2>2 DEF QueueInv, Ordered, Elements
    <2>4. Waiting' = Waiting
      BY <1>1, <2>1, <2>3 DEF Waiting
    <2> QED
      <3>1. /\ \A x \in Elements(pending)', y \in Elements(priority)' \cup Elements(standard)' :
                  y.stamp < x.stamp
            /\ \A x \in Elements(priority)', y \in Elements(standard)' : x.stamp # y.stamp
        BY <1>0, <1>1, <1>2, <2>1, <2>3 DEF QueueInv, Waiting
      <3>2. /\ \A x \in Elements(priority)' : IsUrgent(x)
            /\ \A x \in Elements(standard)' : ~IsUrgent(x)
        BY <1>3, <2>1, <2>3 DEF QueueInv
      <3> QED
        BY <1>0, <1>1, <2>3, <2>4, <3>1, <3>2 DEF QueueInv, IsUrgent, SelfDirected
  <1>4. CASE ~IsUrgent(e) /\ standard' = Append(standard, e) /\ UNCHANGED priority
    <2>1. Elements(standard)' = Elements(standard) \cup {e}
      BY <1>0, <1>1, <1>4, AppendElements
    <2>2. Ordered(Append(standard, e))
      BY <1>0, <1>1, <1>2, AppendOrdered DEF QueueInv
    <2>3. Elements(priority)' = Elements(priority) /\ Ordered(priority)' /\ Ordered(standard)'
      BY <1>4, <2>2 DEF QueueInv, Ordered, Elements
    <2>4. Waiting' = Waiting
      BY <1>1, <2>1, <2>3 DEF Waiting
    <2> QED
      BY <1>0, <1>1, <1>2, <1>4, <2>1, <2>3, <2>4 DEF QueueInv, Waiting, IsUrgent, SelfDirected
  <1> QED
    BY <1>1, <1>3, <1>4, EnqueueDirectCases DEF Flushing

LEMMA QueueInvariant == OpenSpec => []QueueInv
  <1>1. Init => QueueInv
    BY DEF Init, QueueInv, Waiting, Elements, Ordered
  <1>2. TypeInv /\ BufferInv /\ QueueInv /\ [OpenNext]_vars => QueueInv'
    BY StepShape, QuietQueues, JoiningQueues, SettingTimerQueues, SelectingQueues,
       FlushingQueues
  <1> QED
    BY <1>1, <1>2, TypeInvariant, BufferInvariant, PTL DEF OpenSpec

LEMMA QueuesAreFifoOpen == OpenSpec => []FifoOrder
  <1>1. QueueInv => FifoOrder
    BY DEF QueueInv, FifoOrder, Ordered
  <1> QED
    BY <1>1, QueueInvariant, PTL

\* The queues are first in, first out, through the run-to-completion buffer
\* too (scheduler.py:480-486 flushes what 138-140 buffered).
THEOREM QueuesAreFifo == Spec => []FifoOrder
  BY QueuesAreFifoOpen, SpecIsOpen, PTL

LEMMA EventsAreDispatchedOnceOpen == OpenSpec => []DispatchedOnce
  <1>1. TypeInv /\ QueueInv => DispatchedOnce
    <2> SUFFICES ASSUME TypeInv, QueueInv PROVE DispatchedOnce
      OBVIOUS
    <2>1. Waiting \subseteq Event
      BY ElementsType DEF TypeInv, TypeOK, Waiting
    <2>2. hand \notin Waiting
      BY <2>1, NoEventAssumption DEF QueueInv
    <2> QED
      BY <2>2 DEF QueueInv, DispatchedOnce
  <1> QED
    BY <1>1, TypeInvariant, QueueInvariant, PTL

\* An event is in one place only, and not any more when it is in hand.
THEOREM EventsAreDispatchedOnce == Spec => []DispatchedOnce
  BY EventsAreDispatchedOnceOpen, SpecIsOpen, PTL

LEMMA RunsToCompletionOpen == OpenSpec => RunToCompletion
  <1>1. ASSUME TypeInv, BufferInv, [OpenNext]_vars, inFlight # NoEvent, inFlight' # NoEvent
        PROVE  UNCHANGED <<priority, standard>>
    <2>1. pc \in Handling
      BY <1>1 DEF BufferInv
    <2> QED
      BY <1>1, <2>1, StepShape
         DEF Quiet, Joining, SettingTimer, EnqueueDelay, Selecting, Flushing, Handling
  <1>2. TypeInv /\ BufferInv /\ [OpenNext]_vars
        => [inFlight # NoEvent /\ inFlight' # NoEvent => UNCHANGED <<priority, standard>>]_vars
    BY <1>1
  <1> QED
    BY <1>2, TypeInvariant, BufferInvariant, PTL DEF OpenSpec, RunToCompletion

\* While an event is in flight nobody touches the immediate queues (rule 11).
THEOREM RunsToCompletion == Spec => RunToCompletion
  BY RunsToCompletionOpen, SpecIsOpen, PTL

\* Only Selecting puts an event in hand.
LEMMA DispatchSelects ==
    ASSUME TypeInv, BufferInv, [OpenNext]_vars, Dispatched
    PROVE  Selecting
  BY StepShape DEF Dispatched, Quiet, Joining, SettingTimer, Flushing

LEMMA SelfDirectedGoFirstOpen == OpenSpec => SelfDirectedFirst
  <1> DEFINE A == Dispatched /\ (~SelfDirected(hand') \/ hand'.type \in Lifecycle)
                  => \A e \in Waiting : SelfDirected(e) => e.type \in Lifecycle
  <1>1. ASSUME TypeInv, BufferInv, QueueInv, [OpenNext]_vars, Dispatched,
               ~SelfDirected(hand') \/ hand'.type \in Lifecycle
        PROVE  \A e \in Waiting : SelfDirected(e) => e.type \in Lifecycle
    <2>1. Selecting
      BY <1>1, DispatchSelects
    <2>2. Elements(pending) = {}
      BY <2>1 DEF Selecting, Elements
    <2>3. priority = <<>>
      <3> SUFFICES ASSUME priority # <<>> PROVE FALSE
        OBVIOUS
      <3>1. hand' = Head(priority) /\ priority \in Seq(Event)
        BY <1>1, <2>1 DEF Selecting, TypeInv, TypeOK
      <3>2. IsUrgent(hand')
        BY <1>1, <3>1, HeadAndTail DEF QueueInv
      <3> QED
        BY <1>1, <3>2 DEF IsUrgent
    <2>4. Waiting = Elements(standard)
      BY <2>2, <2>3 DEF Waiting, Elements
    <2> QED
      BY <1>1, <2>4 DEF QueueInv, IsUrgent
  <1>2. TypeInv /\ BufferInv /\ QueueInv /\ [OpenNext]_vars => [A]_vars
    BY <1>1
  <1> QED
    BY <1>2, TypeInvariant, BufferInvariant, QueueInvariant, PTL DEF OpenSpec, SelfDirectedFirst

\* A standard event is dispatched only when no self-directed event waits
\* (scheduler.py:309-328 asks the priority queue first).
THEOREM SelfDirectedGoFirst == Spec => SelfDirectedFirst
  BY SelfDirectedGoFirstOpen, SpecIsOpen, PTL

LEMMA PairsKeepOrderOpen == OpenSpec => PairwiseOrder
  <1> DEFINE Before(e) == /\ e.sender = hand'.sender /\ e.target = hand'.target
                          /\ (e.type \in Lifecycle) <=> (hand'.type \in Lifecycle)
                          => e.stamp >= hand'.stamp
  <1>1. ASSUME TypeInv, BufferInv, QueueInv, [OpenNext]_vars, Dispatched, NEW e \in Waiting
        PROVE  Before(e)
    <2>1. Selecting
      BY <1>1, DispatchSelects
    <2>2. Elements(pending) = {}
      BY <2>1 DEF Selecting, Elements
    <2>3. e \in Elements(priority) \cup Elements(standard) /\ e.stamp \in Nat
      <3>1. Waiting \subseteq Event
        BY <1>1, ElementsType DEF TypeInv, TypeOK, Waiting
      <3> QED
        BY <1>1, <2>2, <3>1 DEF Waiting, Event
    <2>4. CASE priority # <<>> /\ hand' = Head(priority)
      <3>1. IsUrgent(hand') /\ \A x \in Elements(priority) : x = hand' \/ hand'.stamp < x.stamp
        BY <1>1, <2>4, HeadAndTail DEF QueueInv, TypeInv, TypeOK
      <3>2. hand'.stamp \in Nat
        BY <1>1, <2>4, HeadAndTail DEF TypeInv, TypeOK, Event
      <3>3. Before(e) \/ IsUrgent(e)
        BY <3>1 DEF IsUrgent, SelfDirected
      <3> QED
        BY <1>1, <2>3, <3>1, <3>2, <3>3 DEF QueueInv
    <2>5. CASE priority = <<>> /\ standard # <<>> /\ hand' = Head(standard)
      <3>1. \A x \in Elements(standard) : x = hand' \/ hand'.stamp < x.stamp
        BY <1>1, <2>5, HeadAndTail DEF QueueInv, TypeInv, TypeOK
      <3>2. hand'.stamp \in Nat
        BY <1>1, <2>5, HeadAndTail DEF TypeInv, TypeOK, Event
      <3>3. e \in Elements(standard)
        BY <2>3, <2>5 DEF Elements
      <3> QED
        BY <2>3, <3>1, <3>2, <3>3
    <2> QED
      BY <2>1, <2>4, <2>5 DEF Selecting
  <1>2. TypeInv /\ BufferInv /\ QueueInv /\ [OpenNext]_vars
        => [Dispatched => \A e \in Waiting : Before(e)]_vars
    BY <1>1
  <1> QED
    BY <1>2, TypeInvariant, BufferInvariant, QueueInvariant, PTL DEF OpenSpec, PairwiseOrder

\* What one instance sends to another arrives in the order it was sent.
THEOREM PairsKeepOrder == Spec => PairwiseOrder
  BY PairsKeepOrderOpen, SpecIsOpen, PTL

-----------------------------------------------------------------------------
(* The delay queue *)

\* Sequence numbers are never used twice, and no triple is timed twice.
DelayInv ==
    /\ \A x \in delay : x.seq < seq /\ x.ev.type \in Signal
    /\ \A x, y \in delay : x.seq = y.seq \/ SameTriple(x.ev, y.ev) => x = y

LEMMA StepDelay ==
    ASSUME TypeInv, BufferInv, DelayInv, [OpenNext]_vars
    PROVE  DelayInv'
  <1>0. /\ seq \in Nat
        /\ \A x \in delay : x.seq \in Nat
    BY DEF TypeInv, TypeOK, DelayEntry
  <1>1. CASE delay' \subseteq delay /\ seq' = seq
    BY <1>1 DEF DelayInv, SameTriple
  <1>2. CASE SettingTimer
    <2>1. PICK e \in Event, d \in Nat : e.type \in Signal /\ EnqueueDelay(e, d)
      BY <1>2 DEF SettingTimer
    <2> DEFINE new == [expiry |-> now + d, seq |-> seq, ev |-> [e EXCEPT !.stamp = 0]]
    <2>2. /\ delay' = {x \in delay : ~SameTriple(x.ev, e)} \cup {new}
          /\ seq' = seq + 1
          /\ new.seq = seq
      BY <2>1 DEF EnqueueDelay
    <2>3. /\ new.ev.type = e.type /\ new.ev.sender = e.sender /\ new.ev.target = e.target
      BY <2>1 DEF Event
    <2> HIDE DEF new
    <2>4. \A x \in delay' : x.seq < seq' /\ x.ev.type \in Signal
      BY <1>0, <2>1, <2>2, <2>3 DEF DelayInv
    <2>5. ASSUME NEW x \in delay', NEW y \in delay', x.seq = y.seq \/ SameTriple(x.ev, y.ev)
          PROVE  x = y
      BY <1>0, <2>2, <2>3, <2>5 DEF DelayInv, SameTriple
    <2> QED
      BY <2>4, <2>5 DEF DelayInv, SameTriple
  <1> QED
    BY <1>1, <1>2, StepShape DEF Quiet, Joining, Selecting, Flushing

LEMMA DelayInvariant == OpenSpec => []DelayInv
  <1>1. Init => DelayInv
    BY DEF Init, DelayInv
  <1>2. TypeInv /\ BufferInv /\ DelayInv /\ [OpenNext]_vars => DelayInv'
    BY StepDelay
  <1> QED
    BY <1>1, <1>2, TypeInvariant, BufferInvariant, PTL DEF OpenSpec

LEMMA TimersAreUniqueOpen == OpenSpec => []DelayUnique
  <1>1. DelayInv => DelayUnique
    BY DEF DelayInv, DelayUnique
  <1> QED
    BY <1>1, DelayInvariant, PTL

\* D-14: one pending timer for a type, a sender and a target.
THEOREM TimersAreUnique == Spec => []DelayUnique
  BY TimersAreUniqueOpen, SpecIsOpen, PTL

LEMMA HeapNeverTiesOpen == OpenSpec => []HeapKeysDistinct
  <1>1. DelayInv => HeapKeysDistinct
    BY DEF DelayInv, HeapKeysDistinct
  <1> QED
    BY <1>1, DelayInvariant, PTL

\* heappush never compares two events: the keys before them differ
\* (scheduler.py:162).
THEOREM HeapNeverTies == Spec => []HeapKeysDistinct
  BY HeapNeverTiesOpen, SpecIsOpen, PTL

LEMMA LifecycleKeepsToStandardOpen == OpenSpec => []LifecycleIsStandard
  <1>1. DelayInv /\ QueueInv => LifecycleIsStandard
    BY SignalAssumption DEF DelayInv, QueueInv, IsUrgent, LifecycleIsStandard
  <1> QED
    BY <1>1, DelayInvariant, QueueInvariant, PTL

\* Rule 3: creation and deletion are never delayed and never overtake.
THEOREM LifecycleKeepsToStandard == Spec => []LifecycleIsStandard
  BY LifecycleKeepsToStandardOpen, SpecIsOpen, PTL

-----------------------------------------------------------------------------
(* What leaves the heap, and when *)

\* While the generator ticks, only an expired entry leaves, before all others.
LEMMA TickTakesLeast ==
    ASSUME TypeInv, BufferInv, [OpenNext]_vars, pc \in {"tick", "tickMore"}, NEW x \in delay \ delay'
    PROVE  /\ x.expiry <= now
           /\ \A y \in delay' : Earlier(x, y)
           /\ EnqueueDirect([x.ev EXCEPT !.stamp = nextStamp])
  <1>1. TickDelayQueue
    <2>1. CASE AnyCall
      BY <2>1 DEF AnyCall, AtYield
    <2>2. CASE Unwind \/ Abandon
      BY <2>2 DEF Unwind, Abandon, AtYield
    <2>3. CASE Loop \/ Start
      BY <2>3 DEF Loop, Start, TickDone, TickReported, SelectPriority, SelectStandard, Halt,
                  NextEvent, queueVars
    <2>4. CASE Process
      BY <2>4 DEF Process, ProcessCreation, RunBirthAction, NoBirthAction, ProcessDeletion,
                  UnknownTarget, ReceiveEvent, LookupTransition, PassUnguarded, EvaluateGuard,
                  GuardError, GuardReported, NoEntryPasses, TakeEntry, ActionReturns,
                  ActionReported, FireTransition, StayInState, CompleteTransition,
                  FlushPending, FlushDone
    <2> QED
      BY <2>1, <2>2, <2>3, <2>4 DEF OpenNext, Engine, vars
  <1> QED
    BY <1>1 DEF TickDelayQueue

LEMMA TimersExpireInOrderOpen == OpenSpec => ExpiryOrder
  <1>1. TypeInv /\ BufferInv /\ [OpenNext]_vars
        => [(pc \in {"tick", "tickMore"}) =>
              \A x \in delay \ delay' :
                 x.expiry <= now /\ \A y \in delay' : Earlier(x, y)]_vars
    BY TickTakesLeast
  <1> QED
    BY <1>1, TypeInvariant, BufferInvariant, PTL DEF OpenSpec, ExpiryOrder

\* Timers expire in the order of their times, and none before its time
\* (tick_delay_queue, scheduler.py:248-270).
THEOREM TimersExpireInOrder == Spec => ExpiryOrder
  BY TimersExpireInOrderOpen, SpecIsOpen, PTL

\* No shape of a step drops an event that waits.
LEMMA StepKeepsWaiting ==
    ASSUME TypeInv, BufferInv, [OpenNext]_vars
    PROVE  Waiting \subseteq Waiting' \cup {hand'}
  <1>0. priority \in Seq(Event) /\ standard \in Seq(Event) /\ pending \in Seq(Event)
    BY DEF TypeInv, TypeOK
  <1>1. CASE Quiet \/ SettingTimer
    BY <1>1 DEF Quiet, SettingTimer, EnqueueDelay, Waiting, Elements
  <1>2. ASSUME NEW e \in Event, EnqueueDirect(e)
        PROVE  /\ Elements(priority) \cup Elements(standard) \cup {e}
                     \subseteq Elements(priority') \cup Elements(standard')
    <2>1. CASE priority' = Append(priority, e) /\ UNCHANGED standard
      BY <1>0, <2>1, AppendElements
    <2>2. CASE standard' = Append(standard, e) /\ UNCHANGED priority
      BY <1>0, <2>2, AppendElements
    <2> QED
      BY <1>2, <2>1, <2>2, EnqueueDirectCases
  <1>3. CASE Joining
    <2>1. PICK e \in Event :
             \/ pending' = Append(pending, e) /\ UNCHANGED <<priority, standard>>
             \/ EnqueueDirect(e) /\ UNCHANGED pending
      BY <1>3 DEF Joining
    <2>2. CASE pending' = Append(pending, e) /\ UNCHANGED <<priority, standard>>
      BY <1>0, <2>2, AppendElements DEF Waiting
    <2>3. CASE EnqueueDirect(e) /\ UNCHANGED pending
      BY <1>2, <2>3 DEF Waiting
    <2> QED
      BY <2>1, <2>2, <2>3
  <1>4. CASE Selecting
    <2>1. CASE /\ priority # <<>> /\ hand' = Head(priority) /\ priority' = Tail(priority)
               /\ UNCHANGED <<standard, pending>>
      BY <1>0, <2>1, HeadAndTail DEF Waiting
    <2>2. CASE /\ standard # <<>> /\ hand' = Head(standard) /\ standard' = Tail(standard)
               /\ UNCHANGED <<priority, pending>>
      BY <1>0, <2>2, HeadAndTail DEF Waiting
    <2> QED
      BY <1>4, <2>1, <2>2 DEF Selecting
  <1>5. CASE Flushing
    <2>1. /\ Head(pending) \in Event
          /\ Elements(pending) = {Head(pending)} \cup Elements(pending')
      BY <1>0, <1>5, HeadAndTail DEF Flushing
    <2> QED
      BY <1>2, <1>5, <2>1 DEF Flushing, Waiting
  <1> QED
    BY <1>1, <1>3, <1>4, <1>5, StepShape

\* Elsewhere only the calls of the context touch the heap.
LEMMA OnlyCallsRemove ==
    ASSUME [OpenNext]_vars, pc \notin {"tick", "tickMore"}, delay' # delay
    PROVE  pc' = pc
  <1>1. CASE AnyCall
    BY <1>1 DEF AnyCall
  <1>2. CASE Unwind \/ Abandon
    BY <1>2 DEF Unwind, Abandon, queueVars
  <1>3. CASE Loop \/ Start
    BY <1>3 DEF Loop, Start, TickDelayQueue, TickDone, TickReported, SelectPriority,
                SelectStandard, Halt, NextEvent, queueVars
  <1>4. CASE Process
    BY <1>4 DEF Process, ProcessCreation, RunBirthAction, NoBirthAction, ProcessDeletion,
                UnknownTarget, ReceiveEvent, LookupTransition, PassUnguarded, EvaluateGuard,
                GuardError, GuardReported, NoEntryPasses, TakeEntry, ActionReturns,
                ActionReported, FireTransition, StayInState, CompleteTransition,
                FlushPending, FlushDone, queueVars
  <1> QED
    BY <1>1, <1>2, <1>3, <1>4 DEF OpenNext, Engine, vars

\* An event that expires is waiting in a queue afterwards, and was not before.
LEMMA ExpiredWaits ==
    ASSUME TypeInv, QueueInv, NEW x \in delay, EnqueueDirect([x.ev EXCEPT !.stamp = nextStamp])
    PROVE  \E e \in Waiting' \ Waiting : SameTriple(e, x.ev)
  <1> DEFINE e == [x.ev EXCEPT !.stamp = nextStamp]
  <1>1. e \in Event /\ e.stamp = nextStamp /\ SameTriple(e, x.ev)
    BY DEF TypeInv, TypeOK, DelayEntry, Event, SameTriple
  <1> HIDE DEF e
  <1>2. e \notin Waiting
    BY <1>1 DEF QueueInv, TypeInv, TypeOK
  <1>3. e \in Waiting'
    <2>1. EnqueueDirect(e)
      BY DEF e
    <2>2. CASE priority' = Append(priority, e)
      BY <1>1, <2>2, AppendElements DEF TypeInv, TypeOK, Waiting
    <2>3. CASE standard' = Append(standard, e)
      BY <1>1, <2>3, AppendElements DEF TypeInv, TypeOK, Waiting
    <2> QED
      BY <1>1, <2>1, <2>2, <2>3, EnqueueDirectCases
  <1> QED
    BY <1>1, <1>2, <1>3

LEMMA NoEventIsLostOpen == OpenSpec => NothingLost
  <1> DEFINE Kept == Waiting \subseteq Waiting' \cup {hand'}
             Moved(x) == \/ \E e \in Waiting' \ Waiting : SameTriple(e, x.ev)
                         \/ pc = pc' /\ pc \notin {"tick", "tickMore"}
  <1>1. ASSUME TypeInv, BufferInv, QueueInv, [OpenNext]_vars
        PROVE  Kept
    BY <1>1, StepKeepsWaiting
  <1>2. ASSUME TypeInv, BufferInv, QueueInv, [OpenNext]_vars, NEW x \in delay \ delay'
        PROVE  Moved(x)
    <2>1. CASE pc \in {"tick", "tickMore"}
      BY <1>2, <2>1, TickTakesLeast, ExpiredWaits
    <2>2. CASE pc \notin {"tick", "tickMore"}
      BY <1>2, <2>2, OnlyCallsRemove
    <2> QED
      BY <2>1, <2>2
  <1>3. TypeInv /\ BufferInv /\ QueueInv /\ [OpenNext]_vars
        => [Kept /\ \A x \in delay \ delay' : Moved(x)]_vars
    BY <1>1, <1>2
  <1> QED
    BY <1>3, TypeInvariant, BufferInvariant, QueueInvariant, PTL DEF OpenSpec, NothingLost

\* Nothing is lost, on any path through the engine, exceptions included.
THEOREM NoEventIsLost == Spec => NothingLost
  BY NoEventIsLostOpen, SpecIsOpen, PTL

-----------------------------------------------------------------------------
(* What the pump sees of the queues and the buffer *)

LEMMA FilteredType ==
    ASSUME NEW s \in Seq(Event)
    PROVE  /\ Filtered(s, UrgentEvent) \in Seq(Event)
           /\ Filtered(s, OrdinaryEvent) \in Seq(Event)
  <1>1. /\ Filtered(s, UrgentEvent) \in Seq(Event \cap UrgentEvent)
        /\ Filtered(s, OrdinaryEvent) \in Seq(Event \cap OrdinaryEvent)
    BY FilteredIsSeq
  <1> QED
    BY <1>1

\* An event that is appended to its line is in it.
LEMMA JoinsIsPost ==
    ASSUME TypeOK, TypeOK', NEW e \in Event, Pump!Joins(e)
    PROVE  e \in Pump!Members(UrgentLine)' \cup Pump!Members(OrdinaryLine)'
  <1>1. UrgentLine \in Seq(Event) /\ OrdinaryLine \in Seq(Event)
    BY FilteredType DEF TypeOK, UrgentLine, OrdinaryLine
  <1>2. ASSUME NEW s \in Seq(Event)
        PROVE  e \in Pump!Members(Append(s, e))
    <2>1. Len(s) + 1 \in DOMAIN Append(s, e) /\ Append(s, e)[Len(s) + 1] = e
      OBVIOUS
    <2> QED
      BY <2>1 DEF Pump!Members
  <1>3. \/ UrgentLine' = Append(UrgentLine, e)
        \/ OrdinaryLine' = Append(OrdinaryLine, e)
    BY DEF Pump!Joins
  <1> QED
    BY <1>1, <1>2, <1>3 DEF Pump!Members

\* An event that is put in the buffer joins its line.
LEMMA BufferedJoins ==
    ASSUME TypeOK, NEW e \in Event,
           pending' = Append(pending, e), UNCHANGED <<priority, standard>>
    PROVE  Pump!Joins(e)
  <1>0. /\ priority \in Seq(Event) /\ standard \in Seq(Event) /\ pending \in Seq(Event)
        /\ Filtered(pending, UrgentEvent) \in Seq(Event)
        /\ Filtered(pending, OrdinaryEvent) \in Seq(Event)
    BY FilteredType DEF TypeOK
  <1>1. /\ Filtered(Append(pending, e), UrgentEvent)
              = WithOne(Filtered(pending, UrgentEvent), e, UrgentEvent)
        /\ Filtered(Append(pending, e), OrdinaryEvent)
              = WithOne(Filtered(pending, OrdinaryEvent), e, OrdinaryEvent)
    BY <1>0, FilteredAppend
  <1>2. ASSUME NEW s \in Seq(Event), NEW t \in Seq(Event)
        PROVE  s \o Append(t, e) = Append(s \o t, e)
    OBVIOUS
  <1>3. /\ UrgentLine' = priority \o Filtered(Append(pending, e), UrgentEvent)
        /\ OrdinaryLine' = standard \o Filtered(Append(pending, e), OrdinaryEvent)
    BY DEF UrgentLine, OrdinaryLine
  <1>4. CASE IsUrgent(e)
    <2>1. e \in UrgentEvent /\ e \notin OrdinaryEvent /\ Pump!Urgent(e)
      BY <1>4 DEF UrgentEvent, OrdinaryEvent, IsUrgent, SelfDirected, Pump!Urgent
    <2>2. UrgentLine' = Append(UrgentLine, e)
      BY <1>0, <1>1, <1>2, <1>3, <2>1 DEF WithOne, UrgentLine
    <2>3. UNCHANGED OrdinaryLine
      BY <1>1, <1>3, <2>1 DEF WithOne, OrdinaryLine
    <2> QED
      BY <2>1, <2>2, <2>3 DEF Pump!Joins
  <1>5. CASE ~IsUrgent(e)
    <2>1. e \notin UrgentEvent /\ e \in OrdinaryEvent /\ ~Pump!Urgent(e)
      BY <1>5 DEF UrgentEvent, OrdinaryEvent, IsUrgent, SelfDirected, Pump!Urgent
    <2>2. OrdinaryLine' = Append(OrdinaryLine, e)
      BY <1>0, <1>1, <1>2, <1>3, <2>1 DEF WithOne, OrdinaryLine
    <2>3. UNCHANGED UrgentLine
      BY <1>1, <1>3, <2>1 DEF WithOne, UrgentLine
    <2> QED
      BY <2>1, <2>2, <2>3 DEF Pump!Joins
  <1> QED
    BY <1>4, <1>5

\* Nothing in the buffer: the lines are the queues.
LEMMA LinesAreQueues ==
    ASSUME NEW s \in Seq(Event)
    PROVE  /\ s \o Filtered(<<>>, UrgentEvent) = s
           /\ s \o Filtered(<<>>, OrdinaryEvent) = s
  <1>1. Filtered(<<>>, UrgentEvent) = <<>> /\ Filtered(<<>>, OrdinaryEvent) = <<>>
    BY FilteredEmpty
  <1> QED
    BY <1>1

\* An event that bypasses the empty buffer joins its line.
LEMMA DirectJoins ==
    ASSUME TypeOK, TypeOK', NEW e \in Event, pending = <<>>, UNCHANGED pending, EnqueueDirect(e)
    PROVE  Pump!Joins(e)
  <1>1. UrgentLine = priority /\ OrdinaryLine = standard
    BY LinesAreQueues DEF TypeOK, UrgentLine, OrdinaryLine
  <1>2. UrgentLine' = priority' /\ OrdinaryLine' = standard'
    BY LinesAreQueues DEF TypeOK, UrgentLine, OrdinaryLine
  <1> QED
    BY <1>1, <1>2, EnqueueDirectCases DEF Pump!Joins, Pump!Urgent, IsUrgent, SelfDirected

\* Flushing the first event of the buffer into its queue shows nothing.
LEMMA FlushKeepsLines ==
    ASSUME TypeOK, pending # <<>>, EnqueueDirect(Head(pending)), pending' = Tail(pending)
    PROVE  UNCHANGED <<UrgentLine, OrdinaryLine>>
  <1> DEFINE e == Head(pending)
             u == Filtered(Tail(pending), UrgentEvent)
             o == Filtered(Tail(pending), OrdinaryEvent)
  <1>0. /\ priority \in Seq(Event) /\ standard \in Seq(Event) /\ pending \in Seq(Event)
        /\ e \in Event /\ u \in Seq(Event) /\ o \in Seq(Event)
    <2>1. e \in Event /\ Tail(pending) \in Seq(Event)
      BY DEF TypeOK
    <2> QED
      BY <2>1, FilteredType DEF TypeOK
  <1>1. /\ Filtered(pending, UrgentEvent) = IF e \in UrgentEvent THEN <<e>> \o u ELSE u
        /\ Filtered(pending, OrdinaryEvent) = IF e \in OrdinaryEvent THEN <<e>> \o o ELSE o
    BY <1>0, FilteredHead
  <1>2. UrgentLine' = priority' \o u /\ OrdinaryLine' = standard' \o o
    BY DEF UrgentLine, OrdinaryLine
  <1> HIDE DEF e, u, o
  <1>3. ASSUME NEW s \in Seq(Event), NEW t \in Seq(Event)
        PROVE  Append(s, e) \o t = s \o (<<e>> \o t)
    BY <1>0, SMTT(30)
  <1>4. CASE IsUrgent(e) /\ priority' = Append(priority, e) /\ UNCHANGED standard
    <2>1. e \in UrgentEvent /\ e \notin OrdinaryEvent
      BY <1>0, <1>4 DEF UrgentEvent, OrdinaryEvent
    <2> QED
      BY <1>0, <1>1, <1>2, <1>3, <1>4, <2>1 DEF UrgentLine, OrdinaryLine
  <1>5. CASE ~IsUrgent(e) /\ standard' = Append(standard, e) /\ UNCHANGED priority
    <2>1. e \notin UrgentEvent /\ e \in OrdinaryEvent
      BY <1>0, <1>5 DEF UrgentEvent, OrdinaryEvent
    <2> QED
      BY <1>0, <1>1, <1>2, <1>3, <1>5, <2>1 DEF UrgentLine, OrdinaryLine
  <1> QED
    BY <1>0, <1>4, <1>5, EnqueueDirectCases DEF e

-----------------------------------------------------------------------------
(* The steps of the scheduler, as the pump sees them *)

\* The queues and the timers stay, the event in hand may be done.
LEMMA QuietIsFinish ==
    ASSUME UNCHANGED <<priority, standard, pending, delay, now>>, hand' \in {hand, NoEvent}
    PROVE  [Pump!PumpNext]_(Pump!pumpVars)
  <1>1. UNCHANGED <<UrgentLine, OrdinaryLine, delay, now>>
    BY DEF UrgentLine, OrdinaryLine
  <1>2. CASE hand' = hand
    BY <1>1, <1>2 DEF Pump!pumpVars
  <1>3. CASE hand # NoEvent /\ hand' = NoEvent
    BY <1>1, <1>3 DEF Pump!Finish, Pump!PumpNext
  <1> QED
    BY <1>2, <1>3

LEMMA EnqueueNowIsPost ==
    ASSUME TypeInv, BufferInv, TypeOK', NEW e \in Event, EnqueueNow(e), pc # "flush",
           UNCHANGED <<now, hand>>
    PROVE  Pump!Post
  <1>1. Pump!Joins(e)
    <2>1. inFlight = NoEvent => pending = <<>>
      BY NoEventAssumption DEF BufferInv, TypeInv, FrameOK, Holding
    <2>2. CASE pending' = Append(pending, e) /\ UNCHANGED <<priority, standard>>
      BY <2>2, BufferedJoins DEF TypeInv
    <2>3. CASE inFlight = NoEvent /\ EnqueueDirect(e) /\ UNCHANGED pending
      BY <2>1, <2>3, DirectJoins DEF TypeInv
    <2> QED
      BY <2>2, <2>3 DEF EnqueueNow
  <1>2. e \in Pump!Members(UrgentLine)' \cup Pump!Members(OrdinaryLine)'
    BY <1>1, JoinsIsPost DEF TypeInv
  <1> QED
    BY <1>1, <1>2 DEF Pump!Post, EnqueueNow

\* A timer is set in the future, and replaces the one of its triple.
LEMMA EnqueueDelayIsSetTimer ==
    ASSUME TypeInv, NEW e \in Event, NEW d \in Nat, d > 0, EnqueueDelay(e, d),
           UNCHANGED <<now, hand>>
    PROVE  Pump!SetTimer
  <1> DEFINE t == [expiry |-> now + d, seq |-> seq, ev |-> [e EXCEPT !.stamp = 0]]
  <1>1. UNCHANGED <<UrgentLine, OrdinaryLine, now, hand>>
    BY DEF EnqueueDelay, UrgentLine, OrdinaryLine
  <1>2. /\ t.ev.type = e.type /\ t.ev.sender = e.sender /\ t.ev.target = e.target
        /\ t.expiry > now
    <2>1. now \in Nat /\ t.expiry = now + d /\ t.ev = [e EXCEPT !.stamp = 0]
      BY DEF TypeInv, TypeOK
    <2> HIDE DEF t
    <2>2. [e EXCEPT !.stamp = 0].type = e.type /\ [e EXCEPT !.stamp = 0].sender = e.sender
          /\ [e EXCEPT !.stamp = 0].target = e.target
      BY DEF Event
    <2>3. now + d > now
      BY <2>1
    <2> QED
      BY <2>1, <2>2, <2>3
  <1>3. delay' = {x \in delay : ~SameTriple(x.ev, e)} \cup {t}
    BY DEF EnqueueDelay
  <1> HIDE DEF t
  <1>4. {x \in delay : ~SameTriple(x.ev, e)} = {x \in delay : ~Pump!Same(x.ev, t.ev)}
    BY <1>2 DEF SameTriple, Pump!Same
  <1> QED
    BY <1>1, <1>2, <1>3, <1>4 DEF Pump!SetTimer

LEMMA AnyCallPumps ==
    ASSUME TypeInv, BufferInv, TypeOK', AnyCall
    PROVE  [Pump!PumpNext]_(Pump!pumpVars)
  <1>0. pc # "flush" /\ UNCHANGED hand
    BY DEF AnyCall, AtYield, frameVars
  <1>1. ASSUME NEW type \in Signal, NEW s \in Addr, NEW t \in Addr, NEW d \in Nat,
               Enqueue(NewEvent(type, s, t, Unset), d), UNCHANGED now
        PROVE  Pump!PumpNext
    <2> DEFINE e == NewEvent(type, s, t, Unset)
    <2>1. e \in Event
      BY SignalEvent
    <2>2. CASE EnqueueNow(e)
      BY <1>0, <1>1, <2>1, <2>2, EnqueueNowIsPost DEF Pump!PumpNext
    <2>3. CASE d > 0 /\ EnqueueDelay(e, d)
      BY <1>0, <1>1, <2>1, <2>3, EnqueueDelayIsSetTimer DEF Pump!PumpNext
    <2> QED
      BY <1>1, <2>2, <2>3 DEF Enqueue
  <1>2. ASSUME NEW type \in Lifecycle, NEW a \in Addr, NEW i \in StateOrNone,
               EnqueueNow(NewEvent(type, a, a, i)), UNCHANGED now
        PROVE  Pump!PumpNext
    <2>1. NewEvent(type, a, a, i) \in Event
      BY LifecycleEvent
    <2> QED
      BY <1>0, <1>2, <2>1, EnqueueNowIsPost DEF Pump!PumpNext
  <1>3. CASE /\ \E x \in delay : delay' = delay \ {x}
             /\ UNCHANGED <<priority, standard, seq, pending, inFlight, registry, now, nextStamp>>
    <2>1. UNCHANGED <<UrgentLine, OrdinaryLine, now, hand>>
      BY <1>0, <1>3 DEF UrgentLine, OrdinaryLine
    <2> QED
      BY <1>3, <2>1 DEF Pump!ClearTimer, Pump!PumpNext
  <1>4. CASE UNCHANGED <<queueVars, now>>
    BY <1>0, <1>4, QuietIsFinish DEF queueVars
  <1>5. CASE (\E d \in Nat : now' = now + d) /\ UNCHANGED queueVars
    <2>1. PICK d \in Nat : now' = now + d
      BY <1>5
    <2>2. CASE d = 0
      BY <1>4, <1>5, <2>1, <2>2 DEF TypeInv, TypeOK
    <2>3. CASE d > 0
      <3>1. UNCHANGED <<UrgentLine, OrdinaryLine, delay, hand>> /\ now' > now
        BY <1>0, <1>5, <2>1, <2>3 DEF queueVars, UrgentLine, OrdinaryLine, TypeInv, TypeOK
      <3> QED
        BY <3>1 DEF Pump!PassTime, Pump!PumpNext
    <2> QED
      BY <2>2, <2>3
  <1> QED
    BY <1>1, <1>2, <1>3, <1>4, <1>5 DEF AnyCall

\* Between two events the generator moves what has expired, earliest first.
LEMMA TickIsGoOff ==
    ASSUME TypeInv, BufferInv, TypeOK', TickDelayQueue
    PROVE  Pump!GoOff
  <1>1. PICK x \in delay :
           /\ x.expiry <= now
           /\ \A y \in delay \ {x} : Earlier(x, y)
           /\ delay' = delay \ {x}
           /\ EnqueueDirect([x.ev EXCEPT !.stamp = nextStamp])
    BY DEF TickDelayQueue
  <1> DEFINE e == [x.ev EXCEPT !.stamp = nextStamp]
  <1>2. e \in Event /\ Pump!Same(e, x.ev)
    BY DEF TypeInv, TypeOK, DelayEntry, Event, Pump!Same
  <1>3. hand = NoEvent /\ pending = <<>> /\ UNCHANGED <<pending, hand, now>>
    BY DEF TickDelayQueue, TypeInv, FrameOK, Outside, BufferInv, Handling, frameVars
  <1>4. Pump!Joins(e)
    BY <1>1, <1>2, <1>3, DirectJoins DEF TypeInv
  <1>5. e \in Pump!Members(UrgentLine)' \cup Pump!Members(OrdinaryLine)'
    BY <1>2, <1>4, JoinsIsPost DEF TypeInv
  <1>6. \A y \in delay : y.expiry >= x.expiry
    <2>1. x.expiry \in Nat /\ \A y \in delay : y.expiry \in Nat
      BY DEF TypeInv, TypeOK, DelayEntry
    <2>2. \A y \in delay : y = x \/ Earlier(x, y)
      BY <1>1
    <2> QED
      BY <2>1, <2>2 DEF Earlier
  <1> QED
    BY <1>1, <1>2, <1>3, <1>4, <1>5, <1>6 DEF Pump!GoOff

LEMMA SelectIsDeliver ==
    ASSUME TypeInv, BufferInv, SelectPriority \/ SelectStandard
    PROVE  Pump!Deliver
  <1>1. hand = NoEvent /\ pending = <<>>
    BY DEF SelectPriority, SelectStandard, TypeInv, FrameOK, Outside, BufferInv, Handling
  <1>2. priority \in Seq(Event) /\ standard \in Seq(Event) /\ UrgentLine = priority
        /\ OrdinaryLine = standard
    BY <1>1, LinesAreQueues DEF TypeInv, TypeOK, UrgentLine, OrdinaryLine
  <1>3. CASE SelectPriority
    <2>1. Tail(priority) \in Seq(Event)
      BY <1>2, <1>3 DEF SelectPriority
    <2>2. UrgentLine' = Tail(priority) /\ OrdinaryLine' = standard
      BY <1>1, <1>2, <1>3, <2>1, LinesAreQueues DEF SelectPriority, UrgentLine, OrdinaryLine
    <2> QED
      BY <1>1, <1>2, <1>3, <2>2 DEF SelectPriority, Pump!Deliver
  <1>4. CASE SelectStandard
    <2>1. Tail(standard) \in Seq(Event)
      BY <1>2, <1>4 DEF SelectStandard
    <2>2. UrgentLine' = priority /\ OrdinaryLine' = Tail(standard)
      BY <1>1, <1>2, <1>4, <2>1, LinesAreQueues DEF SelectStandard, UrgentLine, OrdinaryLine
    <2> QED
      BY <1>1, <1>2, <1>4, <2>2 DEF SelectStandard, Pump!Deliver
  <1> QED
    BY <1>3, <1>4

LEMMA CompletionPumps ==
    ASSUME TypeInv, CompleteTransition, TypeOK'
    PROVE  [Pump!PumpNext]_(Pump!pumpVars)
  <1>1. UNCHANGED <<priority, standard, delay, now, hand>>
    BY DEF CompleteTransition, frameVars
  <1>2. CASE UNCHANGED pending
    BY <1>1, <1>2, QuietIsFinish
  <1>3. CASE pending' = Append(pending, NewEvent("__deletion__", conc, conc, Unset))
    <2> DEFINE e == NewEvent("__deletion__", conc, conc, Unset)
    <2>1. e \in Event
      <3>1. conc \in Addr
        BY DEF CompleteTransition, TypeInv, FrameOK, Handling
      <3> QED
        BY <3>1, LifecycleEvent DEF StateOrNone, Lifecycle
    <2>2. Pump!Joins(e)
      BY <1>1, <1>3, <2>1, BufferedJoins DEF TypeInv
    <2> HIDE DEF e
    <2>3. e \in Pump!Members(UrgentLine)' \cup Pump!Members(OrdinaryLine)'
      BY <2>1, <2>2, JoinsIsPost DEF TypeInv
    <2> QED
      BY <1>1, <2>2, <2>3 DEF Pump!Post, Pump!PumpNext
  <1> QED
    BY <1>2, <1>3 DEF CompleteTransition

LEMMA StepPumps ==
    ASSUME TypeInv, BufferInv, TypeOK', [OpenNext]_vars
    PROVE  [Pump!PumpNext]_(Pump!pumpVars)
  <1>1. CASE AnyCall
    BY <1>1, AnyCallPumps
  <1>2. CASE TickDelayQueue
    BY <1>2, TickIsGoOff DEF Pump!PumpNext
  <1>3. CASE SelectPriority \/ SelectStandard
    BY <1>3, SelectIsDeliver DEF Pump!PumpNext
  <1>4. CASE CompleteTransition
    BY <1>4, CompletionPumps
  <1>5. CASE FlushPending
    <2>1. UNCHANGED <<UrgentLine, OrdinaryLine, delay, now, hand>>
      BY <1>5, FlushKeepsLines DEF FlushPending, TypeInv, frameVars
    <2> QED
      BY <2>1 DEF Pump!pumpVars
  <1>6. CASE Start \/ TickDone \/ TickReported \/ Halt \/ NextEvent
    BY <1>6, QuietIsFinish DEF Start, TickDone, TickReported, Halt, NextEvent, EmptyFrame,
                queueVars, frameVars
  <1>7. CASE ProcessCreation \/ RunBirthAction \/ NoBirthAction \/ ProcessDeletion
    BY <1>7, QuietIsFinish DEF ProcessCreation, RunBirthAction, NoBirthAction,
                ProcessDeletion, EmptyFrame, queueVars, frameVars
  <1>8. CASE \/ UnknownTarget \/ ReceiveEvent \/ LookupTransition \/ PassUnguarded
             \/ (\E holds \in BOOLEAN : EvaluateGuard(holds))
             \/ GuardError \/ GuardReported \/ NoEntryPasses \/ TakeEntry
    BY <1>8, QuietIsFinish DEF UnknownTarget, ReceiveEvent, LookupTransition, PassUnguarded,
                EvaluateGuard, GuardError, GuardReported, NoEntryPasses, TakeEntry,
                EmptyFrame, queueVars, frameVars
  <1>9. CASE \/ ActionReturns \/ ActionReported \/ FireTransition \/ StayInState \/ FlushDone
             \/ Unwind \/ Abandon \/ UNCHANGED vars
    BY <1>9, QuietIsFinish DEF ActionReturns, ActionReported, FireTransition, StayInState,
                FlushDone, Unwind, Abandon, BeginFlush, EmptyFrame, queueVars, frameVars, vars
  <1> QED
    BY <1>1, <1>2, <1>3, <1>4, <1>5, <1>6, <1>7, <1>8, <1>9 DEF OpenNext, Engine, Loop, Process

LEMMA SchedulerImplementsPumpOpen == OpenSpec => RefinesPump
  <1>1. Init => Pump!PumpInit
    <2> SUFFICES ASSUME Init PROVE Pump!PumpInit
      OBVIOUS
    <2>1. UrgentLine = <<>> /\ OrdinaryLine = <<>>
      <3>1. priority = <<>> /\ standard = <<>> /\ pending = <<>> /\ priority \in Seq(Event)
        BY DEF Init
      <3> QED
        BY <3>1, LinesAreQueues DEF UrgentLine, OrdinaryLine
    <2> QED
      BY <2>1 DEF Init, Pump!PumpInit
  <1>2. TypeInv /\ BufferInv /\ TypeInv' /\ [OpenNext]_vars => [Pump!PumpNext]_(Pump!pumpVars)
    BY StepPumps DEF TypeInv
  <1> QED
    BY <1>1, <1>2, TypeInvariant, BufferInvariant, PTL DEF OpenSpec, RefinesPump, Pump!PumpSpec

\* The scheduler dispatches what a pump without a run-to-completion buffer
\* would dispatch, in the same order, also when an action raises or the caller
\* drops the generator (scheduler.py:135-166, 248-331, 480-486).
THEOREM SchedulerImplementsPump == Spec => RefinesPump
  BY SchedulerImplementsPumpOpen, SpecIsOpen, PTL
=============================================================================
