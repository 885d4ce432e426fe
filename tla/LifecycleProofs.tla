-------------------------- MODULE LifecycleProofs --------------------------
(***************************************************************************)
(* Proofs about births and deaths that travel as events (registry.py,      *)
(* scheduler.py): as long as nobody drops the generator and no action      *)
(* raises, an instance without a state gets one, and an instance in a      *)
(* final state is deleted, whatever else is created and deleted meanwhile. *)
(* And about the state that was read: it stays the instance's state until  *)
(* the transition, unless a call creates or deletes that instance.         *)
(***************************************************************************)
EXTENDS QueueProofs

\* The event still has its effect before it: it waits, or it was selected and
\* is not processed yet.
Ahead == Waiting \cup (IF pc = "selected" THEN {hand} ELSE {})

Awaited(type, a) == \E e \in Ahead : e.type = type /\ e.target = a

\* The event in hand is the one that is awaited, and is processed in this step.
Served(type, a) ==
    pc = "selected" /\ pc' # "selected" /\ hand.type = type /\ hand.target = a

-----------------------------------------------------------------------------
(* What is awaited *)

\* An event leaves a queue only to be selected; while it is selected, the
\* callers at the yield leave it alone.
LEMMA SelectedStays ==
    ASSUME TypeInv, [Next]_vars
    PROVE  /\ hand' \in {hand, NoEvent} \/ pc' = "selected"
           /\ pc = "selected" /\ pc' = "selected" => hand' = hand
  <1>1. CASE ContextCall
    BY <1>1 DEF ContextCall, Generate, Cancel, CreateSync, CreateAsync, DeleteSync, DeleteAsync,
                AdvanceClock, frameVars
  <1>2. CASE Loop \/ Start
    BY <1>2 DEF Loop, Start, TickDelayQueue, TickDone, TickReported, SelectPriority,
                SelectStandard, Halt, NextEvent, EmptyFrame, frameVars
  <1>3. CASE Process
    BY <1>3 DEF Process, ProcessCreation, RunBirthAction, NoBirthAction, ProcessDeletion,
                UnknownTarget, ReceiveEvent, LookupTransition, PassUnguarded, EvaluateGuard,
                GuardError, GuardReported, NoEntryPasses, TakeEntry, ActionReturns,
                ActionReported, FireTransition, StayInState, CompleteTransition,
                FlushPending, FlushDone, BeginFlush, EmptyFrame, frameVars
  <1>4. CASE Unwind \/ Abandon
    BY <1>4 DEF Unwind, Abandon, BeginFlush, EmptyFrame
  <1>5. CASE UNCHANGED vars
    BY <1>5 DEF vars
  <1> QED
    BY <1>1, <1>2, <1>3, <1>4, <1>5 DEF Next, Engine

LEMMA StepAwaits ==
    ASSUME TypeInv, BufferInv, QueueInv, [Next]_vars,
           NEW type, NEW a, Awaited(type, a), ~Served(type, a)
    PROVE  Awaited(type, a)'
  <1>1. PICK e \in Ahead : e.type = type /\ e.target = a
    BY DEF Awaited
  <1>2. CASE e \in Waiting
    <2>1. e \in Event /\ e # hand
      BY <1>2, ElementsType, NoEventAssumption DEF QueueInv, Waiting, TypeInv, TypeOK
    <2>2. e \in Waiting' \/ e = hand'
      BY <1>2, StepKeepsWaiting, NextIsOpen
    <2>3. e = hand' => pc' = "selected"
      BY <2>1, SelectedStays, NoEventAssumption
    <2> QED
      BY <1>1, <2>2, <2>3 DEF Awaited, Ahead
  <1>3. CASE pc = "selected" /\ e = hand
    BY <1>1, <1>3, SelectedStays DEF Awaited, Ahead, Served
  <1> QED
    BY <1>2, <1>3 DEF Ahead

\* What is posted is awaited.
LEMMA PostedIsAhead ==
    ASSUME TypeInv, NEW e \in Event, EnqueueNow(e)
    PROVE  e \in Waiting' /\ Waiting' \subseteq Waiting \cup {e}
  <1>0. priority \in Seq(Event) /\ standard \in Seq(Event) /\ pending \in Seq(Event)
    BY DEF TypeInv, TypeOK
  <1>1. CASE pending' = Append(pending, e) /\ UNCHANGED <<priority, standard>>
    BY <1>0, <1>1, AppendElements DEF Waiting
  <1>2. CASE priority' = Append(priority, e) /\ UNCHANGED <<standard, pending>>
    BY <1>0, <1>2, AppendElements DEF Waiting
  <1>3. CASE standard' = Append(standard, e) /\ UNCHANGED <<priority, pending>>
    BY <1>0, <1>3, AppendElements DEF Waiting
  <1> QED
    BY <1>1, <1>2, <1>3 DEF EnqueueNow, EnqueueDirect

\* Without an end before its time, a lifecycle event in hand is processed by
\* the function for its type.
LEMMA SelectedEnds ==
    ASSUME ~MayAbort, TypeInv, [Next]_vars, pc = "selected", pc' # "selected"
    PROVE  /\ hand.type = "__creation__" => ProcessCreation
           /\ hand.type = "__deletion__" => ProcessDeletion
  <1>1. CASE ContextCall
    BY <1>1 DEF ContextCall, Generate, Cancel, CreateSync, CreateAsync, DeleteSync, DeleteAsync,
                AdvanceClock
  <1>2. CASE Loop \/ Start \/ Unwind \/ Abandon \/ UNCHANGED vars
    BY <1>2 DEF Loop, Start, TickDelayQueue, TickDone, TickReported, SelectPriority,
                SelectStandard, Halt, NextEvent, Unwind, Abandon, vars
  <1>3. CASE UnknownTarget \/ ReceiveEvent
    BY <1>3, SignalAssumption DEF UnknownTarget, ReceiveEvent, Lifecycle
  <1>4. CASE ProcessCreation \/ ProcessDeletion
    BY <1>4 DEF ProcessCreation, ProcessDeletion
  <1>5. CASE Process
    BY <1>3, <1>4, <1>5
       DEF Process, RunBirthAction, NoBirthAction, LookupTransition, PassUnguarded, EvaluateGuard,
           GuardError, GuardReported, NoEntryPasses, TakeEntry, ActionReturns, ActionReported,
           FireTransition, StayInState, CompleteTransition, FlushPending, FlushDone
  <1> QED
    BY <1>1, <1>2, <1>5 DEF Next, Engine

-----------------------------------------------------------------------------
(* What changes the state of an instance *)

LEMMA RegistryStep ==
    ASSUME [Next]_vars, registry' # registry
    PROVE  \/ \E a \in Addr, s \in BirthStates : CreateSync(a, s)
           \/ \E a \in Addr, s \in BirthStates \cup {Unset} : CreateAsync(a, s)
           \/ \E a \in Addr : DeleteSync(a)
           \/ ProcessCreation \/ ProcessDeletion \/ FireTransition
  <1>1. CASE ContextCall
    BY <1>1 DEF ContextCall, Generate, Cancel, DeleteAsync, AdvanceClock
  <1>2. CASE Loop \/ Start \/ Unwind \/ Abandon \/ UNCHANGED vars
    BY <1>2 DEF Loop, Start, TickDelayQueue, TickDone, TickReported, SelectPriority,
                SelectStandard, Halt, NextEvent, Unwind, Abandon, vars
  <1>3. CASE Process
    BY <1>3 DEF Process, RunBirthAction, NoBirthAction, UnknownTarget, ReceiveEvent,
           LookupTransition, PassUnguarded, EvaluateGuard, GuardError, GuardReported,
           NoEntryPasses, TakeEntry, ActionReturns, ActionReported, StayInState,
           CompleteTransition, FlushPending, FlushDone
  <1> QED
    BY <1>1, <1>2, <1>3 DEF Next, Engine

-----------------------------------------------------------------------------
(* Births *)

\* UnsetHasCreation without the event that is being processed: a birth action
\* and the callers at its yields may create the same instance again.
BirthInv ==
    \A a \in Addr :
        registry[a] = Unset /\ Initial[a[1]] # Unset => Awaited("__creation__", a)

\* set_state() by a creation leaves its target with a state, or absent.
LEMMA CreationSets ==
    ASSUME TypeInv, ProcessCreation, Initial[hand.target[1]] # Unset
    PROVE  registry'[hand.target] # Unset
  <1>1. hand.target \in Addr /\ registry \in [Addr -> StateOrNone \cup {Absent}]
    BY DEF ProcessCreation, TypeInv, TypeOK, FrameOK, Holding, Event
  <1>2. BirthState(hand) # Unset
    BY DEF BirthState
  <1> QED
    BY <1>1, <1>2, StateAssumption DEF ProcessCreation, SetState, Live

LEMMA StepBirth ==
    ASSUME ~MayAbort, TypeInv, BufferInv, QueueInv, BirthInv, [Next]_vars
    PROVE  BirthInv'
  <1> SUFFICES ASSUME NEW a \in Addr, registry'[a] = Unset, Initial[a[1]] # Unset
               PROVE  Awaited("__creation__", a)'
    BY DEF BirthInv, Awaited
  <1>0. registry \in [Addr -> StateOrNone \cup {Absent}]
    BY DEF TypeInv, TypeOK
  <1>1. CASE registry[a] = Unset
    <2>1. Awaited("__creation__", a)
      BY <1>1 DEF BirthInv
    <2>2. ~Served("__creation__", a)
      BY SelectedEnds, CreationSets DEF Served
    <2> QED
      BY <2>1, <2>2, StepAwaits
  <1>2. CASE registry[a] # Unset
    <2>1. PICK b \in Addr, s \in BirthStates \cup {Unset} : CreateAsync(b, s) /\ b = a
      <3>1. CASE \E b \in Addr, s \in BirthStates : CreateSync(b, s)
        BY <1>0, <1>2, <3>1, BirthAssumption, StateAssumption DEF CreateSync
      <3>2. CASE (\E b \in Addr : DeleteSync(b)) \/ ProcessDeletion
        BY <1>0, <1>2, <3>2, StateAssumption DEF DeleteSync, ProcessDeletion
      <3>3. CASE ProcessCreation \/ FireTransition
        BY <1>0, <1>2, <3>3 DEF ProcessCreation, FireTransition, SetState
      <3>4. CASE \E b \in Addr, s \in BirthStates \cup {Unset} : CreateAsync(b, s)
        BY <1>0, <1>2, <3>4 DEF CreateAsync
      <3> QED
        BY <1>2, <3>1, <3>2, <3>3, <3>4, RegistryStep
    <2> DEFINE e == NewEvent("__creation__", a, a, s)
    <2>2. e \in Event /\ e.type = "__creation__" /\ e.target = a
      BY LifecycleEvent, BirthAssumption DEF StateOrNone, Lifecycle, NewEvent
    <2>3. e \in Waiting'
      BY <2>1, <2>2, PostedIsAhead DEF CreateAsync
    <2> QED
      BY <2>2, <2>3 DEF Awaited, Ahead
  <1> QED
    BY <1>1, <1>2

\* An instance that was created asynchronously has a state, or its creation
\* event is under way, in whatever order creations and deletions of it are
\* called and processed (registry.py:153, scheduler.py:513).
THEOREM UnsetAwaitsCreation == ~MayAbort /\ Spec => []UnsetHasCreation
  <1>1. Init => BirthInv
    BY CastAssumption, StateAssumption DEF Init, BirthInv
  <1>2. TypeInv /\ BufferInv /\ QueueInv /\ (~MayAbort /\ BirthInv) /\ [Next]_vars
        => (~MayAbort /\ BirthInv)'
    BY StepBirth
  <1>3. TypeInv /\ BirthInv => UnsetHasCreation
    BY NoEventAssumption
       DEF BirthInv, UnsetHasCreation, Awaited, Ahead, Underway, TypeInv, FrameOK, Holding
  <1> QED
    BY <1>1, <1>2, <1>3, SpecIsOpen, TypeInvariant, BufferInvariant, QueueInvariant, PTL DEF Spec

-----------------------------------------------------------------------------
(* Deaths *)

\* Nobody creates an instance in a final state, nor is one initial.
NotBornFinal == \A c \in Class : Final[c] \cap (BirthStates \cup {Initial[c]}) = {}

\* A creation event asks for a state that its caller may ask for.
BornInState ==
    \A e \in Waiting \cup ({hand} \ {NoEvent}) :
        e.type = "__creation__" => e.init \in BirthStates \cup {Unset}

\* FinalHasDeletion without the event that is being processed. Between the
\* transition and its completion, which posts the deletion, the instance may
\* be in a final state only if the entry says so: the callers at that yield
\* can replace it, but not by one in a final state.
DeathInv ==
    /\ \A a \in Addr :
          registry[a] \in Final[a[1]] /\ ~(pc = "fired" /\ conc = a)
          => Awaited("__deletion__", a)
    /\ pc = "fired" /\ registry[conc] \in Final[conc[1]]
          => Entries[chosen].next \in Final[conc[1]]
    /\ BornInState

\* All that the engine and its callers post, by type.
LEMMA PostedBirth ==
    ASSUME TypeInv, BornInState, NEW e \in Event, EnqueueNow(e), UNCHANGED hand,
           e.type = "__creation__" => e.init \in BirthStates \cup {Unset}
    PROVE  BornInState'
  BY PostedIsAhead DEF BornInState

LEMMA ContextCallBirths ==
    ASSUME TypeInv, BornInState, ContextCall
    PROVE  BornInState'
  <1>0. UNCHANGED hand
    BY DEF ContextCall, Generate, Cancel, CreateSync, CreateAsync, DeleteSync, DeleteAsync,
           AdvanceClock, frameVars
  <1>1. ASSUME NEW r \in Route, NEW d \in Delay, Generate(r[1], r[2], r[3], d)
        PROVE  BornInState'
    <2> DEFINE e == NewEvent(r[1], r[2], r[3], Unset)
    <2>1. e \in Event /\ e.type # "__creation__"
      BY NewEventType, RouteAssumption, SignalAssumption
         DEF NewEvent, TypeInv, TypeOK, EventType, StateOrNone, Lifecycle
    <2>2. CASE EnqueueNow(e)
      BY <1>0, <2>1, <2>2, PostedBirth
    <2>3. CASE UNCHANGED <<priority, standard, pending>>
      BY <1>0, <2>3 DEF BornInState, Waiting, Elements
    <2> QED
      BY <1>1, <2>2, <2>3 DEF Generate, Enqueue, EnqueueDelay
  <1>2. ASSUME NEW a \in Addr, NEW s \in BirthStates \cup {Unset}, CreateAsync(a, s)
        PROVE  BornInState'
    <2> DEFINE e == NewEvent("__creation__", a, a, s)
    <2>1. e \in Event /\ e.init = s
      BY LifecycleEvent, BirthAssumption DEF StateOrNone, Lifecycle, NewEvent
    <2> QED
      BY <1>0, <1>2, <2>1, PostedBirth DEF CreateAsync
  <1>3. ASSUME NEW a \in Addr, DeleteAsync(a)
        PROVE  BornInState'
    <2> DEFINE e == NewEvent("__deletion__", a, a, Unset)
    <2>1. e \in Event /\ e.type = "__deletion__"
      BY LifecycleEvent DEF StateOrNone, Lifecycle, NewEvent
    <2> QED
      BY <1>0, <1>3, <2>1, PostedBirth DEF DeleteAsync
  <1>4. CASE UNCHANGED <<priority, standard, pending>>
    BY <1>0, <1>4 DEF BornInState, Waiting, Elements
  <1> QED
    BY <1>1, <1>2, <1>3, <1>4
       DEF ContextCall, Cancel, CreateSync, DeleteSync, AdvanceClock, queueVars

LEMMA StepBirths ==
    ASSUME TypeInv, BufferInv, DelayInv, BornInState, [Next]_vars
    PROVE  BornInState'
  <1>0. priority \in Seq(Event) /\ standard \in Seq(Event) /\ pending \in Seq(Event)
    BY DEF TypeInv, TypeOK
  <1>1. CASE ContextCall
    BY <1>1, ContextCallBirths
  <1>2. ASSUME NEW e \in Event, EnqueueDirect(e)
        PROVE  /\ Elements(priority') \cup Elements(standard')
                     \subseteq Elements(priority) \cup Elements(standard) \cup {e}
    <2>1. CASE priority' = Append(priority, e) /\ UNCHANGED standard
      BY <1>0, <2>1, AppendElements
    <2>2. CASE standard' = Append(standard, e) /\ UNCHANGED priority
      BY <1>0, <2>2, AppendElements
    <2> QED
      BY <1>2, <2>1, <2>2, EnqueueDirectCases
  <1>3. CASE TickDelayQueue
    <2> DEFINE Expired(x) == [x.ev EXCEPT !.stamp = nextStamp]
    <2>1. PICK x \in delay : EnqueueDirect(Expired(x))
      BY <1>3 DEF TickDelayQueue
    <2>2. Expired(x) \in Event /\ Expired(x).type # "__creation__"
      <3>1. x.ev \in Event /\ nextStamp \in Nat
        BY DEF TypeInv, TypeOK, DelayEntry
      <3>2. x.ev.type \in Signal /\ x.ev.type \notin Lifecycle
        BY SignalAssumption DEF DelayInv
      <3>3. Expired(x) \in Event /\ Expired(x).type = x.ev.type
        BY <3>1 DEF Event
      <3> QED
        BY <3>2, <3>3 DEF Lifecycle
    <2> HIDE DEF Expired
    <2>3. UNCHANGED <<pending, hand>>
      BY <1>3 DEF TickDelayQueue, frameVars
    <2> QED
      BY <1>2, <2>1, <2>2, <2>3 DEF BornInState, Waiting
  <1>4. CASE CompleteTransition
    <2>1. CASE UNCHANGED pending
      BY <1>4, <2>1 DEF CompleteTransition, BornInState, Waiting, Elements, frameVars
    <2>2. CASE pending' = Append(pending, NewEvent("__deletion__", conc, conc, Unset))
      <3> DEFINE e == NewEvent("__deletion__", conc, conc, Unset)
      <3>1. conc \in Addr
        BY <1>4 DEF CompleteTransition, TypeInv, FrameOK, Handling
      <3>2. e \in Event /\ e.type = "__deletion__"
        BY <3>1, LifecycleEvent DEF StateOrNone, Lifecycle, NewEvent
      <3>3. Elements(pending)' = Elements(pending) \cup {e}
        BY <1>0, <2>2, <3>2, AppendElements
      <3>4. UNCHANGED <<priority, standard, hand>>
        BY <1>4 DEF CompleteTransition, frameVars
      <3> QED
        BY <3>2, <3>3, <3>4 DEF BornInState, Waiting, Elements
    <2> QED
      BY <1>4, <2>1, <2>2 DEF CompleteTransition
  <1>5. CASE SelectPriority \/ SelectStandard
    <2>1. CASE /\ priority # <<>> /\ hand' = Head(priority) /\ priority' = Tail(priority)
               /\ UNCHANGED <<standard, pending>>
      BY <1>0, <2>1, HeadAndTail DEF BornInState, Waiting
    <2>2. CASE /\ standard # <<>> /\ hand' = Head(standard) /\ standard' = Tail(standard)
               /\ UNCHANGED <<priority, pending>>
      BY <1>0, <2>2, HeadAndTail DEF BornInState, Waiting
    <2> QED
      BY <1>5, <2>1, <2>2 DEF SelectPriority, SelectStandard
  <1>6. CASE FlushPending
    <2>1. /\ Head(pending) \in Event
          /\ Elements(pending) = {Head(pending)} \cup Elements(pending')
      BY <1>0, <1>6, HeadAndTail DEF FlushPending
    <2>2. UNCHANGED hand
      BY <1>6 DEF FlushPending, frameVars
    <2> QED
      BY <1>2, <1>6, <2>1, <2>2 DEF FlushPending, BornInState, Waiting
  <1>7. CASE UNCHANGED <<priority, standard, pending>> /\ hand' \in {hand, NoEvent}
    BY <1>7 DEF BornInState, Waiting, Elements
  <1>8. CASE Start \/ TickDone \/ TickReported \/ Halt \/ NextEvent
    BY <1>7, <1>8 DEF Start, TickDone, TickReported, Halt, NextEvent, EmptyFrame, queueVars,
                      frameVars
  <1>9. CASE Process
    BY <1>4, <1>6, <1>7, <1>9
       DEF Process, ProcessCreation, RunBirthAction, NoBirthAction, ProcessDeletion,
           UnknownTarget, ReceiveEvent, LookupTransition, PassUnguarded, EvaluateGuard,
           GuardError, GuardReported, NoEntryPasses, TakeEntry, ActionReturns,
           ActionReported, FireTransition, StayInState, FlushDone, BeginFlush, EmptyFrame,
           queueVars, frameVars
  <1>10. CASE Unwind \/ Abandon \/ UNCHANGED vars
    BY <1>7, <1>10 DEF Unwind, Abandon, BeginFlush, EmptyFrame, queueVars, vars
  <1> QED
    BY <1>1, <1>3, <1>5, <1>8, <1>9, <1>10 DEF Next, Engine, Loop

\* A state that becomes final was entered by a transition.
LEMMA FinalIsEntered ==
    ASSUME NotBornFinal, TypeInv, BornInState, [Next]_vars, NEW a \in Addr,
           registry'[a] \in Final[a[1]], registry[a] \notin Final[a[1]]
    PROVE  FireTransition /\ a = conc /\ registry'[a] = Entries[chosen].next
  <1>0. /\ registry \in [Addr -> StateOrNone \cup {Absent}]
        /\ a[1] \in Class
        /\ Final[a[1]] \subseteq State
        /\ registry'[a] \notin BirthStates \cup {Initial[a[1]], Unset, Absent}
    <2>1. registry \in [Addr -> StateOrNone \cup {Absent}] /\ a[1] \in Class
      BY DEF TypeInv, TypeOK, Addr
    <2>2. Final[a[1]] \subseteq State
      BY <2>1, ClassAssumption
    <2> QED
      BY <2>1, <2>2, StateAssumption DEF NotBornFinal
  <1>1. CASE \E b \in Addr, s \in BirthStates : CreateSync(b, s)
    BY <1>0, <1>1 DEF CreateSync
  <1>2. CASE \E b \in Addr, s \in BirthStates \cup {Unset} : CreateAsync(b, s)
    BY <1>0, <1>2 DEF CreateAsync
  <1>3. CASE (\E b \in Addr : DeleteSync(b)) \/ ProcessDeletion
    BY <1>0, <1>3 DEF DeleteSync, ProcessDeletion
  <1>4. CASE ProcessCreation
    <2>1. hand \in Event /\ hand # NoEvent /\ hand.type = "__creation__"
      BY <1>4, NoEventAssumption DEF ProcessCreation, TypeInv, FrameOK, Holding
    <2>2. hand.init \in BirthStates \cup {Unset}
      BY <2>1 DEF BornInState
    <2>3. BirthState(hand) \in BirthStates \cup {Initial[hand.target[1]]}
      BY <2>2 DEF BirthState
    <2> QED
      BY <1>0, <1>4, <2>3 DEF ProcessCreation, SetState
  <1>5. CASE FireTransition
    BY <1>0, <1>5 DEF FireTransition, SetState
  <1> QED
    BY <1>1, <1>2, <1>3, <1>4, <1>5, RegistryStep

\* How the yield between the transition and its completion begins and ends.
LEMMA AroundFired ==
    ASSUME [Next]_vars
    PROVE  /\ pc' = "fired" => FireTransition \/ (pc = "fired" /\ UNCHANGED frameVars)
           /\ pc = "fired" /\ ~MayAbort
                 => CompleteTransition \/ (pc' = "fired" /\ UNCHANGED frameVars)
  <1>1. CASE ContextCall
    BY <1>1 DEF ContextCall, Generate, Cancel, CreateSync, CreateAsync, DeleteSync, DeleteAsync,
                AdvanceClock
  <1>2. CASE Loop \/ Start \/ Unwind \/ Abandon \/ UNCHANGED vars
    BY <1>2 DEF Loop, Start, TickDelayQueue, TickDone, TickReported, SelectPriority,
                SelectStandard, Halt, NextEvent, Unwind, Abandon, BeginFlush, vars, frameVars
  <1>3. CASE CompleteTransition
    BY <1>3 DEF CompleteTransition, BeginFlush
  <1>4. CASE Process
    BY <1>3, <1>4 DEF Process, ProcessCreation, RunBirthAction, NoBirthAction, ProcessDeletion,
                UnknownTarget, ReceiveEvent, LookupTransition, PassUnguarded, EvaluateGuard,
                GuardError, GuardReported, NoEntryPasses, TakeEntry, ActionReturns,
                ActionReported, FireTransition, StayInState, FlushPending, FlushDone,
                BeginFlush
  <1> QED
    BY <1>1, <1>2, <1>4 DEF Next, Engine

LEMMA StepDeath ==
    ASSUME ~MayAbort, NotBornFinal, TypeInv, BufferInv, QueueInv, DelayInv, DeathInv, [Next]_vars
    PROVE  DeathInv'
  <1>0. /\ BornInState
        /\ \A a \in Addr : Absent \notin Final[a[1]]
        /\ registry \in [Addr -> StateOrNone \cup {Absent}]
        /\ pc = "fired" => conc \in Addr
    <2>1. \A a \in Addr : Final[a[1]] \subseteq State
      BY ClassAssumption DEF Addr
    <2>2. pc = "fired" => conc \in Addr
      BY DEF TypeInv, FrameOK, Handling
    <2> QED
      BY <2>1, <2>2, StateAssumption DEF DeathInv, TypeInv, TypeOK
  <1>1. ASSUME NEW a \in Addr, registry'[a] \in Final[a[1]], ~(pc' = "fired" /\ conc' = a)
        PROVE  Awaited("__deletion__", a)'
    <2>1. registry[a] \in Final[a[1]]
      <3>1. FireTransition => pc' = "fired" /\ conc' = conc
        BY DEF FireTransition, frameVars
      <3> QED
        BY <1>0, <1>1, <3>1, FinalIsEntered
    <2>2. CASE ~(pc = "fired" /\ conc = a)
      <3>1. Awaited("__deletion__", a)
        BY <2>1, <2>2 DEF DeathInv
      <3>2. ~Served("__deletion__", a)
        <4>1. SUFFICES ASSUME Served("__deletion__", a) PROVE FALSE
          OBVIOUS
        <4>2. ProcessDeletion /\ hand.target = a
          BY <4>1, SelectedEnds DEF Served
        <4> QED
          BY <1>0, <1>1, <4>2 DEF ProcessDeletion
      <3> QED
        BY <3>1, <3>2, StepAwaits
    <2>3. CASE pc = "fired" /\ conc = a
      <3>1. CompleteTransition
        BY <1>1, <2>3, AroundFired DEF frameVars
      <3>2. Entries[chosen].next \in Final[conc[1]] /\ Live(conc)
        BY <1>0, <2>1, <2>3 DEF DeathInv, Live
      <3> DEFINE e == NewEvent("__deletion__", a, a, Unset)
      <3>3. e \in Event /\ e.type = "__deletion__" /\ e.target = a
        BY LifecycleEvent DEF StateOrNone, Lifecycle, NewEvent
      <3>4. pending' = Append(pending, e)
        BY <2>3, <3>1, <3>2 DEF CompleteTransition
      <3>5. e \in Elements(pending)'
        BY <3>3, <3>4, AppendElements DEF TypeInv, TypeOK
      <3> QED
        BY <3>3, <3>5 DEF Awaited, Ahead, Waiting
    <2> QED
      BY <2>2, <2>3
  <1>2. ASSUME pc' = "fired", registry'[conc'] \in Final[conc'[1]]
        PROVE  Entries'[chosen'].next \in Final[conc'[1]]
    <2>1. CASE FireTransition
      <3>1. UNCHANGED frameVars /\ conc \in Addr
        BY <2>1 DEF FireTransition, TypeInv, FrameOK, Handling
      <3>2. registry'[conc] \in {Entries[chosen].next, Absent}
        BY <1>0, <2>1, <3>1 DEF FireTransition, SetState, Live
      <3> QED
        BY <1>0, <1>2, <3>1, <3>2 DEF frameVars, Entries
    <2>2. CASE pc = "fired" /\ UNCHANGED frameVars
      <3>1. ~FireTransition
        BY <2>2 DEF FireTransition
      <3>2. registry[conc] \in Final[conc[1]]
        BY <1>0, <1>2, <2>2, <3>1, FinalIsEntered DEF frameVars
      <3> QED
        BY <2>2, <3>2 DEF DeathInv, frameVars, Entries
    <2> QED
      BY <1>2, <2>1, <2>2, AroundFired
  <1>3. BornInState'
    BY <1>0, StepBirths
  <1> QED
    BY <1>1, <1>2, <1>3 DEF DeathInv, Awaited, Ahead

\* Rule 18: an instance in a final state has its deletion on the way, also if
\* its transition is interrupted by callers that delete, create or replace it
\* (scheduler.py:475), provided that none is born in such a state.
THEOREM FinalAwaitsDeletion == ~MayAbort /\ NotBornFinal /\ Spec => []FinalHasDeletion
  <1>1. NotBornFinal /\ Init => DeathInv
    <2>1. ASSUME NotBornFinal, Init, NEW a \in Addr
          PROVE  registry[a] \notin Final[a[1]]
      BY <2>1, ClassAssumption, StateAssumption DEF NotBornFinal, Init, Addr
    <2>2. Init => BornInState
      BY DEF Init, BornInState, Waiting, Elements
    <2>3. Init => pc # "fired"
      BY DEF Init
    <2> QED
      BY <2>1, <2>2, <2>3 DEF DeathInv
  <1>2. TypeInv /\ BufferInv /\ QueueInv /\ DelayInv /\ (~MayAbort /\ NotBornFinal /\ DeathInv)
        /\ [Next]_vars
        => (~MayAbort /\ NotBornFinal /\ DeathInv)'
    BY StepDeath DEF NotBornFinal
  <1>3. TypeInv /\ DeathInv => FinalHasDeletion
    BY NoEventAssumption
       DEF DeathInv, FinalHasDeletion, Awaited, Ahead, Underway, TypeInv, FrameOK, Holding
  <1> QED
    BY <1>1, <1>2, <1>3, SpecIsOpen, TypeInvariant, BufferInvariant, QueueInvariant, DelayInvariant, PTL
       DEF Spec

-----------------------------------------------------------------------------
(* The state that was read is the state that is left *)

\* What writes the registry, whoever the callers are.
LEMMA OpenRegistryStep ==
    ASSUME [OpenNext]_vars, registry' # registry
    PROVE  AnyCall \/ ProcessCreation \/ ProcessDeletion \/ FireTransition
  <1>1. CASE Loop \/ Start \/ Unwind \/ Abandon \/ UNCHANGED vars
    BY <1>1 DEF Loop, Start, TickDelayQueue, TickDone, TickReported, SelectPriority,
                SelectStandard, Halt, NextEvent, Unwind, Abandon, vars
  <1>2. CASE Process
    BY <1>2 DEF Process, RunBirthAction, NoBirthAction, UnknownTarget, ReceiveEvent,
           LookupTransition, PassUnguarded, EvaluateGuard, GuardError, GuardReported,
           NoEntryPasses, TakeEntry, ActionReturns, ActionReported, StayInState,
           CompleteTransition, FlushPending, FlushDone
  <1> QED
    BY <1>1, <1>2 DEF OpenNext, Engine

\* A call creates or deletes one instance.
LEMMA CallChangesOne ==
    ASSUME TypeInv, AnyCall, NEW a \in Addr, registry'[a] # registry[a]
    PROVE  ByCall(a)
  <1>1. registry \in [Addr -> StateOrNone \cup {Absent}]
    BY DEF TypeInv, TypeOK
  <1>2. PICK b \in Addr, v \in StateOrNone \cup {Absent} : registry' = [registry EXCEPT ![b] = v]
    BY DEF AnyCall, Instances
  <1>3. b = a /\ registry'[a] = v
    BY <1>1, <1>2
  <1> QED
    BY <1>2, <1>3 DEF ByCall, AnyCall

Midway == {"received", "guarding", "guarded", "acting", "executed", "transit"}

\* Between the yield of EventReceived and the transition the locals of
\* _process_event() that name the instance and its state are not written, and
\* the engine does not write the registry.
LEMMA FromStateRests ==
    ASSUME TypeInv, [OpenNext]_vars, pc' \in Midway, hand'.type \in Signal
    PROVE  ReceiveEvent \/ (pc \in Midway /\ UNCHANGED <<hand, conc, from>>)
  <1>1. CASE AnyCall
    BY <1>1 DEF AnyCall, frameVars
  <1>2. CASE Loop \/ Start \/ Unwind \/ Abandon \/ UNCHANGED vars
    BY <1>2 DEF Loop, Start, TickDelayQueue, TickDone, TickReported, SelectPriority,
                SelectStandard, Halt, NextEvent, Unwind, Abandon, BeginFlush, vars, Midway
  <1>3. CASE RunBirthAction
    BY <1>3, SignalAssumption DEF RunBirthAction, TypeInv, FrameOK, frameVars, Lifecycle
  <1>4. CASE Process
    BY <1>3, <1>4
       DEF Process, ProcessCreation, NoBirthAction, ProcessDeletion, UnknownTarget,
           LookupTransition, PassUnguarded, EvaluateGuard, GuardError, GuardReported,
           NoEntryPasses, TakeEntry, ActionReturns, ActionReported, FireTransition, StayInState,
           CompleteTransition, FlushPending, FlushDone, BeginFlush, frameVars, Midway
  <1> QED
    BY <1>1, <1>2, <1>4 DEF OpenNext, Engine

LEMMA StepStale ==
    ASSUME TypeInv, [OpenNext]_vars, FromStateIsCurrent, ~FromStateIsCurrent'
    PROVE  ByCall(conc)
  <1>1. pc' \in Midway /\ hand'.type \in Signal /\ registry'[conc'] # from'
    BY DEF FromStateIsCurrent, Midway
  <1>2. ~ReceiveEvent
    BY <1>1 DEF ReceiveEvent
  <1>3. pc \in Midway /\ UNCHANGED <<hand, conc, from>>
    BY <1>1, <1>2, FromStateRests
  <1>4. registry'[conc] # registry[conc]
    BY <1>1, <1>3 DEF FromStateIsCurrent, Midway
  <1>5. conc \in Addr
    BY <1>1, <1>3 DEF TypeInv, FrameOK, Handling, Midway
  <1>6. ~(ProcessCreation \/ ProcessDeletion \/ FireTransition)
    BY <1>1 DEF ProcessCreation, ProcessDeletion, FireTransition, Midway
  <1> QED
    BY <1>4, <1>5, <1>6, OpenRegistryStep, CallChangesOne

LEMMA StepReturns ==
    ASSUME TypeInv, [OpenNext]_vars, NEW a \in Addr, registry[a] = Absent, registry'[a] # Absent
    PROVE  ByCall(a)
  <1>1. registry \in [Addr -> StateOrNone \cup {Absent}]
    BY DEF TypeInv, TypeOK
  <1>2. ~(ProcessCreation \/ FireTransition)
    BY <1>1 DEF ProcessCreation, FireTransition, SetState, Live
  <1>3. ~ProcessDeletion
    BY <1>1 DEF ProcessDeletion
  <1> QED
    BY <1>2, <1>3, OpenRegistryStep, CallChangesOne

LEMMA OnlyCallsMakeStaleOpen == OpenSpec => StaleOnlyByCall
  <1>1. TypeInv /\ [OpenNext]_vars
        => [/\ FromStateIsCurrent /\ ~FromStateIsCurrent' => ByCall(conc)
            /\ \A a \in Addr : registry[a] = Absent /\ registry'[a] # Absent => ByCall(a)]_vars
    BY StepStale, StepReturns
  <1> QED
    BY <1>1, TypeInvariant, PTL DEF OpenSpec, StaleOnlyByCall

\* The transition fires from the state in which the event found the instance
\* (scheduler.py:378 reads it, 465 writes the next one), whoever calls the
\* context at the yields in between and from the action, unless the call
\* creates or deletes that instance; and the engine brings none back.
THEOREM OnlyCallsMakeStale == Spec => StaleOnlyByCall
  BY OnlyCallsMakeStaleOpen, SpecIsOpen
=============================================================================
