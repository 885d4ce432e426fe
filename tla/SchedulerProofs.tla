-------------------------- MODULE SchedulerProofs --------------------------
(***************************************************************************)
(* Proofs about the scheduler, for every manifest, cast and bound.         *)
(***************************************************************************)
EXTENDS SchedulerProps, TLAPS

(***************************************************************************)
(* The strengthening of TypeOK: which locals of the generator are set at   *)
(* each of its control points.                                             *)
(***************************************************************************)
Outside == {"idle", "tick", "tickMore", "ticked", "pick"}
Handling == {"acting", "executed", "transit", "fired"}
Holding == Handling \cup {"selected", "received", "guarding", "guarded", "created",
                          "deleted", "error"}

FrameOK ==
    /\ pc \in Outside => hand = NoEvent
    /\ pc \in Holding => hand \in Event
    /\ pc = "created" => hand.type = "__creation__"
    /\ pc \in {"received", "guarding", "guarded", "transit", "fired"} => hand.type \in Signal
    /\ pc \in {"acting", "executed"} => hand.type \in Signal \cup {"__creation__"}
    /\ pc \in {"received", "guarding", "guarded"} => conc \in Addr
    /\ pc \in Handling /\ hand.type \in Signal => conc \in Addr
    /\ pc \in Outside \cup {"selected", "received"} => chosen = 0
    /\ pc \in {"guarding", "guarded"} => chosen \in 0 .. Len(Entries)
    /\ pc \in Handling /\ hand.type \in Signal => chosen \in 1 .. Len(Entries)

TypeInv == TypeOK /\ FrameOK

(***************************************************************************)
(* The scheduler with any caller at all: where the generator is idle, at a *)
(* yield or in an action, events are generated for any sender, target and  *)
(* delay, and instances come and go, without a bound. What holds of it     *)
(* holds of Spec, and of whatever program uses the scheduler               *)
(* (SimulationProofs).                                                     *)
(***************************************************************************)
Instances ==
    \/ UNCHANGED registry
    \/ \E a \in Addr, v \in StateOrNone \cup {Absent} : registry' = [registry EXCEPT ![a] = v]

AnyCall ==
    /\ pc = "idle" \/ AtYield \/ pc = "acting"
    /\ UNCHANGED <<pc, frameVars>>
    /\ \/ /\ \E type \in Signal, s, t \in Addr, d \in Nat :
                Enqueue(NewEvent(type, s, t, Unset), d)
          /\ UNCHANGED <<registry, now>>
       \/ /\ \E type \in Lifecycle, a \in Addr, i \in StateOrNone :
                EnqueueNow(NewEvent(type, a, a, i))
          /\ Instances
          /\ UNCHANGED now
       \/ /\ \E x \in delay : delay' = delay \ {x}
          /\ UNCHANGED <<priority, standard, seq, pending, inFlight, registry, now, nextStamp>>
       \/ /\ Instances
          /\ UNCHANGED <<queueVars, now, nextStamp>>
       \/ /\ \E d \in Nat : now' = now + d
          /\ UNCHANGED <<queueVars, registry, nextStamp>>

OpenNext == Engine \/ Start \/ AnyCall \/ Unwind \/ Abandon

OpenSpec == Init /\ [][OpenNext]_vars

LEMMA CallIsAnyCall == ContextCall => AnyCall
  <1> SUFFICES ASSUME ContextCall PROVE AnyCall
    OBVIOUS
  <1>0. (pc = "idle" \/ AtYield \/ pc = "acting") /\ UNCHANGED <<pc, frameVars>>
    BY DEF ContextCall, Generate, Cancel, CreateSync, CreateAsync, DeleteSync, DeleteAsync,
           AdvanceClock, Allowed
  <1>1. ASSUME NEW r \in Route, NEW d \in Delay, Generate(r[1], r[2], r[3], d)
        PROVE  AnyCall
    <2>1. r[1] \in Signal /\ r[2] \in Addr /\ r[3] \in Addr /\ d \in Nat
      BY RouteAssumption, DelayAssumption
    <2> QED
      BY <1>0, <1>1, <2>1 DEF Generate, AnyCall
  <1>2. ASSUME NEW r \in Route, Cancel(r[1], r[2], r[3])
        PROVE  AnyCall
    BY <1>0, <1>2 DEF Cancel, AnyCall
  <1>3. ASSUME NEW a \in Addr, NEW s \in BirthStates, CreateSync(a, s)
        PROVE  AnyCall
    BY <1>0, <1>3, BirthAssumption DEF CreateSync, AnyCall, Instances, StateOrNone
  <1>4. ASSUME NEW a \in Addr, NEW s \in BirthStates \cup {Unset}, CreateAsync(a, s)
        PROVE  AnyCall
    <2>1. s \in StateOrNone /\ Unset \in StateOrNone
      BY BirthAssumption DEF StateOrNone
    <2>2. Instances
      BY <1>4, <2>1 DEF CreateAsync, Instances
    <2>3. "__creation__" \in Lifecycle
      BY DEF Lifecycle
    <2> QED
      BY <1>0, <1>4, <2>1, <2>2, <2>3 DEF CreateAsync, AnyCall
  <1>5. ASSUME NEW a \in Addr, DeleteSync(a)
        PROVE  AnyCall
    BY <1>0, <1>5 DEF DeleteSync, AnyCall, Instances
  <1>6. ASSUME NEW a \in Addr, DeleteAsync(a)
        PROVE  AnyCall
    <2>1. "__deletion__" \in Lifecycle /\ Unset \in StateOrNone
      BY DEF Lifecycle, StateOrNone
    <2> QED
      BY <1>0, <1>6, <2>1 DEF DeleteAsync, AnyCall, Instances
  <1>7. CASE AdvanceClock(1)
    BY <1>0, <1>7 DEF AdvanceClock, AnyCall
  <1> QED
    BY <1>1, <1>2, <1>3, <1>4, <1>5, <1>6, <1>7 DEF ContextCall

LEMMA NextIsOpen == [Next]_vars => [OpenNext]_vars
  BY CallIsAnyCall DEF Next, OpenNext

\* The scheduler of Spec is one with some caller.
LEMMA SpecIsOpen == Spec => OpenSpec
  BY NextIsOpen, PTL DEF Spec, OpenSpec

-----------------------------------------------------------------------------

\* A cell of the transition table is a sequence of entries.
LEMMA EntriesType ==
    ASSUME conc \in Addr, from \in StateOrNone, hand \in Event, hand.type \in Signal
    PROVE  Entries \in Seq(Entry)
  BY TableAssumption DEF Entries, Addr, StateOrNone

\* An event made from well-typed parts is an event.
LEMMA NewEventType ==
    ASSUME nextStamp \in Nat, NEW type \in EventType, NEW s \in Addr, NEW t \in Addr,
           NEW i \in StateOrNone
    PROVE  NewEvent(type, s, t, i) \in Event
  BY DEF NewEvent, Event

LEMMA EnqueueDirectType ==
    ASSUME priority \in Seq(Event), standard \in Seq(Event), NEW e \in Event, EnqueueDirect(e)
    PROVE  priority' \in Seq(Event) /\ standard' \in Seq(Event)
  <1>1. CASE priority' = Append(priority, e) /\ UNCHANGED standard
    BY <1>1
  <1>2. CASE standard' = Append(standard, e) /\ UNCHANGED priority
    BY <1>2
  <1> QED
    BY <1>1, <1>2 DEF EnqueueDirect

\* Enqueueing keeps the types of all it touches.
LEMMA EnqueueNowType ==
    ASSUME TypeOK, NEW e \in Event, EnqueueNow(e)
    PROVE  /\ priority' \in Seq(Event) /\ standard' \in Seq(Event)
           /\ delay' \in SUBSET DelayEntry /\ seq' \in Nat
           /\ pending' \in Seq(Event) /\ inFlight' \in Event \cup {NoEvent}
           /\ nextStamp' \in Nat
  <1>1. CASE EnqueueDirect(e) /\ UNCHANGED pending
    BY <1>1, EnqueueDirectType DEF EnqueueNow, TypeOK
  <1>2. CASE pending' = Append(pending, e) /\ UNCHANGED <<priority, standard>>
    BY <1>2 DEF EnqueueNow, TypeOK
  <1> QED
    BY <1>1, <1>2 DEF EnqueueNow

LEMMA EnqueueType ==
    ASSUME TypeOK, NEW e \in Event, NEW d \in Nat, Enqueue(e, d)
    PROVE  /\ priority' \in Seq(Event) /\ standard' \in Seq(Event)
           /\ delay' \in SUBSET DelayEntry /\ seq' \in Nat
           /\ pending' \in Seq(Event) /\ inFlight' \in Event \cup {NoEvent}
           /\ nextStamp' \in Nat
  <1>1. CASE EnqueueNow(e)
    BY <1>1, EnqueueNowType
  <1>2. CASE EnqueueDelay(e, d)
    <2>1. [e EXCEPT !.stamp = 0] \in Event
      BY DEF Event
    <2>2. [expiry |-> now + d, seq |-> seq, ev |-> [e EXCEPT !.stamp = 0]] \in DelayEntry
      BY <2>1 DEF DelayEntry, TypeOK
    <2>3. delay' \in SUBSET DelayEntry
      BY <1>2, <2>2 DEF EnqueueDelay, TypeOK
    <2>4. seq' \in Nat /\ UNCHANGED <<priority, standard, pending, inFlight, nextStamp>>
      BY <1>2 DEF EnqueueDelay, TypeOK
    <2> QED
      BY <2>3, <2>4 DEF TypeOK
  <1> QED
    BY <1>1, <1>2 DEF Enqueue

\* A lifecycle event that the engine or a caller makes.
LEMMA LifecycleEvent ==
    ASSUME TypeInv, NEW type \in Lifecycle, NEW a \in Addr, NEW i \in StateOrNone
    PROVE  /\ NewEvent(type, a, a, i) \in Event
           /\ NewEvent(type, a, a, i).stamp = nextStamp
  <1>1. NewEvent(type, a, a, i) \in Event
    BY NewEventType DEF TypeInv, TypeOK, EventType
  <1> QED
    BY <1>1 DEF NewEvent

LEMMA SignalEvent ==
    ASSUME TypeInv, NEW type \in Signal, NEW a \in Addr, NEW b \in Addr
    PROVE  /\ NewEvent(type, a, b, Unset) \in Event
           /\ NewEvent(type, a, b, Unset).stamp = nextStamp
           /\ NewEvent(type, a, b, Unset).type = type
  <1>1. NewEvent(type, a, b, Unset) \in Event
    BY NewEventType DEF TypeInv, TypeOK, EventType, StateOrNone
  <1> QED
    BY <1>1 DEF NewEvent

\* The calls of the context keep pc and the locals of the generator.
LEMMA AnyCallType ==
    ASSUME TypeInv, AnyCall
    PROVE  TypeInv'
  <1> USE DEF TypeInv
  <1>0. /\ UNCHANGED <<pc, frameVars>>
        /\ FrameOK'
    BY DEF AnyCall, FrameOK, frameVars, Entries
  <1>1. Instances => registry' \in [Addr -> StateOrNone \cup {Absent}]
    BY DEF Instances, TypeOK
  <1>2. ASSUME NEW type \in Signal, NEW s \in Addr, NEW t \in Addr, NEW d \in Nat,
               Enqueue(NewEvent(type, s, t, Unset), d), UNCHANGED <<registry, now>>
        PROVE  TypeOK'
    <2>1. NewEvent(type, s, t, Unset) \in Event
      BY SignalEvent
    <2> QED
      BY <1>0, <1>2, <2>1, EnqueueType DEF TypeOK, frameVars
  <1>3. ASSUME NEW type \in Lifecycle, NEW a \in Addr, NEW i \in StateOrNone,
               EnqueueNow(NewEvent(type, a, a, i)), Instances, UNCHANGED now
        PROVE  TypeOK'
    <2>1. NewEvent(type, a, a, i) \in Event
      BY LifecycleEvent
    <2> QED
      BY <1>0, <1>1, <1>3, <2>1, EnqueueNowType DEF TypeOK, frameVars
  <1>4. CASE /\ \E x \in delay : delay' = delay \ {x}
             /\ UNCHANGED <<priority, standard, seq, pending, inFlight, registry, now, nextStamp>>
    BY <1>0, <1>4 DEF TypeOK, frameVars
  <1>5. CASE Instances /\ UNCHANGED <<queueVars, now, nextStamp>>
    BY <1>0, <1>1, <1>5 DEF TypeOK, queueVars, frameVars
  <1>6. CASE (\E d \in Nat : now' = now + d) /\ UNCHANGED <<queueVars, registry, nextStamp>>
    BY <1>0, <1>6 DEF TypeOK, queueVars, frameVars
  <1> QED
    BY <1>0, <1>2, <1>3, <1>4, <1>5, <1>6 DEF AnyCall

\* EmptyFrame resets the locals to what they are between two events.
LEMMA EmptyFrameType ==
    ASSUME EmptyFrame
    PROVE  /\ hand' = NoEvent /\ conc' = NoAddr /\ chosen' = 0
           /\ from' \in StateOrNone
           /\ cand' \in Nat \ {0}
           /\ closing' \in BOOLEAN
  <1>1. closing' \in BOOLEAN
    BY Zenon DEF EmptyFrame
  <1> QED
    BY <1>1 DEF EmptyFrame, StateOrNone

-----------------------------------------------------------------------------

\* What the loop of execute() does between two events.
LEMMA LoopType ==
    ASSUME TypeInv, Loop
    PROVE  TypeInv'
  <1> USE DEF TypeInv
  <1> DEFINE Expired(x) == [x.ev EXCEPT !.stamp = nextStamp]
  <1>1. CASE TickDelayQueue
    <2>1. PICK x \in delay : EnqueueDirect(Expired(x)) /\ delay' = delay \ {x}
      BY <1>1 DEF TickDelayQueue
    <2>2. Expired(x) \in Event
      BY <2>1 DEF TypeOK, DelayEntry, Event
    <2>3. priority' \in Seq(Event) /\ standard' \in Seq(Event)
      BY <2>1, <2>2, EnqueueDirectType DEF TypeOK
    <2> QED
      BY <1>1, <2>1, <2>3
         DEF TickDelayQueue, TypeOK, FrameOK, frameVars, Outside, Holding, Handling
  <1>2. CASE TickDone \/ TickReported \/ Halt
    BY <1>2 DEF TickDone, TickReported, Halt, TypeOK, FrameOK, frameVars, queueVars,
                Outside, Holding, Handling
  <1>3. CASE SelectPriority
    <2>1. Head(priority) \in Event /\ priority' \in Seq(Event)
      BY <1>3 DEF SelectPriority, TypeOK
    <2> QED
      BY <1>3, <2>1 DEF SelectPriority, TypeOK, FrameOK, Outside, Holding, Handling
  <1>4. CASE SelectStandard
    <2>1. Head(standard) \in Event /\ standard' \in Seq(Event)
      BY <1>4 DEF SelectStandard, TypeOK
    <2> QED
      BY <1>4, <2>1 DEF SelectStandard, TypeOK, FrameOK, Outside, Holding, Handling
  <1>5. CASE NextEvent
    BY <1>5, EmptyFrameType DEF NextEvent, TypeOK, FrameOK, queueVars,
                Outside, Holding, Handling
  <1> QED
    BY <1>1, <1>2, <1>3, <1>4, <1>5 DEF Loop

\* set_state() stores a state.
LEMMA SetStateType ==
    ASSUME registry \in [Addr -> StateOrNone \cup {Absent}],
           NEW a \in Addr, NEW s \in StateOrNone, SetState(a, s)
    PROVE  registry' \in [Addr -> StateOrNone \cup {Absent}]
  BY DEF SetState

\* Creation and deletion events.
LEMMA LifecycleType ==
    ASSUME TypeInv, ProcessCreation \/ RunBirthAction \/ NoBirthAction \/ ProcessDeletion
    PROVE  TypeInv'
  <1> USE DEF TypeInv
  <1>1. CASE ProcessCreation
    <2>1. hand \in Event /\ hand.target \in Addr
      BY <1>1 DEF ProcessCreation, FrameOK, Holding, Event
    <2>2. BirthState(hand) \in StateOrNone
      BY <2>1, ClassAssumption DEF BirthState, Event, Addr, StateOrNone
    <2>3. registry' \in [Addr -> StateOrNone \cup {Absent}]
      BY <1>1, <2>1, <2>2, SetStateType DEF ProcessCreation, TypeOK
    <2> QED
      BY <1>1, <2>1, <2>3 DEF ProcessCreation, TypeOK, FrameOK, frameVars, queueVars,
                              Outside, Holding, Handling
  <1>2. CASE RunBirthAction
    BY <1>2, SignalAssumption
       DEF RunBirthAction, TypeOK, FrameOK, frameVars, Outside, Holding, Handling, Lifecycle
  <1>3. CASE NoBirthAction
    BY <1>3, EmptyFrameType DEF NoBirthAction, TypeOK, FrameOK, queueVars,
                Outside, Holding, Handling
  <1>4. CASE ProcessDeletion
    BY <1>4 DEF ProcessDeletion, TypeOK, FrameOK, queueVars, frameVars,
                Outside, Holding, Handling
  <1> QED
    BY <1>1, <1>2, <1>3, <1>4

\* From the selection of an event of the domain to the choice of an entry.
LEMMA DispatchType ==
    ASSUME TypeInv,
           \/ UnknownTarget \/ ReceiveEvent \/ LookupTransition \/ PassUnguarded
           \/ (\E holds \in BOOLEAN : EvaluateGuard(holds))
           \/ GuardError \/ GuardReported \/ NoEntryPasses \/ TakeEntry
    PROVE  TypeInv'
  <1> USE DEF TypeInv
  <1>1. CASE UnknownTarget
    BY <1>1 DEF UnknownTarget, TypeOK, FrameOK, queueVars, frameVars, Outside, Holding, Handling
  <1>2. CASE ReceiveEvent
    <2>1. conc' \in Addr /\ from' \in StateOrNone
      BY <1>2 DEF ReceiveEvent, ResolvesTo, Live, TypeOK
    <2> QED
      BY <1>2, <2>1 DEF ReceiveEvent, TypeOK, FrameOK, queueVars, Outside, Holding, Handling
  <1>3. ASSUME pc \in {"received", "guarding", "guarded"}
        PROVE  Entries \in Seq(Entry) /\ Len(Entries) \in Nat
    <2>1. Entries \in Seq(Entry)
      BY <1>3, EntriesType DEF TypeOK, FrameOK, Holding
    <2> QED
      BY <2>1
  <1>4. CASE LookupTransition
    BY <1>3, <1>4, EmptyFrameType, SMTT(30)
       DEF LookupTransition, TypeOK, FrameOK, queueVars, frameVars, Outside, Holding, Handling, Entries
  <1>5. CASE PassUnguarded
    BY <1>3, <1>5 DEF PassUnguarded, TypeOK, FrameOK, queueVars, Outside, Holding, Handling,
                      Entries
  <1>6. ASSUME NEW holds \in BOOLEAN, EvaluateGuard(holds)
        PROVE  TypeInv'
    <2>1. cand' \in Nat \ {0} /\ chosen' \in Nat
      BY <1>3, <1>6 DEF EvaluateGuard, TypeOK
    <2>2. TypeOK'
      BY <1>6, <2>1 DEF EvaluateGuard, TypeOK, queueVars
    <2>3. FrameOK'
      BY <1>3, <1>6 DEF EvaluateGuard, TypeOK, FrameOK, Outside, Holding, Handling, Entries
    <2> QED
      BY <2>2, <2>3
  <1>7. CASE GuardError \/ GuardReported
    <2>1. TypeOK'
      BY <1>3, <1>7 DEF GuardError, GuardReported, TypeOK, queueVars, frameVars
    <2>2. FrameOK'
      BY <1>3, <1>7 DEF GuardError, GuardReported, TypeOK, FrameOK, frameVars, Outside, Holding,
                        Handling, Entries
    <2> QED
      BY <2>1, <2>2
  <1>8. CASE NoEntryPasses
    BY <1>8, EmptyFrameType DEF NoEntryPasses, TypeOK, FrameOK, queueVars, StateOrNone, Outside,
                Holding, Handling
  <1>9. CASE TakeEntry
    BY <1>3, <1>9 DEF TakeEntry, TypeOK, FrameOK, frameVars, Outside, Holding, Handling, Entries
  <1> QED
    BY <1>1, <1>2, <1>4, <1>5, <1>6, <1>7, <1>8, <1>9

\* The transition itself, up to the end of the finally block.
LEMMA TransitionType ==
    ASSUME TypeInv,
           \/ ActionReturns \/ ActionReported \/ FireTransition \/ StayInState
           \/ CompleteTransition \/ FlushPending \/ FlushDone \/ Unwind \/ Abandon
    PROVE  TypeInv'
  <1> USE DEF TypeInv, Outside, Holding, Handling
  <1>1. CASE ActionReturns
    BY <1>1 DEF ActionReturns, TypeOK, FrameOK, queueVars, frameVars, Entries
  <1>2. CASE ActionReported
    BY <1>2 DEF ActionReported, BeginFlush, TypeOK, FrameOK, frameVars, Entries
  <1>3. ASSUME pc \in {"transit", "fired"}
        PROVE  conc \in Addr /\ Entries[chosen].next \in StateOrNone
    <2>1. Entries \in Seq(Entry) /\ chosen \in 1 .. Len(Entries)
      BY <1>3, EntriesType DEF TypeOK, FrameOK
    <2>2. Entries[chosen] \in Entry
      BY <2>1
    <2> QED
      BY <1>3, <2>2 DEF Entry, FrameOK
  <1>4. CASE FireTransition
    <2>1. registry' \in [Addr -> StateOrNone \cup {Absent}]
      BY <1>3, <1>4, SetStateType DEF FireTransition, TypeOK
    <2> QED
      BY <1>4, <2>1 DEF FireTransition, TypeOK, FrameOK, queueVars, frameVars, Entries
  <1>5. CASE StayInState
    BY <1>5 DEF StayInState, BeginFlush, TypeOK, FrameOK, frameVars
  <1>6. CASE CompleteTransition
    <2>1. NewEvent("__deletion__", conc, conc, Unset) \in Event
      BY <1>3, <1>6, NewEventType
         DEF CompleteTransition, TypeOK, EventType, Lifecycle, StateOrNone
    <2>2. pending' \in Seq(Event) /\ nextStamp' \in Nat
      <3>1. CASE /\ pending' = Append(pending, NewEvent("__deletion__", conc, conc, Unset))
                 /\ nextStamp' = nextStamp + 1
        BY <2>1, <3>1 DEF TypeOK
      <3> QED
        BY <1>6, <3>1 DEF CompleteTransition, TypeOK
    <2> QED
      BY <1>6, <2>2 DEF CompleteTransition, BeginFlush, TypeOK, FrameOK, frameVars
  <1>7. CASE FlushPending
    <2>1. Head(pending) \in Event /\ pending' \in Seq(Event)
      BY <1>7 DEF FlushPending, TypeOK
    <2>2. priority' \in Seq(Event) /\ standard' \in Seq(Event)
      BY <1>7, <2>1, EnqueueDirectType DEF FlushPending, TypeOK
    <2> QED
      BY <1>7, <2>1, <2>2 DEF FlushPending, TypeOK, FrameOK, frameVars
  <1>8. CASE FlushDone
    BY <1>8, EmptyFrameType DEF FlushDone, TypeOK, FrameOK, queueVars
  <1>9. CASE Unwind
    BY <1>9 DEF Unwind, BeginFlush, TypeOK, FrameOK
  <1>10. CASE Abandon
    BY <1>10, EmptyFrameType DEF Abandon, TypeOK, FrameOK, queueVars
  <1> QED
    BY <1>1, <1>2, <1>4, <1>5, <1>6, <1>7, <1>8, <1>9, <1>10

LEMMA InitType == Init => TypeInv
  <1> SUFFICES ASSUME Init PROVE TypeInv
    OBVIOUS
  <1>1. closing \in BOOLEAN
    BY Zenon DEF Init
  <1>2. registry \in [Addr -> StateOrNone \cup {Absent}]
    BY CastAssumption, ClassAssumption DEF Init, StateOrNone, Addr
  <1>3. priority \in Seq(Event) /\ standard \in Seq(Event) /\ pending \in Seq(Event)
    BY DEF Init
  <1> QED
    BY <1>1, <1>2, <1>3
       DEF Init, TypeInv, TypeOK, FrameOK, Outside, Holding, Handling, StateOrNone

LEMMA StepType ==
    ASSUME TypeInv, [OpenNext]_vars
    PROVE  TypeInv'
  <1>1. CASE Start
    BY <1>1 DEF Start, TypeInv, TypeOK, FrameOK, queueVars, frameVars, Outside, Holding, Handling
  <1>2. CASE UNCHANGED vars
    BY <1>2 DEF vars, TypeInv, TypeOK, FrameOK, Entries
  <1> QED
    BY <1>1, <1>2, AnyCallType, LoopType, LifecycleType, DispatchType, TransitionType
       DEF OpenNext, Engine, Process

LEMMA TypeInvariant == OpenSpec => []TypeInv
  <1>1. Init => TypeInv
    BY InitType
  <1>2. TypeInv /\ [OpenNext]_vars => TypeInv'
    BY StepType
  <1> QED
    BY <1>1, <1>2, PTL DEF OpenSpec

LEMMA TypeCorrectOpen == OpenSpec => []TypeOK
  <1>1. TypeInv => TypeOK
    BY DEF TypeInv
  <1> QED
    BY <1>1, TypeInvariant, PTL

\* Every variable has its type in every reachable state (scheduler.py, the
\* assignments of execute() and all it calls).
THEOREM TypeCorrect == Spec => []TypeOK
  BY TypeCorrectOpen, SpecIsOpen, PTL

-----------------------------------------------------------------------------
(***************************************************************************)
(* The run-to-completion buffer. An event is in flight exactly at the      *)
(* control points of Handling, and the buffer is empty except there and    *)
(* while the finally block flushes it.                                     *)
(***************************************************************************)
BufferInv ==
    /\ pc \in Handling => inFlight = hand
    /\ pc \notin Handling => inFlight = NoEvent
    /\ pc \notin Handling \cup {"flush"} => pending = <<>>

\* The calls of the context use the buffer only for an event in flight.
LEMMA AnyCallBuffer ==
    ASSUME BufferInv, AnyCall
    PROVE  BufferInv'
  <1>1. /\ UNCHANGED <<pc, hand, inFlight>>
        /\ pending' = pending \/ inFlight # NoEvent
    BY DEF AnyCall, Enqueue, EnqueueDelay, EnqueueNow, frameVars, queueVars
  <1> QED
    BY <1>1 DEF BufferInv

LEMMA StepBuffer ==
    ASSUME TypeInv, BufferInv, [OpenNext]_vars
    PROVE  BufferInv'
  <1> USE DEF BufferInv, Handling
  <1>1. CASE AnyCall
    BY <1>1, AnyCallBuffer
  <1>2. CASE Start \/ Loop
    BY <1>2 DEF Start, Loop, TickDelayQueue, TickDone, TickReported, SelectPriority,
                SelectStandard, Halt, NextEvent, queueVars, frameVars
  <1>3. CASE ProcessCreation \/ RunBirthAction \/ NoBirthAction \/ ProcessDeletion
    BY <1>3 DEF ProcessCreation, RunBirthAction, NoBirthAction, ProcessDeletion,
                queueVars, frameVars
  <1>4. CASE \/ UnknownTarget \/ ReceiveEvent \/ LookupTransition \/ PassUnguarded
             \/ (\E holds \in BOOLEAN : EvaluateGuard(holds))
             \/ GuardError \/ GuardReported \/ NoEntryPasses \/ TakeEntry
    BY <1>4 DEF UnknownTarget, ReceiveEvent, LookupTransition, PassUnguarded, EvaluateGuard,
                GuardError, GuardReported, NoEntryPasses, TakeEntry, queueVars, frameVars
  <1>5. CASE ActionReturns \/ ActionReported \/ FireTransition \/ StayInState
    BY <1>5 DEF ActionReturns, ActionReported, FireTransition, StayInState, BeginFlush,
                queueVars, frameVars
  <1>6. CASE CompleteTransition \/ FlushPending \/ FlushDone
    BY <1>6 DEF CompleteTransition, FlushPending, FlushDone, BeginFlush, queueVars, frameVars
  <1>7. CASE Unwind \/ Abandon
    BY <1>7 DEF Unwind, Abandon, BeginFlush, AtYield, queueVars
  <1>8. CASE UNCHANGED vars
    BY <1>8 DEF vars
  <1> QED
    BY <1>1, <1>2, <1>3, <1>4, <1>5, <1>6, <1>7, <1>8 DEF OpenNext, Engine, Process

LEMMA BufferInvariant == OpenSpec => []BufferInv
  <1>1. Init => BufferInv
    BY DEF Init, BufferInv, Handling
  <1>2. TypeInv /\ BufferInv /\ [OpenNext]_vars => BufferInv'
    BY StepBuffer
  <1> QED
    BY <1>1, <1>2, TypeInvariant, PTL DEF OpenSpec

LEMMA BufferIsScopedOpen == OpenSpec => []BufferScoped
  <1>1. TypeInv /\ BufferInv => BufferScoped
    BY NoEventAssumption DEF TypeInv, FrameOK, Holding, BufferInv, BufferScoped
  <1> QED
    BY <1>1, TypeInvariant, BufferInvariant, PTL

\* Between two events the buffer is empty and no event is in flight, on every
\* path, exceptions and dropped generators included (scheduler.py:480-486).
THEOREM BufferIsScoped == Spec => []BufferScoped
  BY BufferIsScopedOpen, SpecIsOpen, PTL

-----------------------------------------------------------------------------
(***************************************************************************)
(* The shapes of a step: what a step can do to the queues. Everything that *)
(* is proved about their contents is proved shape by shape.                *)
(***************************************************************************)

\* No event is added anywhere; timers may go, the event in hand may be done.
Quiet ==
    /\ UNCHANGED <<priority, standard, pending, seq, nextStamp>>
    /\ delay' \subseteq delay
    /\ hand' \in {hand, NoEvent}

\* A new event joins the buffer, or its queue when the buffer is empty.
Joining ==
    \E e \in Event :
        /\ e.stamp = nextStamp
        /\ nextStamp' = nextStamp + 1
        /\ \/ pending' = Append(pending, e) /\ UNCHANGED <<priority, standard>>
           \/ /\ pending = <<>>
              /\ inFlight = NoEvent
              /\ EnqueueDirect(e)
              /\ UNCHANGED pending
        /\ delay' \subseteq delay
        /\ UNCHANGED <<seq, hand>>

SettingTimer ==
    \E e \in Event, d \in Nat :
        /\ e.type \in Signal
        /\ EnqueueDelay(e, d)
        /\ UNCHANGED hand

\* The first event of a queue becomes the event in hand.
Selecting ==
    /\ pc = "pick"
    /\ pending = <<>>
    /\ \/ /\ priority # <<>>
          /\ hand' = Head(priority)
          /\ priority' = Tail(priority)
          /\ UNCHANGED standard
       \/ /\ priority = <<>>
          /\ standard # <<>>
          /\ hand' = Head(standard)
          /\ standard' = Tail(standard)
          /\ UNCHANGED priority
    /\ UNCHANGED <<delay, seq, pending, inFlight, nextStamp>>

\* The first event of the buffer joins its queue.
Flushing ==
    /\ pc = "flush"
    /\ pending # <<>>
    /\ EnqueueDirect(Head(pending))
    /\ pending' = Tail(pending)
    /\ UNCHANGED <<delay, seq, inFlight, hand, nextStamp>>

\* A posted event goes into the buffer or, if there is none, into its queue.
LEMMA PostingJoins ==
    ASSUME TypeInv, BufferInv, NEW e \in Event, e.stamp = nextStamp,
           EnqueueNow(e), UNCHANGED <<pc, frameVars>>, pc # "flush"
    PROVE  Joining
  <1>1. inFlight = NoEvent => pending = <<>>
    BY NoEventAssumption DEF BufferInv, TypeInv, FrameOK, Holding
  <1> QED
    BY <1>1 DEF EnqueueNow, Joining, frameVars

LEMMA AnyCallShape ==
    ASSUME TypeInv, BufferInv, AnyCall
    PROVE  Quiet \/ Joining \/ SettingTimer
  <1>0. pc # "flush" /\ UNCHANGED <<pc, frameVars>>
    BY DEF AnyCall, AtYield
  <1>1. ASSUME NEW type \in Signal, NEW s \in Addr, NEW t \in Addr, NEW d \in Nat,
               Enqueue(NewEvent(type, s, t, Unset), d)
        PROVE  Joining \/ SettingTimer
    <2> DEFINE e == NewEvent(type, s, t, Unset)
    <2>1. e \in Event /\ e.stamp = nextStamp /\ e.type \in Signal
      BY SignalEvent
    <2>2. CASE EnqueueNow(e)
      BY <1>0, <2>1, <2>2, PostingJoins
    <2>3. CASE EnqueueDelay(e, d)
      BY <1>0, <2>1, <2>3 DEF SettingTimer, frameVars
    <2> QED
      BY <1>1, <2>2, <2>3 DEF Enqueue
  <1>2. ASSUME NEW type \in Lifecycle, NEW a \in Addr, NEW i \in StateOrNone,
               EnqueueNow(NewEvent(type, a, a, i))
        PROVE  Joining
    <2> DEFINE e == NewEvent(type, a, a, i)
    <2>1. e \in Event /\ e.stamp = nextStamp
      BY LifecycleEvent
    <2> QED
      BY <1>0, <1>2, <2>1, PostingJoins
  <1>3. CASE /\ \E x \in delay : delay' = delay \ {x}
             /\ UNCHANGED <<priority, standard, seq, pending, inFlight, registry, now, nextStamp>>
    BY <1>0, <1>3 DEF Quiet, frameVars
  <1>4. CASE UNCHANGED <<queueVars, nextStamp>>
    BY <1>0, <1>4 DEF Quiet, queueVars, frameVars
  <1> QED
    BY <1>1, <1>2, <1>3, <1>4 DEF AnyCall

LEMMA StepShape ==
    ASSUME TypeInv, BufferInv, [OpenNext]_vars
    PROVE  Quiet \/ Joining \/ SettingTimer \/ Selecting \/ Flushing
  <1>1. CASE AnyCall
    BY <1>1, AnyCallShape
  <1>2. CASE TickDelayQueue
    <2> DEFINE Expired(x) == [x.ev EXCEPT !.stamp = nextStamp]
    <2>1. PICK x \in delay : EnqueueDirect(Expired(x)) /\ delay' = delay \ {x}
      BY <1>2 DEF TickDelayQueue
    <2>2. Expired(x) \in Event /\ Expired(x).stamp = nextStamp
      BY <2>1 DEF TypeInv, TypeOK, DelayEntry, Event
    <2>3. pending = <<>> /\ inFlight = NoEvent
      BY <1>2 DEF TickDelayQueue, BufferInv, Handling
    <2> QED
      BY <1>2, <2>1, <2>2, <2>3 DEF TickDelayQueue, Joining, frameVars
  <1>3. CASE SelectPriority \/ SelectStandard
    BY <1>3 DEF SelectPriority, SelectStandard, Selecting, BufferInv, Handling
  <1>4. CASE CompleteTransition
    <2>1. CASE UNCHANGED <<pending, nextStamp>>
      BY <1>4, <2>1 DEF CompleteTransition, Quiet, frameVars
    <2>2. CASE /\ pending' = Append(pending, NewEvent("__deletion__", conc, conc, Unset))
               /\ nextStamp' = nextStamp + 1
      <3> DEFINE e == NewEvent("__deletion__", conc, conc, Unset)
      <3>1. conc \in Addr
        BY <1>4 DEF CompleteTransition, TypeInv, FrameOK, Handling
      <3>2. e \in Event /\ e.stamp = nextStamp
        BY <3>1, LifecycleEvent DEF StateOrNone, Lifecycle
      <3> QED
        BY <1>4, <2>2, <3>2 DEF CompleteTransition, Joining, frameVars
    <2> QED
      BY <1>4, <2>1, <2>2 DEF CompleteTransition
  <1>5. CASE FlushPending
    BY <1>5 DEF FlushPending, Flushing, frameVars
  <1>6. CASE Start \/ TickDone \/ TickReported \/ Halt \/ NextEvent
    BY <1>6 DEF Start, TickDone, TickReported, Halt, NextEvent, EmptyFrame, Quiet,
                queueVars, frameVars
  <1>7. CASE ProcessCreation \/ RunBirthAction \/ NoBirthAction \/ ProcessDeletion
    BY <1>7 DEF ProcessCreation, RunBirthAction, NoBirthAction, ProcessDeletion, EmptyFrame,
                Quiet, queueVars, frameVars
  <1>8. CASE \/ UnknownTarget \/ ReceiveEvent \/ LookupTransition \/ PassUnguarded
             \/ (\E holds \in BOOLEAN : EvaluateGuard(holds))
             \/ GuardError \/ GuardReported \/ NoEntryPasses \/ TakeEntry
    BY <1>8 DEF UnknownTarget, ReceiveEvent, LookupTransition, PassUnguarded, EvaluateGuard,
                GuardError, GuardReported, NoEntryPasses, TakeEntry, EmptyFrame, Quiet,
                queueVars, frameVars
  <1>9. CASE \/ ActionReturns \/ ActionReported \/ FireTransition \/ StayInState \/ FlushDone
             \/ Unwind \/ Abandon \/ UNCHANGED vars
    BY <1>9 DEF ActionReturns, ActionReported, FireTransition, StayInState, FlushDone, Unwind,
                Abandon, BeginFlush, EmptyFrame, Quiet, queueVars, frameVars, vars
  <1> QED
    BY <1>1, <1>2, <1>3, <1>4, <1>5, <1>6, <1>7, <1>8, <1>9 DEF OpenNext, Engine, Loop, Process
=============================================================================
