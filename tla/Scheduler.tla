----------------------------- MODULE Scheduler -----------------------------
(***************************************************************************)
(* The simulation engine's core: ThreeQueueScheduler (src/engine/          *)
(* scheduler.py), the InstanceRegistry it drives (src/engine/registry.py)  *)
(* and the SimulationContext calls that reach them (src/engine/ctx.py).    *)
(*                                                                         *)
(* execute() is a Python generator. It runs alone from one `yield` to the  *)
(* next; at a `yield` its caller has control and may call the context: a   *)
(* scenario trigger generates an event there, a method it calls may create *)
(* or delete an instance. An action function calls the context too, from   *)
(* inside the engine. The variable pc names where the generator is:        *)
(*                                                                         *)
(*   at a yield     "ticked", "selected", "received", "guarded",           *)
(*                  "executed", "fired", "created", "deleted", "error"     *)
(*   in an action   "acting"                                               *)
(*   in the engine  "tick", "tickMore", "pick", "guarding", "transit",     *)
(*                  "flush"                                                *)
(*   not running    "idle"                                                 *)
(***************************************************************************)
EXTENDS Manifest, FiniteSets

CONSTANTS
    Cast,       \* the instances the scenario creates before execute()
    Route,      \* <<signal, sender, target>>: what the model's code sends
    BirthStates, \* states its code creates instances in
    Delay,      \* delay_ms of a generate; 0 stands for None
    IdleOps, YieldOps, ActionOps,   \* which context calls are made where
    MayAbort,   \* whether an action may raise, or the caller stop iterating
    MaxEvents,  \* bound: events generated by the context's callers
    MaxTime,    \* bound: the clock's last instant
    NoEvent     \* "no event": Python's None

ASSUME CastAssumption ==
    /\ Cast \subseteq Addr
    /\ \A a \in Cast : a[1] \notin Abstract /\ Initial[a[1]] # Unset

ASSUME RouteAssumption == Route \subseteq Signal \X Addr \X Addr

ASSUME BirthAssumption == BirthStates \subseteq State

ASSUME DelayAssumption == Delay \subseteq Nat

ASSUME BoundAssumption == MaxEvents \in Nat /\ MaxTime \in Nat /\ MayAbort \in BOOLEAN

VARIABLES
    priority, standard, \* the deques _priority and _standard
    delay, seq,         \* the heap _delay and the counter _seq
    pending, inFlight,  \* _pending_generated and _in_flight
    registry,           \* curr_state of each instance, Absent if there is none
    now,                \* SimulationClock._time_ms
    pc,                 \* where execute() is
    hand,               \* the event being processed
    conc, from,         \* its concrete target and the state read for it
    cand, chosen,       \* next candidate entry; entry chosen so far (0: None)
    closing,            \* an exception is unwinding the generator
    nextStamp           \* history: immediate events are numbered as they arise

queueVars == <<priority, standard, delay, seq, pending, inFlight>>
frameVars == <<hand, conc, from, cand, chosen, closing>>
vars == <<priority, standard, delay, seq, pending, inFlight, registry, now,
          pc, hand, conc, from, cand, chosen, closing, nextStamp>>

(***************************************************************************)
(* Events. stamp is no field of the code's Event: it is the history that   *)
(* tells one event from another. A delayed event has stamp 0 and gets its  *)
(* number when it expires, where the code builds a new Event. init is the  *)
(* initial_state argument of a creation.                                   *)
(***************************************************************************)
Event == [stamp : Nat, type : EventType, sender : Addr, target : Addr,
          init : StateOrNone]

ASSUME NoEventAssumption == NoEvent \notin Event

DelayEntry == [expiry : Nat, seq : Nat, ev : Event]

NewEvent(type, sender, target, init) ==
    [stamp |-> nextStamp, type |-> type, sender |-> sender, target |-> target,
     init |-> init]

SelfDirected(e) == e.sender = e.target

SameTriple(e, f) ==
    e.type = f.type /\ e.sender = f.sender /\ e.target = f.target

Earlier(x, y) ==
    \/ x.expiry < y.expiry
    \/ x.expiry = y.expiry /\ x.seq < y.seq

Live(a) == registry[a] # Absent

\* _resolve_class_for_key(): the first class with an instance of this key.
OwnerOfKey(key, c) ==
    \E i \in DOMAIN ClassOrder :
        /\ c = ClassOrder[i]
        /\ Live(<<c, key>>)
        /\ \A j \in 1 .. (i - 1) : ~Live(<<ClassOrder[j], key>>)

-----------------------------------------------------------------------------
(* Routing *)

\* Faulty variants, which the properties must tell from the code, stand before
\* the definition they vary. Here: instances are compared by their class only.
ClassifyQueue_ByClass(e) ==
    IF e.type \notin Lifecycle /\ e.sender[1] = e.target[1] THEN "priority" ELSE "standard"

ClassifyQueue(e) ==
    IF e.type \notin Lifecycle /\ SelfDirected(e) THEN "priority" ELSE "standard"

\* Faulty: appendleft.
EnqueueDirect_Left(e) ==
    \/ /\ ClassifyQueue(e) = "priority"
       /\ priority' = <<e>> \o priority
       /\ UNCHANGED standard
    \/ /\ ClassifyQueue(e) = "standard"
       /\ standard' = <<e>> \o standard
       /\ UNCHANGED priority

EnqueueDirect(e) ==
    \/ /\ ClassifyQueue(e) = "priority"
       /\ priority' = Append(priority, e)
       /\ UNCHANGED standard
    \/ /\ ClassifyQueue(e) = "standard"
       /\ standard' = Append(standard, e)
       /\ UNCHANGED priority

\* Faulty: the earlier timer of the triple is kept; the counter stands still;
\* the delay is subtracted.
EnqueueDelay_KeepsOld(e, d) ==
    /\ delay' = delay \cup {[expiry |-> now + d, seq |-> seq, ev |-> [e EXCEPT !.stamp = 0]]}
    /\ seq' = seq + 1
    /\ UNCHANGED <<priority, standard, pending, inFlight, nextStamp>>

EnqueueDelay_SameSeq(e, d) ==
    /\ delay' = {x \in delay : ~SameTriple(x.ev, e)}
                  \cup {[expiry |-> now + d, seq |-> seq, ev |-> [e EXCEPT !.stamp = 0]]}
    /\ UNCHANGED <<priority, standard, pending, inFlight, seq, nextStamp>>

EnqueueDelay_Minus(e, d) ==
    /\ delay' = {x \in delay : ~SameTriple(x.ev, e)}
                  \cup {[expiry |-> now - d, seq |-> seq, ev |-> [e EXCEPT !.stamp = 0]]}
    /\ seq' = seq + 1
    /\ UNCHANGED <<priority, standard, pending, inFlight, nextStamp>>

EnqueueDelay(e, d) ==
    /\ delay' = {x \in delay : ~SameTriple(x.ev, e)}
                  \cup {[expiry |-> now + d, seq |-> seq, ev |-> [e EXCEPT !.stamp = 0]]}
    /\ seq' = seq + 1
    /\ UNCHANGED <<priority, standard, pending, inFlight, nextStamp>>

\* Faulty: the run-to-completion buffer is not used.
EnqueueNow_Unbuffered(e) ==
    /\ EnqueueDirect(e)
    /\ nextStamp' = nextStamp + 1
    /\ UNCHANGED <<pending, delay, seq, inFlight>>

EnqueueNow(e) ==
    /\ \/ /\ inFlight # NoEvent
          /\ pending' = Append(pending, e)
          /\ UNCHANGED <<priority, standard>>
       \/ /\ inFlight = NoEvent
          /\ EnqueueDirect(e)
          /\ UNCHANGED pending
    /\ nextStamp' = nextStamp + 1
    /\ UNCHANGED <<delay, seq, inFlight>>

Enqueue(e, d) == IF d > 0 THEN EnqueueDelay(e, d) ELSE EnqueueNow(e)

-----------------------------------------------------------------------------
(* The calls of the context. They return to their caller: pc stays.        *)

AtYield == pc \in {"ticked", "selected", "received", "guarded", "executed",
                   "fired", "created", "deleted", "error"}

Allowed(op) ==
    \/ pc = "idle" /\ op \in IdleOps
    \/ AtYield /\ op \in YieldOps
    \/ pc = "acting" /\ op \in ActionOps

WithinBudget == nextStamp + seq < MaxEvents

Generate(type, sender, target, d) ==
    /\ Allowed("generate")
    /\ WithinBudget
    /\ Enqueue(NewEvent(type, sender, target, Unset), d)
    /\ UNCHANGED <<registry, now, pc, frameVars>>

\* At most one entry of the heap matches (DelayUnique); if none does, the
\* call returns [] and nothing changes.
Cancel(type, sender, target) ==
    /\ Allowed("cancel")
    /\ \E x \in delay :
          /\ x.ev.type = type /\ x.ev.sender = sender /\ x.ev.target = target
          /\ delay' = delay \ {x}
    /\ UNCHANGED <<priority, standard, seq, pending, inFlight, registry, now, pc,
                   frameVars, nextStamp>>

\* An instance that exists already is silently replaced.
CreateSync(a, init) ==
    /\ Allowed("create")
    /\ a[1] \notin Abstract
    /\ registry' = [registry EXCEPT ![a] = init]
    /\ UNCHANGED <<queueVars, now, pc, frameVars, nextStamp>>

CreateAsync(a, init) ==
    /\ Allowed("createAsync")
    /\ WithinBudget
    /\ a[1] \notin Abstract
    /\ registry' = [registry EXCEPT ![a] = Unset]
    /\ EnqueueNow(NewEvent("__creation__", a, a, init))
    /\ UNCHANGED <<now, pc, frameVars>>

DeleteSync(a) ==
    /\ Allowed("delete")
    /\ Live(a)
    /\ registry' = [registry EXCEPT ![a] = Absent]
    /\ UNCHANGED <<queueVars, now, pc, frameVars, nextStamp>>

DeleteAsync(a) ==
    /\ Allowed("deleteAsync")
    /\ WithinBudget
    /\ Live(a)
    /\ EnqueueNow(NewEvent("__deletion__", a, a, Unset))
    /\ UNCHANGED <<registry, now, pc, frameVars>>

\* clock.advance(): only the caller of the engine moves simulated time.
AdvanceClock(d) ==
    /\ Allowed("advance")
    /\ now + d <= MaxTime
    /\ now' = now + d
    /\ UNCHANGED <<queueVars, registry, pc, frameVars, nextStamp>>

ContextCall ==
    \/ \E r \in Route, d \in Delay : Generate(r[1], r[2], r[3], d)
    \/ \E r \in Route : Cancel(r[1], r[2], r[3])
    \/ \E a \in Addr, s \in BirthStates : CreateSync(a, s)
    \/ \E a \in Addr, s \in BirthStates \cup {Unset} : CreateAsync(a, s)
    \/ \E a \in Addr : DeleteSync(a)
    \/ \E a \in Addr : DeleteAsync(a)
    \/ AdvanceClock(1)

-----------------------------------------------------------------------------
(* execute(): the loop *)

EmptyFrame ==
    /\ hand' = NoEvent
    /\ conc' = NoAddr
    /\ from' = Unset
    /\ cand' = 1
    /\ chosen' = 0
    /\ closing' = FALSE

Start ==
    /\ pc = "idle"
    /\ pc' = "tick"
    /\ UNCHANGED <<queueVars, registry, now, frameVars, nextStamp>>

\* Faulty: an expired entry that is not the least; `<` for `<=`.
TickDelayQueue_AnyOrder ==
    /\ pc \in {"tick", "tickMore"}
    /\ \E x \in delay :
          /\ x.expiry <= now
          /\ delay' = delay \ {x}
          /\ EnqueueDirect([x.ev EXCEPT !.stamp = nextStamp])
    /\ nextStamp' = nextStamp + 1
    /\ pc' = "tickMore"
    /\ UNCHANGED <<seq, pending, inFlight, registry, now, frameVars>>

TickDelayQueue_Late ==
    /\ pc \in {"tick", "tickMore"}
    /\ \E x \in delay :
          /\ x.expiry < now
          /\ \A y \in delay \ {x} : Earlier(x, y)
          /\ delay' = delay \ {x}
          /\ EnqueueDirect([x.ev EXCEPT !.stamp = nextStamp])
    /\ nextStamp' = nextStamp + 1
    /\ pc' = "tickMore"
    /\ UNCHANGED <<seq, pending, inFlight, registry, now, frameVars>>

\* tick_delay_queue() pops the least entry of the heap while it has expired,
\* and re-routes it; the steps it reports are yielded when it is done.
TickDelayQueue ==
    /\ pc \in {"tick", "tickMore"}
    /\ \E x \in delay :
          /\ x.expiry <= now
          /\ \A y \in delay \ {x} : Earlier(x, y)
          /\ delay' = delay \ {x}
          /\ EnqueueDirect([x.ev EXCEPT !.stamp = nextStamp])
    /\ nextStamp' = nextStamp + 1
    /\ pc' = "tickMore"
    /\ UNCHANGED <<seq, pending, inFlight, registry, now, frameVars>>

TickDone ==
    /\ pc \in {"tick", "tickMore"}
    /\ \A x \in delay : x.expiry > now
    /\ pc' = IF pc = "tick" THEN "pick" ELSE "ticked"
    /\ UNCHANGED <<queueVars, registry, now, frameVars, nextStamp>>

TickReported ==
    /\ pc = "ticked"
    /\ pc' = "pick"
    /\ UNCHANGED <<queueVars, registry, now, frameVars, nextStamp>>

SelectPriority ==
    /\ pc = "pick"
    /\ priority # <<>>
    /\ hand' = Head(priority)
    /\ priority' = Tail(priority)
    /\ pc' = "selected"
    /\ UNCHANGED <<standard, delay, seq, pending, inFlight, registry, now,
                   conc, from, cand, chosen, closing, nextStamp>>

\* Faulty: the event stays in the queue; the priority queue is not asked first.
SelectStandard_Peek ==
    /\ pc = "pick"
    /\ priority = <<>>
    /\ standard # <<>>
    /\ hand' = Head(standard)
    /\ pc' = "selected"
    /\ UNCHANGED <<standard, priority, delay, seq, pending, inFlight, registry, now,
                   conc, from, cand, chosen, closing, nextStamp>>

SelectStandard_Unordered ==
    /\ pc = "pick"
    /\ standard # <<>>
    /\ hand' = Head(standard)
    /\ standard' = Tail(standard)
    /\ pc' = "selected"
    /\ UNCHANGED <<priority, delay, seq, pending, inFlight, registry, now,
                   conc, from, cand, chosen, closing, nextStamp>>

SelectStandard ==
    /\ pc = "pick"
    /\ priority = <<>>
    /\ standard # <<>>
    /\ hand' = Head(standard)
    /\ standard' = Tail(standard)
    /\ pc' = "selected"
    /\ UNCHANGED <<priority, delay, seq, pending, inFlight, registry, now,
                   conc, from, cand, chosen, closing, nextStamp>>

\* Faulty: only the priority queue is looked at.
Halt_Early ==
    /\ pc = "pick"
    /\ priority = <<>>
    /\ pc' = "idle"
    /\ UNCHANGED <<queueVars, registry, now, frameVars, nextStamp>>

\* Faulty: the loop goes on while timers are pending.
Halt_Spin ==
    /\ pc = "pick"
    /\ priority = <<>>
    /\ standard = <<>>
    /\ pc' = IF delay = {} THEN "idle" ELSE "tick"
    /\ UNCHANGED <<queueVars, registry, now, frameVars, nextStamp>>

\* Neither immediate queue holds an event: the generator returns.
Halt ==
    /\ pc = "pick"
    /\ priority = <<>>
    /\ standard = <<>>
    /\ pc' = "idle"
    /\ UNCHANGED <<queueVars, registry, now, frameVars, nextStamp>>

\* After the last micro-step of an event the loop starts over.
NextEvent ==
    /\ pc \in {"error", "deleted"}
    /\ pc' = "tick"
    /\ EmptyFrame
    /\ UNCHANGED <<queueVars, registry, now, nextStamp>>

-----------------------------------------------------------------------------
(* _process_creation and _process_deletion: no polymorphic resolution *)

\* Faulty: no default from the class's manifest.
BirthState_NoDefault(e) == e.init

BirthState(e) == IF e.init # Unset THEN e.init ELSE Initial[e.target[1]]

\* registry.set_state() does nothing for an instance that is gone.
SetState(a, s) ==
    registry' = IF Live(a) THEN [registry EXCEPT ![a] = s] ELSE registry

ProcessCreation ==
    /\ pc = "selected"
    /\ hand.type = "__creation__"
    /\ \/ BirthState(hand) # Unset /\ SetState(hand.target, BirthState(hand))
       \/ BirthState(hand) = Unset /\ UNCHANGED registry
    /\ pc' = "created"
    /\ UNCHANGED <<queueVars, now, frameVars, nextStamp>>

RunBirthAction ==
    /\ pc = "created"
    /\ hand.target[1] \in HasBirthAction
    /\ inFlight' = hand
    /\ pc' = "acting"
    /\ UNCHANGED <<priority, standard, delay, seq, pending, registry, now,
                   frameVars, nextStamp>>

NoBirthAction ==
    /\ pc = "created"
    /\ hand.target[1] \notin HasBirthAction
    /\ pc' = "tick"
    /\ EmptyFrame
    /\ UNCHANGED <<queueVars, registry, now, nextStamp>>

ProcessDeletion ==
    /\ pc = "selected"
    /\ hand.type = "__deletion__"
    /\ registry' = [registry EXCEPT ![hand.target] = Absent]
    /\ pc' = IF Live(hand.target) THEN "deleted" ELSE "error"
    /\ UNCHANGED <<queueVars, now, frameVars, nextStamp>>

-----------------------------------------------------------------------------
(* _process_event: an event of the domain *)

\* _resolve_target(): the instance itself, or the first subtype's instance
\* with the same identifier.
ResolvesTo(a, c) ==
    \/ Live(a) /\ c = a
    \/ /\ ~Live(a)
       /\ \E i \in DOMAIN Subtypes[a[1]] :
             /\ c = <<Subtypes[a[1]][i], a[2]>>
             /\ Live(c)
             /\ \A j \in 1 .. (i - 1) : ~Live(<<Subtypes[a[1]][j], a[2]>>)

Unresolved(a) ==
    /\ ~Live(a)
    /\ \A i \in DOMAIN Subtypes[a[1]] : ~Live(<<Subtypes[a[1]][i], a[2]>>)

UnknownTarget ==
    /\ pc = "selected"
    /\ hand.type \in Signal
    /\ Unresolved(hand.target)
    /\ pc' = "error"
    /\ UNCHANGED <<queueVars, registry, now, frameVars, nextStamp>>

\* The state is read here, before the yield of EventReceived.
ReceiveEvent ==
    /\ pc = "selected"
    /\ hand.type \in Signal
    /\ \E c \in Addr :
          /\ ResolvesTo(hand.target, c)
          /\ conc' = c
          /\ from' = registry[c]
    /\ pc' = "received"
    /\ UNCHANGED <<queueVars, registry, now, hand, cand, chosen, closing, nextStamp>>

Entries == Table[<<conc[1], from, hand.type>>]

LookupTransition ==
    /\ pc = "received"
    /\ \/ Entries = CantHappen /\ pc' = "error" /\ UNCHANGED frameVars
       \/ Ignored(Entries) /\ pc' = "tick" /\ EmptyFrame
       \/ /\ Entries # CantHappen
          /\ ~Ignored(Entries)
          /\ pc' = "guarding"
          /\ UNCHANGED frameVars
    /\ UNCHANGED <<queueVars, registry, now, nextStamp>>

\* An unguarded entry is the fallback if none was seen before it.
PassUnguarded ==
    /\ pc = "guarding"
    /\ cand <= Len(Entries)
    /\ ~Entries[cand].guarded
    /\ chosen' = IF chosen = 0 THEN cand ELSE chosen
    /\ cand' = cand + 1
    /\ UNCHANGED <<queueVars, registry, now, pc, hand, conc, from, closing, nextStamp>>

\* A guard reads the instance and the arguments: any outcome is possible.
\* The entry of a guard that holds is taken, whatever the fallback is.
EvaluateGuard(holds) ==
    /\ pc = "guarding"
    /\ cand <= Len(Entries)
    /\ Entries[cand].guarded
    /\ pc' = "guarded"
    /\ \/ holds /\ chosen' = cand /\ cand' = Len(Entries) + 1
       \/ ~holds /\ cand' = cand + 1 /\ UNCHANGED chosen
    /\ UNCHANGED <<queueVars, registry, now, hand, conc, from, closing, nextStamp>>

\* A guard that raises abandons the event.
GuardError ==
    /\ pc = "guarding"
    /\ cand <= Len(Entries)
    /\ Entries[cand].guarded
    /\ pc' = "error"
    /\ UNCHANGED <<queueVars, registry, now, frameVars, nextStamp>>

GuardReported ==
    /\ pc = "guarded"
    /\ pc' = "guarding"
    /\ UNCHANGED <<queueVars, registry, now, frameVars, nextStamp>>

NoEntryPasses ==
    /\ pc = "guarding"
    /\ cand > Len(Entries)
    /\ chosen = 0
    /\ pc' = "tick"
    /\ EmptyFrame
    /\ UNCHANGED <<queueVars, registry, now, nextStamp>>

\* Faulty: the state changes before the action runs.
TakeEntry_StateFirst ==
    /\ pc = "guarding"
    /\ cand > Len(Entries)
    /\ chosen # 0
    /\ inFlight' = hand
    /\ IF Entries[chosen].next # Unset THEN SetState(conc, Entries[chosen].next)
                                       ELSE UNCHANGED registry
    /\ pc' = IF Entries[chosen].acts THEN "acting" ELSE "transit"
    /\ UNCHANGED <<priority, standard, delay, seq, pending, now, frameVars, nextStamp>>

\* From here to the flush the event is in flight.
TakeEntry ==
    /\ pc = "guarding"
    /\ cand > Len(Entries)
    /\ chosen # 0
    /\ inFlight' = hand
    /\ pc' = IF Entries[chosen].acts THEN "acting" ELSE "transit"
    /\ UNCHANGED <<priority, standard, delay, seq, pending, registry, now,
                   frameVars, nextStamp>>

ActionReturns ==
    /\ pc = "acting"
    /\ pc' = "executed"
    /\ UNCHANGED <<queueVars, registry, now, frameVars, nextStamp>>

\* The finally block: in_flight is cleared, then the buffer is flushed.
BeginFlush ==
    /\ inFlight' = NoEvent
    /\ pc' = "flush"

ActionReported ==
    /\ pc = "executed"
    /\ \/ hand.type \in Signal /\ pc' = "transit" /\ UNCHANGED inFlight
       \/ hand.type = "__creation__" /\ BeginFlush
    /\ UNCHANGED <<priority, standard, delay, seq, pending, registry, now,
                   frameVars, nextStamp>>

FireTransition ==
    /\ pc = "transit"
    /\ Entries[chosen].next # Unset
    /\ SetState(conc, Entries[chosen].next)
    /\ pc' = "fired"
    /\ UNCHANGED <<queueVars, now, frameVars, nextStamp>>

StayInState ==
    /\ pc = "transit"
    /\ Entries[chosen].next = Unset
    /\ BeginFlush
    /\ UNCHANGED <<priority, standard, delay, seq, pending, registry, now,
                   frameVars, nextStamp>>

\* Faulty: a final state is a state like any other.
CompleteTransition_Stays ==
    /\ pc = "fired"
    /\ BeginFlush
    /\ UNCHANGED <<priority, standard, delay, seq, pending, registry, now, frameVars,
                   nextStamp>>

\* A final state asks for the instance's deletion, through the buffer.
CompleteTransition ==
    /\ pc = "fired"
    /\ \/ /\ Entries[chosen].next \in Final[conc[1]]
          /\ Live(conc)
          /\ pending' = Append(pending, NewEvent("__deletion__", conc, conc, Unset))
          /\ nextStamp' = nextStamp + 1
       \/ /\ \/ Entries[chosen].next \notin Final[conc[1]]
             \/ ~Live(conc)
          /\ UNCHANGED <<pending, nextStamp>>
    /\ BeginFlush
    /\ UNCHANGED <<priority, standard, delay, seq, registry, now, frameVars>>

\* Faulty: last in, first out; the buffer is cleared after the first event.
FlushPending_Reversed ==
    /\ pc = "flush"
    /\ pending # <<>>
    /\ EnqueueDirect(pending[Len(pending)])
    /\ pending' = SubSeq(pending, 1, Len(pending) - 1)
    /\ UNCHANGED <<delay, seq, inFlight, registry, now, pc, frameVars, nextStamp>>

FlushPending_FirstOnly ==
    /\ pc = "flush"
    /\ pending # <<>>
    /\ EnqueueDirect(Head(pending))
    /\ pending' = <<>>
    /\ UNCHANGED <<delay, seq, inFlight, registry, now, pc, frameVars, nextStamp>>

FlushPending ==
    /\ pc = "flush"
    /\ pending # <<>>
    /\ EnqueueDirect(Head(pending))
    /\ pending' = Tail(pending)
    /\ UNCHANGED <<delay, seq, inFlight, registry, now, pc, frameVars, nextStamp>>

FlushDone ==
    /\ pc = "flush"
    /\ pending = <<>>
    /\ pc' = IF closing THEN "idle" ELSE "tick"
    /\ EmptyFrame
    /\ UNCHANGED <<queueVars, registry, now, nextStamp>>

-----------------------------------------------------------------------------
(* The generator ends before its time *)

\* Faulty: no finally block.
Unwind_NoFinally ==
    /\ MayAbort
    /\ pc \in {"acting", "executed", "fired"}
    /\ pc' = "idle"
    /\ EmptyFrame
    /\ UNCHANGED <<queueVars, registry, now, nextStamp>>

\* An action raises, or the caller drops the generator at a yield inside the
\* try: the finally block runs, nothing of the event that follows it does.
Unwind ==
    /\ MayAbort
    /\ pc \in {"acting", "executed", "fired"}
    /\ closing' = TRUE
    /\ BeginFlush
    /\ UNCHANGED <<priority, standard, delay, seq, pending, registry, now,
                   hand, conc, from, cand, chosen, nextStamp>>

\* The caller drops the generator at any other yield.
Abandon ==
    /\ MayAbort
    /\ AtYield
    /\ pc \notin {"executed", "fired"}
    /\ pc' = "idle"
    /\ EmptyFrame
    /\ UNCHANGED <<queueVars, registry, now, nextStamp>>

-----------------------------------------------------------------------------
Init ==
    /\ priority = <<>>
    /\ standard = <<>>
    /\ delay = {}
    /\ seq = 0
    /\ pending = <<>>
    /\ inFlight = NoEvent
    /\ registry = [a \in Addr |-> IF a \in Cast THEN Initial[a[1]] ELSE Absent]
    /\ now = 0
    /\ pc = "idle"
    /\ hand = NoEvent
    /\ conc = NoAddr
    /\ from = Unset
    /\ cand = 1
    /\ chosen = 0
    /\ closing = FALSE
    /\ nextStamp = 1

Loop ==
    \/ TickDelayQueue \/ TickDone \/ TickReported
    \/ SelectPriority \/ SelectStandard \/ Halt \/ NextEvent

Process ==
    \/ ProcessCreation \/ RunBirthAction \/ NoBirthAction \/ ProcessDeletion
    \/ UnknownTarget \/ ReceiveEvent \/ LookupTransition
    \/ PassUnguarded \/ (\E holds \in BOOLEAN : EvaluateGuard(holds))
    \/ GuardError \/ GuardReported \/ NoEntryPasses \/ TakeEntry
    \/ ActionReturns \/ ActionReported
    \/ FireTransition \/ StayInState \/ CompleteTransition
    \/ FlushPending \/ FlushDone

\* What the generator does when its caller asks for the next micro-step.
Engine == Loop \/ Process

Next == Engine \/ Start \/ ContextCall \/ Unwind \/ Abandon

Spec == Init /\ [][Next]_vars

(***************************************************************************)
(* The caller that started execute() keeps asking for micro-steps (the for *)
(* loops of scenario_runner.py and simulation.py), and action functions    *)
(* return. Nothing makes a caller start the engine or call the context.    *)
(***************************************************************************)
FairSpec == Spec /\ WF_vars(Engine)
=============================================================================
