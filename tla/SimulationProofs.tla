-------------------------- MODULE SimulationProofs --------------------------
(***************************************************************************)
(* Proofs about a run of a scenario and about the call it is part of, for  *)
(* every scenario, table, cap, domain and set of requests. First           *)
(* run_scenario() and its triggers: no armed trigger misses the state it   *)
(* waits for (trigger.py), and a run that is done leaves no event behind   *)
(* (scenario_runner.py). Then simulate_domain() and simulate_class(): the  *)
(* run changes none of the driver's variables, and all that their          *)
(* invariants need of it is that a run which is done has ended, and that   *)
(* a run goes on with the scenario it was started with.                    *)
(***************************************************************************)
EXTENDS SimulationDriver, QueueProofs

\* A trigger that is to fire once is armed and has its state.
Waits(t) ==
    /\ t \in armed
    /\ ~script.triggers[t].repeat
    /\ Bound(script.triggers[t].on)
    /\ CurrState(script.triggers[t].on) = script.triggers[t].state

\* What the engine does from one yield to the next without leaving the event.
BetweenYields == {"guarding", "acting", "transit"}

\* No such trigger is left once the triggers were evaluated, and until the
\* state of an instance changes again: between two yields the engine changes
\* at most one, in the last of its steps.
SettledInv ==
    /\ script \in Scripts
    /\ DOMAIN registry = Addr
    /\ armed \subseteq DOMAIN script.triggers
    /\ stage = "create" => armed = {}
    /\ (AtYield /\ judged) \/ pc \in BetweenYields => \A t \in armed : ~Waits(t)

-----------------------------------------------------------------------------
(* What a trigger sees *)

LEMMA AliasFacts ==
    ASSUME script \in Scripts, NEW t \in DOMAIN script.triggers
    PROVE  script.triggers[t].on \in Alias
<1>1. script.triggers \in Seq(TriggerDef)
    BY ScriptAssumption
<1>2. script.triggers[t] \in TriggerDef
    BY <1>1
<1> QED BY <1>2 DEF TriggerDef

LEMMA AddressFacts ==
    ASSUME script \in Scripts, NEW x, Named(x)
    PROVE  Address(x) \in Addr
<1> DEFINE i == CHOOSE i \in DOMAIN script.instances : script.instances[i].name = x
<1>1. i \in DOMAIN script.instances
    BY DEF Named
<1>2. script.instances \in Seq(InstanceDef)
    BY ScriptAssumption
<1> HIDE DEF i
<1>3. script.instances[i] \in InstanceDef
    BY <1>1, <1>2
<1>4. script.instances[i].addr \in Addr
    BY <1>3 DEF InstanceDef
<1> QED BY <1>4 DEF Address, i

\* A dict that leaves the registry keeps its state, and others are not
\* touched: no alias sees a difference.
LEMMA DetachedSeeTheSame ==
    ASSUME NEW addrs, Detach(addrs), script' = script, NEW x \in Alias,
           x \in current /\ Address(x) \notin addrs => registry'[Address(x)] = registry[Address(x)]
    PROVE  CurrState(x)' = CurrState(x)
<1>1. Address(x)' = Address(x)
    BY DEF Address
<1>2. CASE x \in current /\ Address(x) \in addrs
    BY <1>1, <1>2 DEF Detach, CurrState
<1>3. CASE x \in current /\ Address(x) \notin addrs
    BY <1>1, <1>3 DEF Detach, CurrState
<1>4. CASE x \notin current
    BY <1>1, <1>4 DEF Detach, CurrState
<1> QED BY <1>2, <1>3, <1>4

LEMMA RestingSeeTheSame ==
    ASSUME UNCHANGED <<registry, script, current, frozen>>, NEW x
    PROVE  CurrState(x)' = CurrState(x)
BY DEF CurrState, Address

LEMMA PerformRests ==
    ASSUME NEW def, NEW d, Perform(def, d)
    PROVE  UNCHANGED <<registry, pc>>
BY DEF Perform, Post, vars

\* The engine changes a state only in the steps to these yields.
LEMMA EngineRests ==
    ASSUME Engine, DOMAIN registry = Addr
    PROVE  /\ DOMAIN registry' = Addr
           /\ \/ registry' = registry
              \/ pc \in {"selected", "transit"} /\ pc' \in {"created", "deleted", "error", "fired"}
           /\ pc' \in BetweenYields => AtYield \/ pc \in BetweenYields
<1> USE DEF BetweenYields, AtYield
<1>1. CASE Loop
    BY <1>1 DEF Loop, TickDelayQueue, TickDone, TickReported, SelectPriority,
                SelectStandard, Halt, NextEvent
<1>2. CASE ProcessCreation \/ ProcessDeletion \/ FireTransition
    BY <1>2 DEF ProcessCreation, ProcessDeletion, FireTransition, SetState
<1>3. CASE RunBirthAction \/ NoBirthAction \/ UnknownTarget \/ ReceiveEvent \/ LookupTransition
    BY <1>3 DEF RunBirthAction, NoBirthAction, UnknownTarget, ReceiveEvent, LookupTransition
<1>4. CASE PassUnguarded \/ (\E holds \in BOOLEAN : EvaluateGuard(holds)) \/ GuardError
           \/ GuardReported \/ NoEntryPasses \/ TakeEntry
    BY <1>4 DEF PassUnguarded, EvaluateGuard, GuardError, GuardReported, NoEntryPasses, TakeEntry
<1>5. CASE ActionReturns \/ ActionReported \/ StayInState \/ CompleteTransition
           \/ FlushPending \/ FlushDone
    BY <1>5 DEF ActionReturns, ActionReported, StayInState, CompleteTransition, BeginFlush,
                FlushPending, FlushDone
<1> QED BY <1>1, <1>2, <1>3, <1>4, <1>5 DEF Engine, Process

-----------------------------------------------------------------------------
(* The steps *)

\* What a step that changes no state of an alias, and arms no trigger, leaves
\* of the invariant.
LEMMA SettledRests ==
    ASSUME SettledInv, script' = script, armed' \subseteq armed,
           \A x \in Alias : Named(x) => CurrState(x)' = CurrState(x)
    PROVE  \A t \in armed' : Waits(t)' => Waits(t)
<1> SUFFICES ASSUME NEW t \in armed', Waits(t)' PROVE Waits(t)
    OBVIOUS
<1>1. script.triggers[t].on \in Alias
    BY AliasFacts DEF SettledInv
<1>2. Bound(script.triggers[t].on) /\ Named(script.triggers[t].on)
    BY DEF Waits, Bound, Named, Address
<1>3. CurrState(script.triggers[t].on)' = CurrState(script.triggers[t].on)
    BY <1>1, <1>2
<1> QED BY <1>2, <1>3 DEF Waits

LEMMA AdvanceSees ==
    ASSUME SettledInv, Advance, registry' = registry
    PROVE  \A x \in Alias : CurrState(x)' = CurrState(x)
<1>1. Detach({})
    BY DEF Advance, Deleted, Live, Detach
<1> QED BY <1>1, DetachedSeeTheSame DEF Advance, given

LEMMA DomainCodeSees ==
    ASSUME SettledInv, DomainCode
    PROVE  /\ DOMAIN registry' = Addr
           /\ pc' = pc
           /\ \A x \in Alias : Named(x) => CurrState(x)' = CurrState(x)
<1>0. script' = script /\ script \in Scripts /\ DOMAIN registry = Addr
    BY DEF DomainCode, given, SettledInv
<1>1. ASSUME UNCHANGED registry, Detach({})
      PROVE  \A x \in Alias : CurrState(x)' = CurrState(x)
    BY <1>0, <1>1, DetachedSeeTheSame
<1>2. ASSUME NEW a \in Addr, NEW v, registry' = [registry EXCEPT ![a] = v], Detach({a})
      PROVE  /\ DOMAIN registry' = Addr
             /\ \A x \in Alias : Named(x) => CurrState(x)' = CurrState(x)
    <2>1. DOMAIN registry' = Addr /\ \A b \in Addr \ {a} : registry'[b] = registry[b]
        BY <1>0, <1>2
    <2> QED BY <1>0, <1>2, <2>1, AddressFacts, DetachedSeeTheSame
<1>3. CASE \E r \in Route : \/ (\E d \in Delay : Generate(r[1], r[2], r[3], d)) /\ Detach({})
                            \/ Cancel(r[1], r[2], r[3]) /\ Detach({})
    BY <1>0, <1>1, <1>3 DEF Generate, Cancel
<1>4. CASE \E a \in Addr : DeleteAsync(a) /\ Detach({})
    BY <1>0, <1>1, <1>4 DEF DeleteAsync
<1>5. ASSUME NEW a \in Addr, Detach({a}),
             \/ DeleteSync(a)
             \/ \E s \in BirthStates : CreateSync(a, s)
             \/ \E s \in BirthStates \cup {Unset} : CreateAsync(a, s)
      PROVE  /\ DOMAIN registry' = Addr /\ pc' = pc
             /\ \A x \in Alias : Named(x) => CurrState(x)' = CurrState(x)
    <2>1. pc' = pc /\ \E v : registry' = [registry EXCEPT ![a] = v]
        BY <1>5 DEF DeleteSync, CreateSync, CreateAsync
    <2> QED BY <1>2, <1>5, <2>1
<1>6. CASE UNCHANGED <<vars, current, frozen>>
    <2>1. UNCHANGED <<registry, pc>>
        BY <1>6 DEF vars
    <2> QED BY <1>0, <1>6, <2>1, RestingSeeTheSame
<1> QED BY <1>3, <1>4, <1>5, <1>6 DEF DomainCode

LEMMA SettledStep == SettledInv /\ [SNext]_sVars => SettledInv'
<1> SUFFICES ASSUME SettledInv, [SNext]_sVars PROVE SettledInv'
    OBVIOUS
<1> USE DEF SettledInv
<1>1. CASE CreateNext
    BY <1>1 DEF CreateNext, given
<1>2. CASE CreatedAll \/ RelateNext \/ RelatedAll \/ FiredAll \/ MethodReturns
    <2>1. /\ UNCHANGED <<vars, script, current, frozen, armed, judged>>
          /\ stage' # "create" \/ stage' = stage
        BY <1>2 DEF CreatedAll, RelateNext, RelatedAll, FiredAll, MethodReturns, given
    <2>2. UNCHANGED <<registry, pc>>
        BY <2>1 DEF vars
    <2>3. \A x : CurrState(x)' = CurrState(x)
        BY <2>1, <2>2, RestingSeeTheSame
    <2> QED BY <2>1, <2>2, <2>3, SettledRests DEF AtYield
<1>3. CASE PostNext \/ FireNext
    <2>1. /\ UNCHANGED <<script, current, frozen, armed, judged>>
          /\ \E def, d : Perform(def, d)
          /\ stage' # "create"
        BY <1>3 DEF PostNext, FireNext, Perform, given
    <2>2. UNCHANGED <<registry, pc>>
        BY <2>1, PerformRests
    <2>3. \A x : CurrState(x)' = CurrState(x)
        BY <2>1, <2>2, RestingSeeTheSame
    <2> QED BY <2>1, <2>2, <2>3, SettledRests DEF AtYield
<1>4. CASE StartRun
    BY <1>4 DEF StartRun, Start, AtYield, BetweenYields, given
<1>5. CASE Advance
    <2>1. /\ Engine /\ (AtYield => judged)
          /\ judged' = FALSE /\ stage' # "create"
          /\ UNCHANGED <<script, armed>>
        BY <1>5 DEF Advance, given
    <2>2. DOMAIN registry' = Addr
        BY <2>1, EngineRests
    <2>3. ASSUME pc' \in BetweenYields PROVE \A t \in armed' : ~Waits(t)'
        <3>1. registry' = registry /\ (AtYield \/ pc \in BetweenYields)
            BY <2>1, <2>3, EngineRests DEF BetweenYields
        <3>2. \A t \in armed : ~Waits(t)
            BY <2>1, <3>1
        <3> QED BY <1>5, <2>1, <3>1, <3>2, AdvanceSees, SettledRests
    <2> QED BY <2>1, <2>2, <2>3
<1>6. CASE Evaluate
    <2>1. /\ UNCHANGED <<vars, script, current, frozen>>
          /\ armed' = {t \in armed : ~Due(t) \/ script.triggers[t].repeat}
          /\ stage' # "create"
        BY <1>6 DEF Evaluate, given
    <2>2. UNCHANGED <<registry, pc>>
        BY <2>1 DEF vars
    <2>3. \A x : CurrState(x)' = CurrState(x)
        BY <2>1, <2>2, RestingSeeTheSame
    <2>4. ASSUME NEW t \in armed' PROVE ~Waits(t)
        BY <2>1 DEF Due, Waits
    <2> QED BY <2>1, <2>2, <2>3, <2>4, SettledRests
<1>7. CASE DomainCode
    <2>1. UNCHANGED <<script, stage, armed, judged>>
        BY <1>7 DEF DomainCode, given
    <2>2. \A t \in armed' : Waits(t)' => Waits(t)
        BY <1>7, <2>1, DomainCodeSees, SettledRests
    <2> QED BY <1>7, <2>1, <2>2, DomainCodeSees DEF AtYield
<1>8. CASE CodeRaises
    <2>1. /\ UNCHANGED <<registry, script, current, frozen, armed, judged>>
          /\ pc' = pc \/ pc' = "flush"
          /\ stage' # "create"
        BY <1>8 DEF CodeRaises, Unwind, BeginFlush, vars, given
    <2>2. \A x : CurrState(x)' = CurrState(x)
        BY <2>1, RestingSeeTheSame
    <2> QED BY <2>1, <2>2, SettledRests DEF AtYield, BetweenYields
<1>9. CASE UNCHANGED sVars
    <2>1. UNCHANGED <<registry, pc, script, current, frozen, armed, judged, stage>>
        BY <1>9 DEF sVars, vars, runnerVars, given
    <2>2. \A x : CurrState(x)' = CurrState(x)
        BY <2>1, RestingSeeTheSame
    <2> QED BY <2>1, <2>2, SettledRests DEF AtYield
<1> QED BY <1>1, <1>2, <1>3, <1>4, <1>5, <1>6, <1>7, <1>8, <1>9 DEF SNext, Runner

\* What NoStateMissed says of one step.
Missed(t) ==
    /\ Bound(script.triggers[t].on)
    /\ CurrState(script.triggers[t].on) = script.triggers[t].state
    /\ CurrState(script.triggers[t].on)' # CurrState(script.triggers[t].on)
    /\ ~script.triggers[t].repeat

LEMMA SettledMisses ==
    ASSUME SettledInv, SNext, NEW t \in armed PROVE ~Missed(t)
<1> DEFINE on == script.triggers[t].on
<1>0. on \in Alias
    BY AliasFacts DEF SettledInv
<1>1. CASE CreateNext
    BY <1>1 DEF CreateNext, SettledInv
<1>2. CASE \/ CreatedAll \/ RelateNext \/ RelatedAll \/ PostNext \/ StartRun \/ Evaluate
           \/ FireNext \/ FiredAll \/ MethodReturns \/ CodeRaises
    <2>1. UNCHANGED <<script, current, frozen>>
        BY <1>2 DEF CreatedAll, RelateNext, RelatedAll, PostNext, StartRun, Evaluate, FireNext,
                    FiredAll, MethodReturns, CodeRaises, given
    <2>2. CASE PostNext \/ FireNext
        BY <2>1, <2>2, PerformRests, RestingSeeTheSame DEF PostNext, FireNext, Missed
    <2>3. CASE \/ CreatedAll \/ RelateNext \/ RelatedAll \/ StartRun \/ Evaluate
               \/ FiredAll \/ MethodReturns \/ CodeRaises
        <3>1. registry' = registry
            BY <2>3 DEF CreatedAll, RelateNext, RelatedAll, StartRun, Start, Evaluate, FiredAll,
                        MethodReturns, CodeRaises, Unwind, vars
        <3> QED BY <2>1, <3>1, RestingSeeTheSame DEF Missed
    <2> QED BY <1>2, <2>2, <2>3
<1>3. CASE Advance
    <2>1. CASE registry' = registry
        BY <1>0, <1>3, <2>1, AdvanceSees DEF Advance, given, Missed
    <2>2. CASE pc \in {"selected", "transit"}
        BY <1>3, <2>2 DEF Advance, SettledInv, AtYield, BetweenYields, Waits, Missed
    <2> QED BY <1>3, <2>1, <2>2, EngineRests DEF Advance, SettledInv
<1>4. CASE DomainCode
    <2>1. script' = script /\ (Bound(on) => Named(on))
        BY <1>4 DEF DomainCode, given, Bound
    <2> QED BY <1>0, <1>4, <2>1, DomainCodeSees DEF Missed
<1> QED BY <1>1, <1>2, <1>3, <1>4 DEF SNext, Runner

\* A state that an armed trigger waits for is not left before the trigger has
\* fired, though the evaluator looks only at micro-steps: whatever the table,
\* the actions and the methods do between two of them (trigger.py:75).
THEOREM TriggersMissNothing == SSpec => NoStateMissed
<1>1. SInit => SettledInv
    BY DEF SInit, Init, SettledInv, AtYield, BetweenYields
<1>2. SettledInv /\ SNext =>
        \A t \in {u \in armed : Bound(script.triggers[u].on)} :
           CurrState(script.triggers[t].on) = script.triggers[t].state
           => \/ CurrState(script.triggers[t].on)' = CurrState(script.triggers[t].on)
              \/ script.triggers[t].repeat
    BY SettledMisses DEF Missed
<1> QED BY <1>1, <1>2, SettledStep, PTL DEF SSpec, NoStateMissed
-----------------------------------------------------------------------------
(* The end of a run *)

\* Outside of the handling of an event the buffer is empty; the runner is done
\* only when the engine has halted.
DryInv ==
    /\ pc = "flush" => inFlight = NoEvent
    /\ pc \notin {"acting", "executed", "transit", "fired", "flush"}
          => inFlight = NoEvent /\ pending = <<>>
    /\ NothingWaitsWhenDone

LEMMA EnqueueKeepsDry ==
    ASSUME NEW e, NEW d, Enqueue(e, d)
    PROVE  inFlight' = inFlight /\ (inFlight = NoEvent => pending' = pending)
BY DEF Enqueue, EnqueueNow, EnqueueDelay

LEMMA EngineKeepsDry ==
    ASSUME DryInv, Engine
    PROVE  /\ pc' = "flush" => inFlight' = NoEvent
           /\ pc' \notin {"acting", "executed", "transit", "fired", "flush"}
                 => inFlight' = NoEvent /\ pending' = <<>>
           /\ pc' = "idle" /\ ~closing => Waiting' = {}
<1> USE DEF DryInv
<1>1. CASE TickDelayQueue \/ TickDone \/ TickReported
    BY <1>1 DEF TickDelayQueue, TickDone, TickReported, queueVars
<1>2. CASE SelectPriority \/ SelectStandard \/ NextEvent
    BY <1>2 DEF SelectPriority, SelectStandard, NextEvent, queueVars
<1>3. CASE Halt
    <2>1. priority' = <<>> /\ standard' = <<>> /\ pending' = <<>> /\ inFlight' = NoEvent
        BY <1>3 DEF Halt, queueVars
    <2> QED BY <1>3, <2>1 DEF Halt, Waiting, Elements
<1>4. CASE ProcessCreation \/ RunBirthAction \/ NoBirthAction \/ ProcessDeletion
    BY <1>4 DEF ProcessCreation, RunBirthAction, NoBirthAction, ProcessDeletion, queueVars
<1>5. CASE \/ UnknownTarget \/ ReceiveEvent \/ LookupTransition \/ PassUnguarded
           \/ (\E holds \in BOOLEAN : EvaluateGuard(holds))
           \/ GuardError \/ GuardReported \/ NoEntryPasses \/ TakeEntry
    BY <1>5 DEF UnknownTarget, ReceiveEvent, LookupTransition, PassUnguarded, EvaluateGuard,
                GuardError, GuardReported, NoEntryPasses, TakeEntry, queueVars
<1>6. CASE ActionReturns \/ ActionReported \/ FireTransition \/ StayInState \/ CompleteTransition
    BY <1>6 DEF ActionReturns, ActionReported, FireTransition, StayInState, CompleteTransition,
                BeginFlush, queueVars
<1>7. CASE FlushPending \/ FlushDone
    BY <1>7 DEF FlushPending, FlushDone, queueVars
<1> QED BY <1>1, <1>2, <1>3, <1>4, <1>5, <1>6, <1>7 DEF Engine, Loop, Process

LEMMA PerformKeepsDry ==
    ASSUME DryInv, NEW def, NEW d, Perform(def, d)
    PROVE  /\ pc' = pc /\ inFlight' = inFlight
           /\ inFlight = NoEvent => pending' = pending
           /\ stage' = "done" => stage = "done"
BY EnqueueKeepsDry DEF Perform, Post, vars

LEMMA DryInvStep == DryInv /\ [SNext]_sVars => DryInv'
<1> SUFFICES ASSUME DryInv, [SNext]_sVars PROVE DryInv'
    OBVIOUS
<1>1. CASE CreateNext
    BY <1>1 DEF CreateNext, DryInv, NothingWaitsWhenDone, queueVars, Waiting
<1>2. CASE CreatedAll \/ RelateNext \/ RelatedAll \/ Evaluate \/ FiredAll \/ MethodReturns
    <2>1. UNCHANGED vars /\ stage' # "done"
        BY <1>2 DEF CreatedAll, RelateNext, RelatedAll, Evaluate, FiredAll, MethodReturns
    <2> QED BY <2>1 DEF DryInv, NothingWaitsWhenDone, vars
<1>3. CASE PostNext
    <2>1. stage # "done" /\ \E def, d : Perform(def, d)
        BY <1>3 DEF PostNext
    <2> QED BY <2>1, PerformKeepsDry DEF DryInv, NothingWaitsWhenDone
<1>4. CASE FireNext
    <2>1. stage # "done" /\ \E def, d : Perform(def, d)
        BY <1>4 DEF FireNext
    <2> QED BY <2>1, PerformKeepsDry DEF DryInv, NothingWaitsWhenDone
<1>5. CASE StartRun
    BY <1>5 DEF StartRun, Start, DryInv, NothingWaitsWhenDone, queueVars
<1>6. CASE Advance
    <2>1. Engine /\ (stage' = "done" => pc' = "idle" /\ ~closing)
        BY <1>6 DEF Advance
    <2> QED BY <2>1, EngineKeepsDry DEF DryInv, NothingWaitsWhenDone
<1>7. CASE DomainCode
    <2>1. stage' = stage /\ stage # "done"
        BY <1>7 DEF DomainCode
    <2>2. pc' = pc /\ inFlight' = inFlight /\ (inFlight = NoEvent => pending' = pending)
        <3>1. ASSUME NEW r, NEW d, Generate(r[1], r[2], r[3], d)
              PROVE  pc' = pc /\ inFlight' = inFlight /\ (inFlight = NoEvent => pending' = pending)
            BY <3>1, EnqueueKeepsDry DEF Generate
        <3>2. ASSUME NEW r, NEW a, NEW s, \/ Cancel(r[1], r[2], r[3])
                                          \/ DeleteSync(a) \/ CreateSync(a, s)
              PROVE  pc' = pc /\ inFlight' = inFlight /\ pending' = pending
            BY <3>2 DEF Cancel, DeleteSync, CreateSync, queueVars
        <3>3. ASSUME NEW a, NEW s, CreateAsync(a, s) \/ DeleteAsync(a)
              PROVE  pc' = pc /\ inFlight' = inFlight /\ (inFlight = NoEvent => pending' = pending)
            BY <3>3 DEF CreateAsync, DeleteAsync, EnqueueNow
        <3>4. CASE UNCHANGED vars
            BY <3>4 DEF vars
        <3> QED BY <1>7, <3>1, <3>2, <3>3, <3>4 DEF DomainCode
    <2> QED BY <2>1, <2>2 DEF DryInv, NothingWaitsWhenDone
<1>8. CASE CodeRaises
    <2>1. CASE Unwind /\ UNCHANGED stage /\ stage = "drive"
        BY <2>1 DEF Unwind, BeginFlush, DryInv, NothingWaitsWhenDone
    <2>2. CASE UNCHANGED vars /\ stage' = "failed"
        BY <2>2 DEF DryInv, NothingWaitsWhenDone, vars
    <2> QED BY <1>8, <2>1, <2>2 DEF CodeRaises
<1>9. CASE UNCHANGED sVars
    BY <1>9 DEF sVars, vars, runnerVars, DryInv, NothingWaitsWhenDone, Waiting
<1> QED BY <1>1, <1>2, <1>3, <1>4, <1>5, <1>6, <1>7, <1>8, <1>9 DEF SNext, Runner

\* A scenario's run is done only when no event waits, in whatever micro-step
\* triggers and methods have posted the last one (scenario_runner.py:83).
THEOREM RunsEndDry == SSpec => []NothingWaitsWhenDone
<1>1. SInit => DryInv
    BY DEF SInit, Init, DryInv, NothingWaitsWhenDone
<1>2. DryInv => NothingWaitsWhenDone
    BY DEF DryInv
<1> QED BY <1>1, <1>2, DryInvStep, PTL DEF SSpec
-----------------------------------------------------------------------------
(***************************************************************************)
(* The runner as a caller of the scheduler: it creates instances, posts    *)
(* events and lets methods run only where the generator is idle or at a    *)
(* yield, and only for instances and signals that there are. Whatever a    *)
(* scenario says, its run is a behaviour of the open scheduler, and has    *)
(* all that was proved of it.                                              *)
(***************************************************************************)
PlaceInv ==
    /\ stage \in {"create", "relate", "post"} => pc = "idle"
    /\ stage = "fire" => AtYield
    /\ stage = "call" => pc = "idle" \/ AtYield
    /\ \A x \in current : Named(x)
    /\ at > 0

RunnerInv == TypeInv /\ RunnerTypeOK /\ PlaceInv

LEMMA ScriptFacts ==
    ASSUME script \in Scripts
    PROVE  /\ \A i \in DOMAIN script.instances : script.instances[i] \in InstanceDef
           /\ \A i \in DOMAIN script.relationships : script.relationships[i] \in RelationshipInit
           /\ \A i \in DOMAIN script.events : script.events[i] \in EventDef
           /\ \A i \in DOMAIN script.triggers : script.triggers[i] \in TriggerDef
           /\ DOMAIN script.instances = 1 .. Len(script.instances)
           /\ DOMAIN script.relationships = 1 .. Len(script.relationships)
           /\ DOMAIN script.events = 1 .. Len(script.events)
           /\ Len(script.instances) \in Nat
           /\ Len(script.relationships) \in Nat
           /\ Len(script.events) \in Nat
           /\ script.triggers \in Seq(TriggerDef)
<1>1. /\ script.instances \in Seq(InstanceDef)
      /\ script.relationships \in Seq(RelationshipInit)
      /\ script.events \in Seq(EventDef)
      /\ script.triggers \in Seq(TriggerDef)
    BY ScriptAssumption
<1>2. ASSUME NEW E, NEW q \in Seq(E)
      PROVE  /\ \A i \in DOMAIN q : q[i] \in E
             /\ DOMAIN q = 1 .. Len(q)
             /\ Len(q) \in Nat
    OBVIOUS
<1> QED BY <1>1, <1>2

\* An event that a scenario posts is one that any caller may post.
LEMMA PostIsAnyCall ==
    ASSUME RunnerInv, pc = "idle" \/ AtYield,
           NEW signal \in Signal, NEW x, NEW y, Named(y), NEW d \in Nat,
           Post(signal, x, y, d)
    PROVE  [OpenNext]_vars
<1>1. Address(y) \in Addr
    BY AddressFacts DEF RunnerInv, RunnerTypeOK
<1>2. ASSUME NEW c \in Class, NEW to, to = <<c, Address(y)[2]>>,
             Enqueue(NewEvent(signal, SenderOf(x, to), to, Unset), d),
             UNCHANGED <<registry, now, pc, frameVars>>
      PROVE  AnyCall
    <2>1. to \in Addr
        BY <1>1, <1>2 DEF Addr
    <2>2. SenderOf(x, to) \in Addr
        BY <2>1, AddressFacts DEF SenderOf, Bound, RunnerInv, RunnerTypeOK
    <2> QED BY <1>2, <2>1, <2>2 DEF AnyCall
<1> QED BY <1>2 DEF Post, OpenNext

LEMMA PerformIsAnyCall ==
    ASSUME RunnerInv, pc = "idle" \/ AtYield, NEW def, def.signal \in Signal \cup {Nobody},
           NEW d \in Nat, Perform(def, d)
    PROVE  [OpenNext]_vars
<1>1. CASE /\ Bound(def.target)
           /\ def.signal # Nobody
           /\ Post(def.signal, def.sender, def.target, d)
    BY <1>1, PostIsAnyCall DEF Bound
<1> QED BY <1>1 DEF Perform

\* The time of an event is a number.
LEMMA FireTimeType ==
    ASSUME time \in Nat, NEW def \in EventDef
    PROVE  FireTime(def) \in Nat
<1>1. def.ms \in Nat /\ def.timing \in {"at", "after", "now"}
    BY DEF EventDef
<1>2. CASE def.timing = "at"
    BY <1>1, <1>2 DEF FireTime
<1>3. CASE def.timing = "after"
    BY <1>1, <1>3 DEF FireTime
<1>4. CASE def.timing = "now"
    BY <1>1, <1>4 DEF FireTime
<1> QED BY <1>1, <1>2, <1>3, <1>4

LEMMA StartStateType ==
    ASSUME NEW def \in InstanceDef
    PROVE  /\ def.name \in Alias /\ def.addr \in Addr
           /\ StartState(def) \in StateOrNone
<1>1. def.addr \in Addr /\ def.state \in StateOrNone /\ def.name \in Alias
    BY DEF InstanceDef
<1>2. Initial[def.addr[1]] \in State \cup {Unset}
    BY <1>1, ClassAssumption DEF Addr
<1> QED BY <1>1, <1>2, LimitAssumption DEF StartState, StateOrNone

LEMMA DomainCodeIsAnyCall ==
    ASSUME RunnerInv, DomainCode
    PROVE  [OpenNext]_vars
<1>1. ContextCall => AnyCall
    BY CallIsAnyCall
<1>2. ContextCall \/ UNCHANGED vars
    BY DEF DomainCode, ContextCall
<1> QED BY <1>1, <1>2 DEF OpenNext

\* Every step of a run is a step of the open scheduler, or none of its.
LEMMA RunnerCalls ==
    ASSUME RunnerInv, [SNext]_sVars
    PROVE  [OpenNext]_vars
<1> USE DEF RunnerInv
<1>1. CASE CreateNext
    <2> DEFINE def == script.instances[at]
    <2>1. /\ at <= Len(script.instances)
          /\ registry' \in {registry, [registry EXCEPT ![def.addr] = StartState(def)]}
        BY <1>1 DEF CreateNext
    <2>2. def \in InstanceDef
        <3>1. at \in DOMAIN script.instances
            BY <2>1, ScriptFacts DEF RunnerTypeOK, PlaceInv
        <3> QED BY <3>1, ScriptFacts DEF RunnerTypeOK
    <2>3. pc = "idle" /\ UNCHANGED <<queueVars, now, pc, frameVars, nextStamp>>
        BY <1>1 DEF CreateNext, PlaceInv
    <2>4. CASE registry' = registry
        BY <2>3, <2>4 DEF vars, queueVars, frameVars
    <2>5. CASE registry' = [registry EXCEPT ![def.addr] = StartState(def)]
        <3>1. Instances
            BY <2>2, <2>5, StartStateType DEF Instances
        <3> QED BY <2>3, <3>1 DEF AnyCall, OpenNext
    <2> QED BY <2>1, <2>4, <2>5
<1>2. CASE PostNext
    <2> DEFINE def == script.events[at]
    <2>1. at <= Len(script.events) /\ Perform(def, FireTime(def)) /\ pc = "idle"
        BY <1>2 DEF PostNext, PlaceInv
    <2>2. def \in EventDef
        <3>1. at \in DOMAIN script.events
            BY <2>1, ScriptFacts DEF RunnerTypeOK, PlaceInv
        <3> QED BY <3>1, ScriptFacts DEF RunnerTypeOK
    <2>3. FireTime(def) \in Nat /\ def.signal \in Signal \cup {Nobody}
        BY <2>2, FireTimeType DEF RunnerTypeOK, EventDef
    <2> QED BY <2>1, <2>3, PerformIsAnyCall
<1>3. CASE FireNext
    <2> DEFINE def == script.triggers[Head(firing)]
    <2>1. firing # <<>> /\ Perform(def, 0) /\ AtYield
        BY <1>3 DEF FireNext, PlaceInv
    <2>2. Head(firing) \in DOMAIN script.triggers
        BY <2>1 DEF RunnerTypeOK
    <2>3. def.signal \in Signal \cup {Nobody}
        BY <2>2, ScriptFacts DEF RunnerTypeOK, TriggerDef
    <2> QED BY <2>1, <2>3, PerformIsAnyCall
<1>4. CASE StartRun \/ Advance
    BY <1>4 DEF StartRun, Advance, OpenNext
<1>5. CASE CreatedAll \/ RelateNext \/ RelatedAll \/ Evaluate \/ FiredAll \/ MethodReturns
    BY <1>5 DEF CreatedAll, RelateNext, RelatedAll, Evaluate, FiredAll, MethodReturns
<1>6. CASE DomainCode
    BY <1>6, DomainCodeIsAnyCall
<1>7. CASE CodeRaises
    BY <1>7 DEF CodeRaises, OpenNext
<1>8. CASE UNCHANGED sVars
    BY <1>8 DEF sVars
<1> QED BY <1>1, <1>2, <1>3, <1>4, <1>5, <1>6, <1>7, <1>8 DEF SNext, Runner
\* An alias is detached with the state its instance had.
LEMMA DetachType ==
    ASSUME RunnerInv, NEW addrs, Detach(addrs)
    PROVE  /\ current' \subseteq current
           /\ frozen' \in [Alias -> StateOrNone \cup {Absent}]
<1>1. ASSUME NEW x \in current PROVE CurrState(x) \in StateOrNone \cup {Absent}
    <2>1. Address(x) \in Addr
        BY AddressFacts DEF RunnerInv, RunnerTypeOK, PlaceInv
    <2> QED BY <2>1 DEF CurrState, RunnerInv, TypeInv, TypeOK
<1>2. \A x \in Alias : frozen[x] \in StateOrNone \cup {Absent}
    BY DEF RunnerInv, RunnerTypeOK
<1> QED BY <1>1, <1>2 DEF Detach

\* A link that the store has accepted.
LEMMA RelateType ==
    ASSUME RunnerInv, NEW r \in Rel, NEW x \in Addr, NEW y \in Addr, Store!Relate(r, x, y)
    PROVE  links' \in [Rel -> Seq(Store!Link)]
<1>1. PICK l \in Store!Normalized(r, x, y) : links' = [links EXCEPT ![r] = Append(@, l)]
    BY DEF Store!Relate
<1>2. l \in Store!Link
    BY DEF Store!Normalized, Store!Link, Store!Addr, Addr
<1>3. links \in [Rel -> Seq(Store!Link)]
    BY DEF RunnerInv, RunnerTypeOK
<1> HIDE DEF RunnerInv
<1>4. Append(links[r], l) \in Seq(Store!Link)
    BY <1>2, <1>3
<1> QED BY <1>1, <1>3, <1>4

LEMMA UnrelateType ==
    ASSUME RunnerInv, NEW r \in Rel, NEW x \in Addr, NEW y \in Addr, Store!Unrelate(r, x, y)
    PROVE  links' \in [Rel -> Seq(Store!Link)]
<1>1. PICK i \in DOMAIN links[r] : links' = [links EXCEPT ![r] = LeavingOut(@, i)]
    BY DEF Store!Unrelate, Store!RemoveAt, LeavingOut
<1>2. links \in [Rel -> Seq(Store!Link)]
    BY DEF RunnerInv, RunnerTypeOK
<1> HIDE DEF RunnerInv
<1>3. links[r] \in Seq(Store!Link) /\ i \in 1 .. Len(links[r])
    BY <1>2
<1>4. LeavingOut(links[r], i) \in Seq(Store!Link)
    BY <1>3, Removal
<1> QED BY <1>1, <1>2, <1>4

\* The triggers that fire, in the order of the scenario.
LEMMA DueNowType ==
    ASSUME script \in Scripts
    PROVE  DueNow \in Seq(DOMAIN script.triggers) /\ Len(DueNow) \in Nat
<1> DEFINE D == DOMAIN script.triggers
           q == [t \in D |-> t]
           S == {t \in armed : Due(t)}
<1>1. q \in Seq(D)
    <2>1. D = 1 .. Len(script.triggers) /\ Len(script.triggers) \in Nat
        BY ScriptFacts
    <2> HIDE DEF D
    <2> QED BY <2>1
<1>2. DueNow = Filtered(q, S)
    BY DEF DueNow
<1> HIDE DEF D, q, S
<1>3. Filtered(q, S) \in Seq(D \cap S)
    BY <1>1, FilteredIsSeq
<1>4. DueNow \in Seq(D)
    BY <1>2, <1>3
<1> QED BY <1>4 DEF D

LEMMA PerformType ==
    ASSUME RunnerInv, pc = "idle" \/ AtYield, stage \in {"post", "fire"}, NEW def, NEW d, Perform(def, d)
    PROVE  /\ stage' \in {stage, "call", "failed"}
           /\ caller' \in Alias \cup {Nobody}
           /\ pc' = pc
<1>1. \A x : Named(x) => x \in Alias
    BY ScriptFacts DEF RunnerInv, RunnerTypeOK, Named, InstanceDef
<1>2. pc' = pc
    BY PerformRests
<1> QED BY <1>1, <1>2 DEF Perform, RunnerInv, RunnerTypeOK

LEMMA SetupTypes ==
    ASSUME RunnerInv,
           CreateNext \/ CreatedAll \/ RelateNext \/ RelatedAll \/ PostNext \/ StartRun
    PROVE  RunnerTypeOK' /\ PlaceInv'
<1> USE DEF RunnerInv
<1>1. CASE CreateNext
    <2> DEFINE def == script.instances[at]
               lost == {x \in current : Address(x) = def.addr}
    <2>1. /\ at <= Len(script.instances) /\ at' = at + 1
          /\ stage = "create" /\ stage' \in {stage, "failed"}
          /\ UNCHANGED <<pc, given, links, time, armed, fires, firing, judged, caller>>
          /\ \/ UNCHANGED <<current, frozen>>
             \/ /\ current' = (current \ lost) \cup {def.name}
                /\ frozen' = [x \in Alias |-> IF x \in lost THEN CurrState(x) ELSE frozen[x]]
        BY <1>1 DEF CreateNext
    <2>2. at \in DOMAIN script.instances
        BY <2>1, ScriptFacts DEF RunnerTypeOK, PlaceInv
    <2>3. def \in InstanceDef /\ def.name \in Alias /\ Named(def.name)
        BY <2>2, ScriptFacts, StartStateType DEF RunnerTypeOK, Named
    <2>4. frozen' \in [Alias -> StateOrNone \cup {Absent}]
        <3>1. \/ frozen' = frozen
              \/ frozen' = [x \in Alias |-> IF x \in lost THEN CurrState(x) ELSE frozen[x]]
            BY <2>1
        <3>2. ASSUME NEW x \in lost PROVE CurrState(x) \in StateOrNone \cup {Absent}
            <4>1. Address(x) \in Addr
                BY AddressFacts DEF RunnerTypeOK, PlaceInv
            <4> QED BY <4>1 DEF CurrState, TypeInv, TypeOK
        <3>3. frozen \in [Alias -> StateOrNone \cup {Absent}]
            BY DEF RunnerTypeOK
        <3> HIDE DEF lost
        <3> QED BY <3>1, <3>2, <3>3
    <2>5. current' \subseteq current \cup {def.name}
        BY <2>1
    <2> HIDE DEF def, lost
    <2>6. RunnerTypeOK'
        BY <2>1, <2>3, <2>4, <2>5 DEF RunnerTypeOK, given
    <2>7. PlaceInv'
        BY <2>1, <2>3, <2>5 DEF PlaceInv, RunnerTypeOK, given, Named
    <2> QED BY <2>6, <2>7
<1>2. CASE CreatedAll \/ RelatedAll
    BY <1>2 DEF CreatedAll, RelatedAll, RunnerTypeOK, PlaceInv, given, vars, Named, AtYield
<1>3. CASE RelateNext
    <2> DEFINE def == script.relationships[at]
    <2>1. /\ at <= Len(script.relationships) /\ at' = at + 1 /\ stage = "relate"
          /\ stage' \in {stage, "failed"}
          /\ UNCHANGED <<vars, given, time, current, frozen, armed, fires, firing, judged, caller>>
        BY <1>3 DEF RelateNext
    <2>2. def \in RelationshipInit
        <3>1. at \in DOMAIN script.relationships
            BY <2>1, ScriptFacts DEF RunnerTypeOK, PlaceInv
        <3> QED BY <3>1, ScriptFacts DEF RunnerTypeOK
    <2>3. links' \in [Rel -> Seq(Store!Link)]
        <3>1. CASE /\ Bound(def.a) /\ Bound(def.b)
                   /\ Store!Relate(def.rel, Address(def.a), Address(def.b))
            <4>1. def.rel \in Rel /\ Address(def.a) \in Addr /\ Address(def.b) \in Addr
                BY <2>2, <3>1, AddressFacts DEF Bound, RelationshipInit, RunnerTypeOK
            <4> QED BY <3>1, <4>1, RelateType
        <3>2. CASE UNCHANGED links
            BY <3>2 DEF RunnerTypeOK
        <3> QED BY <1>3, <3>1, <3>2 DEF RelateNext
    <2>4. RunnerTypeOK'
        BY <2>1, <2>3 DEF RunnerTypeOK, given
    <2>5. PlaceInv'
        BY <2>1 DEF PlaceInv, RunnerTypeOK, given, vars, Named
    <2> QED BY <2>4, <2>5
<1>4. CASE PostNext
    <2> DEFINE def == script.events[at]
    <2>1. /\ at <= Len(script.events) /\ at' = at + 1 /\ stage = "post" /\ pc = "idle"
          /\ time' = FireTime(def) /\ Perform(def, FireTime(def))
          /\ UNCHANGED <<given, links, current, frozen, armed, fires, firing, judged>>
        BY <1>4 DEF PostNext, PlaceInv
    <2>2. def \in EventDef
        <3>1. at \in DOMAIN script.events
            BY <2>1, ScriptFacts DEF RunnerTypeOK, PlaceInv
        <3> QED BY <3>1, ScriptFacts DEF RunnerTypeOK
    <2>3. time' \in Nat
        BY <2>1, <2>2, FireTimeType DEF RunnerTypeOK
    <2>4. stage' \in {stage, "call", "failed"} /\ caller' \in Alias \cup {Nobody} /\ pc' = pc
        BY <2>1, PerformType
    <2>5. RunnerTypeOK'
        BY <2>1, <2>3, <2>4 DEF RunnerTypeOK, given
    <2>6. PlaceInv'
        BY <2>1, <2>4 DEF PlaceInv, RunnerTypeOK, given, Named
    <2> QED BY <2>5, <2>6
<1>5. CASE StartRun
    BY <1>5 DEF StartRun, RunnerTypeOK, PlaceInv, given, Named
<1> QED BY <1>1, <1>2, <1>3, <1>4, <1>5

LEMMA DriveTypes ==
    ASSUME RunnerInv,
           Advance \/ Evaluate \/ FireNext \/ FiredAll \/ MethodReturns \/ DomainCode \/ CodeRaises
    PROVE  RunnerTypeOK' /\ PlaceInv'
<1> USE DEF RunnerInv
<1>1. CASE Advance
    <2>1. /\ stage' \in {"drive", "failed", "done"} /\ judged' = FALSE
          /\ UNCHANGED <<given, links, at, time, armed, fires, firing, caller>>
          /\ Detach(Deleted)
        BY <1>1 DEF Advance
    <2>2. current' \subseteq current /\ frozen' \in [Alias -> StateOrNone \cup {Absent}]
        BY <2>1, DetachType
    <2> QED BY <2>1, <2>2 DEF RunnerTypeOK, PlaceInv, given, Named
<1>2. CASE Evaluate
    <2>1. /\ DueNow \in Seq(DOMAIN script.triggers) /\ Len(DueNow) \in Nat
        BY DueNowType DEF RunnerTypeOK
    <2>2. /\ judged' = TRUE /\ fires' = fires + Len(DueNow) /\ armed' \subseteq armed
          /\ \/ stage' = "failed" /\ UNCHANGED firing
             \/ stage' = "fire" /\ firing' = DueNow
          /\ AtYield
          /\ UNCHANGED <<vars, given, links, at, time, current, frozen, caller>>
        BY <1>2 DEF Evaluate
    <2>3. RunnerTypeOK'
        BY <2>1, <2>2 DEF RunnerTypeOK, given
    <2>4. PlaceInv'
        BY <2>2 DEF PlaceInv, given, vars, Named, AtYield
    <2> QED BY <2>3, <2>4
<1>3. CASE FireNext
    <2>1. /\ firing # <<>> /\ firing' = Tail(firing) /\ stage = "fire" /\ AtYield
          /\ Perform(script.triggers[Head(firing)], 0)
          /\ UNCHANGED <<given, links, at, time, current, frozen, armed, fires, judged>>
        BY <1>3 DEF FireNext, PlaceInv
    <2>2. stage' \in {stage, "call", "failed"} /\ caller' \in Alias \cup {Nobody} /\ pc' = pc
        BY <2>1, PerformType
    <2>3. firing' \in Seq(DOMAIN script.triggers)
        BY <2>1 DEF RunnerTypeOK
    <2>4. RunnerTypeOK'
        BY <2>1, <2>2, <2>3 DEF RunnerTypeOK, given
    <2>5. PlaceInv'
        BY <2>1, <2>2 DEF PlaceInv, given, Named, AtYield
    <2> QED BY <2>4, <2>5
<1>4. CASE FiredAll \/ MethodReturns
    BY <1>4 DEF FiredAll, MethodReturns, RunnerTypeOK, PlaceInv, given, vars, Named, AtYield
<1>5. CASE DomainCode
    <2>1. UNCHANGED <<given, stage, at, time, armed, fires, firing, judged, caller>>
        BY <1>5 DEF DomainCode
    <2>2. pc' = pc
        BY <1>5 DEF DomainCode, Generate, Cancel, DeleteSync, CreateSync, CreateAsync,
                    DeleteAsync, vars
    <2>3. current' \subseteq current /\ frozen' \in [Alias -> StateOrNone \cup {Absent}]
        <3>1. (\E addrs : Detach(addrs)) \/ UNCHANGED <<current, frozen>>
            BY <1>5 DEF DomainCode
        <3> QED BY <3>1, DetachType DEF RunnerTypeOK
    <2>4. links' \in [Rel -> Seq(Store!Link)]
        <3>1. ASSUME NEW t \in Tie, Store!Relate(t[1], t[2], t[3]) \/ Store!Unrelate(t[1], t[2], t[3])
              PROVE  links' \in [Rel -> Seq(Store!Link)]
            <4>1. t[1] \in Rel /\ t[2] \in Addr /\ t[3] \in Addr
                BY TieAssumption
            <4> QED BY <3>1, <4>1, RelateType, UnrelateType
        <3>2. CASE UNCHANGED links
            BY <3>2 DEF RunnerTypeOK
        <3> QED BY <1>5, <3>1, <3>2 DEF DomainCode
    <2>5. RunnerTypeOK'
        BY <2>1, <2>3, <2>4 DEF RunnerTypeOK, given
    <2>6. PlaceInv'
        BY <2>1, <2>2, <2>3 DEF PlaceInv, given, Named, AtYield
    <2> QED BY <2>5, <2>6
<1>6. CASE CodeRaises
    <2>1. /\ UNCHANGED <<given, links, at, time, current, frozen, armed, fires, firing, judged>>
          /\ \/ stage = "drive" /\ UNCHANGED <<stage, caller>>
             \/ stage' = "failed" /\ caller' = Nobody
        BY <1>6 DEF CodeRaises
    <2> QED BY <2>1 DEF RunnerTypeOK, PlaceInv, given, Named
<1> QED BY <1>1, <1>2, <1>3, <1>4, <1>5, <1>6

LEMMA RunnerStep ==
    ASSUME RunnerInv, [SNext]_sVars
    PROVE  RunnerInv'
<1>1. TypeInv'
    BY RunnerCalls, StepType DEF RunnerInv
<1>2. CASE UNCHANGED sVars
    <2>1. UNCHANGED <<pc, script, callable, links, stage, at, time, current, frozen, armed, fires,
                      firing, judged, caller>>
        BY <1>2 DEF sVars, vars, runnerVars, given
    <2> QED BY <1>1, <2>1 DEF RunnerInv, RunnerTypeOK, PlaceInv, Named, AtYield
<1>3. CASE SNext
    BY <1>1, <1>3, SetupTypes, DriveTypes DEF SNext, Runner, RunnerInv
<1> QED BY <1>2, <1>3

LEMMA RunnerInit == SInit => RunnerInv
<1> SUFFICES ASSUME SInit PROVE RunnerInv
    OBVIOUS
<1>1. TypeInv
    BY InitType DEF SInit
<1>2. RunnerTypeOK
    <2>1. /\ links \in [Rel -> Seq(Store!Link)]
          /\ frozen \in [Alias -> StateOrNone \cup {Absent}]
          /\ firing \in Seq(DOMAIN script.triggers)
        BY DEF SInit
    <2>2. callable \in BOOLEAN /\ judged \in BOOLEAN
        BY Zenon DEF SInit
    <2> QED BY <2>1, <2>2 DEF SInit, RunnerTypeOK
<1>3. PlaceInv
    BY DEF SInit, Init, PlaceInv
<1> QED BY <1>1, <1>2, <1>3 DEF RunnerInv

LEMMA RunnerInvariant == SSpec => []RunnerInv
<1>1. RunnerInv /\ [SNext]_sVars => RunnerInv'
    BY RunnerStep
<1> QED BY <1>1, RunnerInit, PTL DEF SSpec

\* Every variable of the runner has its type in every state of every run
\* (scenario_runner.py, trigger.py).
THEOREM RunnerTypes == SSpec => []RunnerTypeOK
<1>1. RunnerInv => RunnerTypeOK
    BY DEF RunnerInv
<1> QED BY <1>1, RunnerInvariant, PTL

\* The runner uses the scheduler as any caller may: it generates, creates and
\* deletes only where control is outside the generator or in an action
\* (scenario_runner.py:37-92, trigger.py:47-101).
THEOREM RunsUseScheduler == SSpec => OpenSpec
<1>1. SInit => Init
    BY DEF SInit
<1>2. RunnerInv /\ [SNext]_sVars => [OpenNext]_vars
    BY RunnerCalls
<1> QED BY <1>1, <1>2, RunnerInvariant, PTL DEF SSpec, OpenSpec

\* So in every run of every scenario no event is lost, reordered or dispatched
\* twice, the buffer holds nothing between two events, and timers stay unique
\* (scheduler.py, driven by scenario_runner.py).
THEOREM RunsKeepInvariants ==
    SSpec => [](FifoOrder /\ DispatchedOnce /\ BufferScoped /\ DelayUnique
                /\ HeapKeysDistinct /\ LifecycleIsStandard)
BY RunsUseScheduler, QueuesAreFifoOpen, EventsAreDispatchedOnceOpen, BufferIsScopedOpen,
   TimersAreUniqueOpen, HeapNeverTiesOpen, LifecycleKeepsToStandardOpen, PTL

\* Nor does any step of a run break the order of dispatch, lose an event or
\* reach into a queue while an event is processed, and no run shows that there
\* is a buffer (scheduler.py, driven by scenario_runner.py).
THEOREM RunsKeepPromises ==
    SSpec => /\ RunToCompletion /\ SelfDirectedFirst /\ PairwiseOrder
             /\ NothingLost /\ ExpiryOrder /\ RefinesPump
BY RunsUseScheduler, RunsToCompletionOpen, SelfDirectedGoFirstOpen, PairsKeepOrderOpen,
   NoEventIsLostOpen, TimersExpireInOrderOpen, SchedulerImplementsPumpOpen, PTL

-----------------------------------------------------------------------------
(* The driver: invariants that its promises rest on *)

\* _collect_final_states().
FinalStates == {<<a, registry[a]>> : a \in {x \in Addr : Live(x)}}

\* Before the preflight check has passed nothing of the scenario is run.
Early == {"compiled", "writing", "find", "check", "locate", "scenario", "mocks", "load",
          "bind", "preflight"}

\* A caller of run_scenario() is in none of the driver's steps.
OpInv ==
    /\ request \in Requests
    /\ phase \notin {"compiled", "writing", "run", "returned", "raised"}
          => request.op \in {"domain", "class"}
    /\ phase = "find" => request.op = "class"

\* Who knows the directory, which bundle it holds, and its modules.
LoadInv ==
    /\ phase \notin {"bind", "preflight", "refuse", "run", "cleanup"}
          => directory = "none" /\ modules = {}
    /\ phase = "bind" => bundle \in {"good", "unbindable"} /\ modules \subseteq Contained
    /\ phase \in {"preflight", "refuse", "run"} =>
          \/ request.op = "direct" /\ directory = "none" /\ modules = {}
          \/ request.op # "direct" /\ bundle = "good" /\ directory = "held" /\ modules = Contained
    /\ phase = "cleanup" => directory \in {"none", "held"}

\* What has been recorded for the report.
ReportInv ==
    /\ phase \in Early => stage = "create" /\ errors = {}
    /\ phase = "refuse" => stage = "create" /\ errors # {}
    /\ phase = "run" => errors = {}
    /\ phase \in Early \cup {"refuse", "run"} => final = {}
    /\ phase \in Early \cup {"refuse", "run", "trace"} => traces = 0 /\ report = NoReport
    /\ phase \in {"cleanup", "trace"} =>
          \/ errors = {} /\ stage = "done" /\ final = FinalStates
          \/ errors # {} /\ stage # "done" /\ final = {}
    /\ phase = "cleanup" =>
          \/ report = NoReport /\ traces = 0
          \/ /\ report = [errors |-> errors, final |-> {}, trace |-> TRUE]
             /\ errors # {}
             /\ traces = 1
    /\ EveryCallReports

DInv == OpInv /\ LoadInv /\ ReportInv

LEMMA OpFacts ==
    ASSUME OpInv
    PROVE  /\ request.op \in {"domain", "class", "direct"}
           /\ request.file \in {"ok", "absent", "invalid"}
BY RequestAssumption DEF OpInv, Request

-----------------------------------------------------------------------------
LEMMA DInvInit == SimInit => DInv
<1> SUFFICES ASSUME SimInit PROVE DInv
    OBVIOUS
<1>1. OpInv
    BY DEF SimInit, OpInv
<1>2. LoadInv
    BY DEF SimInit, LoadInv
<1>3. ReportInv
    BY DEF SimInit, SInit, ReportInv, Early, EveryCallReports
<1> QED BY <1>1, <1>2, <1>3 DEF DInv

LEMMA OpInvStep == OpInv /\ [SimNext]_simVars => OpInv'
<1> SUFFICES ASSUME OpInv, [SimNext]_simVars PROVE OpInv'
    OBVIOUS
<1> USE DEF OpInv
<1>1. /\ request.op \in {"domain", "class", "direct"}
      /\ request.file \in {"ok", "absent", "invalid"}
    BY OpFacts
<1>2. CASE OpenBundle
    BY <1>2 DEF OpenBundle
<1>3. CASE CloseBundle \/ Call
    BY <1>1, <1>3 DEF CloseBundle, Call, FirstPhase
<1>4. CASE FindBundle
    BY <1>4 DEF FindBundle, ReturnsError
<1>5. CASE CheckName \/ LocateBundle \/ LoadScenario \/ LoadMocks \/ UnpackBundle
    <2>1. CASE CheckName
        BY <2>1 DEF CheckName, Fails, Proceed
    <2>2. CASE LocateBundle \/ LoadMocks
        BY <2>2 DEF LocateBundle, LoadMocks, Fails, Proceed
    <2>3. CASE LoadScenario
        BY <1>1, <2>3 DEF LoadScenario, Fails, Proceed
    <2>4. CASE UnpackBundle
        BY <2>4 DEF UnpackBundle, Fails, Proceed
    <2> QED BY <1>5, <2>1, <2>2, <2>3, <2>4
<1>6. CASE BindModule \/ BoundAll \/ Preflight \/ Refuse
    BY <1>6 DEF BindModule, BoundAll, Preflight, Refuse, Fails, Proceed
<1>7. CASE RunEnds
    BY <1>1, <1>7 DEF RunEnds, Fails, Proceed
<1>8. CASE Cleanup \/ WriteTrace
    BY <1>8 DEF Cleanup, WriteTrace, ReturnsError
<1>9. CASE RunStep(SNext)
    BY <1>9 DEF RunStep, driverVars
<1>10. CASE UNCHANGED simVars
    BY <1>10 DEF simVars, driverVars
<1> QED BY <1>2, <1>3, <1>4, <1>5, <1>6, <1>7, <1>8, <1>9, <1>10 DEF SimNext, Driver

LEMMA LoadInvStep == OpInv /\ LoadInv /\ [SimNext]_simVars => LoadInv'
<1> SUFFICES ASSUME OpInv, LoadInv, [SimNext]_simVars PROVE LoadInv'
    OBVIOUS
<1> USE DEF LoadInv
<1>1. /\ request.op \in {"domain", "class", "direct"}
      /\ request.file \in {"ok", "absent", "invalid"}
    BY OpFacts
<1>2. CASE OpenBundle
    BY <1>2 DEF OpenBundle
<1>3. CASE CloseBundle \/ Call
    BY <1>1, <1>3 DEF CloseBundle, Call, FirstPhase
<1>4. CASE FindBundle
    BY <1>4 DEF FindBundle, ReturnsError
<1>5. CASE CheckName \/ LocateBundle \/ LoadScenario \/ LoadMocks
    <2>1. CASE CheckName
        BY <2>1 DEF CheckName, Fails, Proceed
    <2>2. CASE LocateBundle \/ LoadMocks
        BY <2>2 DEF LocateBundle, LoadMocks, Fails, Proceed
    <2>3. CASE LoadScenario
        BY <1>1, <2>3 DEF LoadScenario, Fails, Proceed
    <2> QED BY <1>5, <2>1, <2>2, <2>3
<1>6. CASE UnpackBundle
    BY <1>6 DEF UnpackBundle, Fails, Proceed
<1>7. CASE BindModule
    BY <1>7 DEF BindModule, Unbound, Fails, Proceed
<1>8. CASE BoundAll
    <2>1. modules = Contained
        BY <1>8 DEF BoundAll, Unbound
    <2>2. request.op # "direct"
        BY <1>8 DEF BoundAll, OpInv
    <2> QED BY <2>1, <2>2, <1>8 DEF BoundAll, Proceed
<1>9. CASE Preflight \/ Refuse
    BY <1>9 DEF Preflight, Refuse, Fails, Proceed
<1>10. CASE RunEnds
    BY <1>10 DEF RunEnds, Fails, Proceed
<1>11. CASE Cleanup \/ WriteTrace
    BY <1>11 DEF Cleanup, WriteTrace, ReturnsError
<1>12. CASE RunStep(SNext)
    BY <1>12 DEF RunStep, driverVars
<1>13. CASE UNCHANGED simVars
    BY <1>13 DEF simVars, driverVars
<1> QED BY <1>2, <1>3, <1>4, <1>5, <1>6, <1>7, <1>8, <1>9, <1>10, <1>11, <1>12, <1>13
        DEF SimNext, Driver

\* The driver's own steps leave the run as it is.
LEMMA DriverKeepsRun ==
    ASSUME Driver PROVE UNCHANGED sVars /\ stage' = stage /\ FinalStates' = FinalStates
<1>1. UNCHANGED sVars
    BY DEF Driver, OpenBundle, CloseBundle, Call, FindBundle, ReturnsError, CheckName,
           LocateBundle, LoadScenario, LoadMocks, UnpackBundle, BindModule, BoundAll,
           Preflight, Refuse, RunEnds, Cleanup, WriteTrace
<1>2. stage' = stage /\ registry' = registry
    BY <1>1 DEF sVars, vars, runnerVars
<1> QED BY <1>1, <1>2 DEF FinalStates, Live

LEMMA ReportInvStep == OpInv /\ ReportInv /\ [SimNext]_simVars => ReportInv'
<1> SUFFICES ASSUME OpInv, ReportInv, [SimNext]_simVars PROVE ReportInv'
    OBVIOUS
<1> USE DEF ReportInv, Early
<1>1. /\ request.op \in {"domain", "class", "direct"}
      /\ request.file \in {"ok", "absent", "invalid"}
    BY OpFacts
<1>2. CASE Driver
    <2>1. stage' = stage /\ FinalStates' = FinalStates
        BY <1>2, DriverKeepsRun
    <2>2. CASE OpenBundle
        BY <2>1, <2>2 DEF OpenBundle, EveryCallReports
    <2>3. CASE CloseBundle \/ Call
        BY <1>1, <2>1, <2>3 DEF CloseBundle, Call, FirstPhase, EveryCallReports
    <2>4. CASE FindBundle
        BY <2>1, <2>4 DEF FindBundle, ReturnsError, NoReport, EveryCallReports, OpInv
    <2>5. CASE CheckName \/ LocateBundle \/ LoadScenario \/ LoadMocks
        <3>1. CASE CheckName
            BY <2>1, <3>1 DEF CheckName, Fails, Proceed, EveryCallReports
        <3>2. CASE LocateBundle
            BY <2>1, <3>2 DEF LocateBundle, Fails, Proceed, EveryCallReports
        <3>3. CASE LoadScenario
            BY <1>1, <2>1, <3>3 DEF LoadScenario, Fails, Proceed, EveryCallReports
        <3>4. CASE LoadMocks
            BY <2>1, <3>4 DEF LoadMocks, Fails, Proceed, EveryCallReports
        <3> QED BY <2>5, <3>1, <3>2, <3>3, <3>4
    <2>6. CASE UnpackBundle \/ BindModule \/ BoundAll
        BY <2>1, <2>6 DEF UnpackBundle, BindModule, BoundAll, Fails, Proceed, EveryCallReports
    <2>7. CASE Preflight
        BY <2>1, <2>7 DEF Preflight, Proceed, EveryCallReports
    <2>8. CASE Refuse
        BY <2>1, <2>8 DEF Refuse, Fails, Proceed, EveryCallReports
    <2>9. CASE RunEnds
        BY <2>1, <2>9 DEF RunEnds, Fails, Proceed, EveryCallReports, FinalStates
    <2>10. CASE Cleanup
        BY <2>1, <2>10 DEF Cleanup, EveryCallReports, NoReport, FinalStates
    <2>11. CASE WriteTrace
        BY <2>1, <2>11 DEF WriteTrace, ReturnsError, NoReport, EveryCallReports, FinalStates
    <2> QED BY <1>2, <2>2, <2>3, <2>4, <2>5, <2>6, <2>7, <2>8, <2>9, <2>10, <2>11 DEF Driver
<1>3. CASE RunStep(SNext)
    BY <1>3 DEF RunStep, driverVars, EveryCallReports
<1>4. CASE UNCHANGED simVars
    <2>1. UNCHANGED <<stage, registry, driverVars>>
        BY <1>4 DEF simVars, sVars, vars, runnerVars
    <2> QED BY <2>1 DEF driverVars, EveryCallReports, FinalStates, Live
<1> QED BY <1>2, <1>3, <1>4 DEF SimNext

THEOREM DriverInvariant == SimSpec => []DInv
<1>1. DInv /\ [SimNext]_simVars => DInv'
    BY OpInvStep, LoadInvStep, ReportInvStep DEF DInv
<1> QED BY DInvInit, <1>1, PTL DEF SimSpec

-----------------------------------------------------------------------------
(* The properties *)

\* Whatever fails, and at whatever step: no directory and no module of a
\* bundle outlives the call (simulation.py:202).
THEOREM CallsCleanUp == SimSpec => []CleanAfterReturn
<1>1. DInv => CleanAfterReturn
    BY DEF DInv, LoadInv, CleanAfterReturn, Ended
<1> QED BY DriverInvariant, <1>1, PTL

\* A report tells of success exactly if the scenario ran to its end, and of
\* the trace exactly if there is one (simulation.py:206).
THEOREM CallsReport == SimSpec => []EveryCallReports
<1>1. DInv => EveryCallReports
    BY DEF DInv, ReportInv
<1> QED BY DriverInvariant, <1>1, PTL

\* What a compilation that was cut short has left is not run: only a bundle
\* with all its parts, and all of its modules bound, gets to the preflight
\* check (bundle_loader.py:75).
THEOREM RunsAreOfWholeBundles == SimSpec => []OnlyWholeBundles
<1>1. DInv => OnlyWholeBundles
    BY DEF DInv, LoadInv, OnlyWholeBundles
<1> QED BY DriverInvariant, <1>1, PTL

-----------------------------------------------------------------------------
(* The run of the scenario, and the preflight check *)

\* However it comes about, what the driver lets run is a run of the scenario
\* as run_scenario() makes it: what holds of those holds of a whole call.
THEOREM DriverRunsScenario == SimSpec => SSpec
<1>1. SimInit => SInit
    BY DEF SimInit
<1>2. [SimNext]_simVars => [SNext]_sVars
    BY DriverKeepsRun DEF SimNext, RunStep, simVars
<1> QED BY <1>1, <1>2, PTL DEF SimSpec, SSpec

\* So are the scheduler's promises those of every run of a bundle, from
\* whatever call (simulation.py:188, scenario_runner.py, scheduler.py).
THEOREM CallsUseScheduler ==
    SimSpec => /\ [](FifoOrder /\ DispatchedOnce /\ BufferScoped /\ DelayUnique
                     /\ HeapKeysDistinct /\ LifecycleIsStandard)
               /\ RunToCompletion /\ SelfDirectedFirst /\ PairwiseOrder
               /\ NothingLost /\ ExpiryOrder /\ RefinesPump
               /\ []NothingWaitsWhenDone /\ NoStateMissed
BY DriverRunsScenario, RunsKeepInvariants, RunsKeepPromises, RunsEndDry, TriggersMissNothing, PTL

Phases == {"compiled", "writing", "find", "check", "locate", "scenario", "mocks", "load",
           "bind", "preflight", "refuse", "run", "cleanup", "trace", "returned", "raised"}

\* The types of the driver's own variables. load_bundle() is called only for a
\* file that is there: for no other does it have an exception of its own.
RecordInv ==
    /\ phase \in Phases
    /\ bundle \in BundleKind
    /\ phase \in {"scenario", "mocks", "load"} => bundle # "absent"
    /\ directory \in {"none", "loading", "held"}
    /\ modules \subseteq Contained
    /\ errors \subseteq ErrorKind
    /\ final \subseteq Addr \X StateOrNone
    /\ traces \in Nat
    /\ report \in [errors : SUBSET ErrorKind, final : SUBSET (Addr \X StateOrNone), trace : BOOLEAN]

\* The report of a call that ends early.
LEMMA ErrorReportType ==
    ASSUME NEW kind \in ErrorKind
    PROVE  [NoReport EXCEPT !.errors = {kind}]
              \in [errors : SUBSET ErrorKind, final : SUBSET (Addr \X StateOrNone), trace : BOOLEAN]
BY DEF NoReport

LEMMA FinalStatesType ==
    ASSUME TypeOK
    PROVE  FinalStates \subseteq Addr \X StateOrNone
<1> SUFFICES ASSUME NEW a \in Addr, registry[a] # Absent PROVE registry[a] \in StateOrNone
    BY DEF FinalStates, Live
<1> QED BY DEF TypeOK

LEMMA RecordStep == OpInv /\ TypeOK /\ RecordInv /\ [SimNext]_simVars => RecordInv'
<1> SUFFICES ASSUME OpInv, TypeOK, RecordInv, [SimNext]_simVars PROVE RecordInv'
    OBVIOUS
<1> USE DEF RecordInv, Phases, ErrorKind
<1>0. /\ request.op \in {"domain", "class", "direct"}
      /\ request.file \in {"ok", "absent", "invalid"}
    BY OpFacts
<1>1. CASE OpenBundle
    BY <1>1 DEF OpenBundle, BundleKind
<1>2. CASE CloseBundle
    BY <1>0, <1>2 DEF CloseBundle, FirstPhase, BundleKind
<1>3. CASE Call
    BY <1>0, <1>3 DEF Call, FirstPhase
<1>4. CASE FindBundle
    BY <1>4, ErrorReportType DEF FindBundle, ReturnsError
<1>5. CASE CheckName
    BY <1>5 DEF CheckName, Fails, Proceed
<1>6. CASE LocateBundle
    BY <1>6 DEF LocateBundle, Fails, Proceed
<1>7. CASE LoadScenario
    BY <1>0, <1>7 DEF LoadScenario, Fails, Proceed
<1>8. CASE LoadMocks
    BY <1>8 DEF LoadMocks, Fails, Proceed
<1>9. CASE UnpackBundle
    <2>1. CASE bundle \in {"good", "unbindable"}
        BY <1>9, <2>1 DEF UnpackBundle, Proceed
    <2>2. CASE bundle \notin {"good", "unbindable"}
        <3>1. OpenError \in ErrorKind
            BY <1>9, <2>2 DEF UnpackBundle, OpenError, BundleKind
        <3> QED BY <1>9, <2>2, <3>1 DEF UnpackBundle, Fails
    <2> QED BY <2>1, <2>2
<1>10. CASE BindModule
    BY <1>10 DEF BindModule, Unbound, Fails, Proceed
<1>11. CASE BoundAll \/ Preflight
    BY <1>11 DEF BoundAll, Preflight, Proceed
<1>12. CASE Refuse
    <2>1. CASE /\ traces' = traces + 1
               /\ report' = [errors |-> errors, final |-> {}, trace |-> TRUE]
               /\ Proceed("cleanup")
        BY <1>12, <2>1 DEF Refuse, Proceed
    <2>2. CASE Fails("OSError") /\ UNCHANGED <<traces, report>>
        BY <1>12, <2>2 DEF Refuse, Fails
    <2> QED BY <1>12, <2>1, <2>2 DEF Refuse
<1>13. CASE RunEnds
    <2>1. final' = FinalStates \/ UNCHANGED final
        BY <1>13 DEF RunEnds, FinalStates
    <2>2. final' \subseteq Addr \X StateOrNone
        BY <2>1, FinalStatesType
    <2> QED BY <1>13, <2>2 DEF RunEnds, Fails, Proceed
<1>14. CASE Cleanup
    BY <1>14 DEF Cleanup
<1>15. CASE WriteTrace
    <2>1. CASE /\ phase' = "returned" /\ traces' = traces + 1
               /\ report' = [errors |-> errors, final |-> final, trace |-> TRUE]
               /\ UNCHANGED <<bundle, directory, modules, errors, final>>
        BY <2>1
    <2>2. CASE ReturnsError("OSError")
        BY <2>2, ErrorReportType DEF ReturnsError
    <2>3. CASE phase' = "raised" /\ UNCHANGED <<bundle, directory, modules, errors, final, traces, report>>
        BY <2>3
    <2> QED BY <1>15, <2>1, <2>2, <2>3 DEF WriteTrace
<1>16. CASE RunStep(SNext)
    BY <1>16 DEF RunStep, driverVars
<1>17. CASE UNCHANGED simVars
    BY <1>17 DEF simVars, driverVars
<1> QED BY <1>1, <1>2, <1>3, <1>4, <1>5, <1>6, <1>7, <1>8, <1>9, <1>10, <1>11, <1>12, <1>13,
           <1>14, <1>15, <1>16, <1>17 DEF SimNext, Driver

\* Every variable of the driver and of the run has its type, whatever fails
\* (simulation.py, bundle_loader.py, packager.py).
THEOREM DriverTypes == SimSpec => []DriverTypeOK
<1>1. SimInit => RecordInv
    <2> SUFFICES ASSUME SimInit PROVE RecordInv
        OBVIOUS
    <2>1. bundle \in BundleKind
        BY RequestAssumption DEF SimInit, Request
    <2> QED BY <2>1 DEF SimInit, RecordInv, Phases, NoReport
<1>2. DInv => OpInv
    BY DEF DInv
<1>3. OpInv /\ RecordInv /\ RunnerTypeOK => DriverTypeOK
    BY DEF OpInv, RecordInv, DriverTypeOK, Phases
<1>4. SimSpec => []RunnerTypeOK /\ []TypeOK
    BY DriverRunsScenario, RunnerTypes, RunsUseScheduler, TypeCorrectOpen, PTL
<1> QED BY <1>1, <1>2, <1>3, <1>4, RecordStep, DriverInvariant, PTL DEF SimSpec

\* A scenario that is run passed the check, unless nobody made it.
CheckedInv ==
    /\ script \in Scripts
    /\ phase = "run" /\ request.op # "direct" => Missing(script) = {}

LEMMA CheckedStep == OpInv /\ CheckedInv /\ [SimNext]_simVars => CheckedInv'
<1> SUFFICES ASSUME OpInv, CheckedInv, [SimNext]_simVars PROVE CheckedInv'
    OBVIOUS
<1> USE DEF CheckedInv
<1>0. UNCHANGED script
    <2>1. CASE Driver
        BY <2>1, DriverKeepsRun DEF sVars, runnerVars, given
    <2>2. CASE SNext
        BY <2>2 DEF SNext, Runner, CreateNext, CreatedAll, RelateNext, RelatedAll, PostNext,
                    StartRun, Advance, Evaluate, FireNext, FiredAll, MethodReturns, DomainCode,
                    CodeRaises, given
    <2>3. CASE UNCHANGED simVars
        BY <2>3 DEF simVars, sVars, runnerVars, given
    <2> QED BY <2>1, <2>2, <2>3 DEF SimNext, RunStep
<1>1. Missing(script)' = Missing(script)
    BY <1>0 DEF Missing
<1> SUFFICES ASSUME phase' = "run", request'.op # "direct" PROVE Missing(script) = {}
    BY <1>0, <1>1
<1>2. CASE Driver
    <2>1. CASE CloseBundle \/ Call
        BY <2>1, OpFacts DEF CloseBundle, Call, FirstPhase
    <2>2. CASE Preflight
        BY <2>2 DEF Preflight, Proceed
    <2>3. CASE OpenBundle \/ FindBundle \/ CheckName \/ LocateBundle \/ LoadScenario \/ LoadMocks
        BY <2>3, OpFacts DEF OpenBundle, FindBundle, ReturnsError, CheckName, LocateBundle,
                    LoadScenario, LoadMocks, Fails, Proceed
    <2>4. CASE UnpackBundle \/ BindModule \/ BoundAll \/ Refuse \/ RunEnds \/ Cleanup \/ WriteTrace
        BY <2>4 DEF UnpackBundle, BindModule, BoundAll, Refuse, RunEnds, Cleanup, WriteTrace,
                    ReturnsError, Fails, Proceed
    <2> QED BY <1>2, <2>1, <2>2, <2>3, <2>4 DEF Driver
<1>3. CASE RunStep(SNext) \/ UNCHANGED simVars
    BY <1>3 DEF RunStep, simVars, driverVars
<1> QED BY <1>2, <1>3 DEF SimNext

\* The address of an alias is that of the definition with its name.
LEMMA AddressOfDefined ==
    ASSUME script \in Scripts, NEW i \in DOMAIN script.instances
    PROVE  Address(script.instances[i].name) = script.instances[i].addr
<1>1. \A j \in DOMAIN script.instances :
         script.instances[j].name = script.instances[i].name => j = i
    BY ScriptAssumption
<1>2. (CHOOSE j \in DOMAIN script.instances :
          script.instances[j].name = script.instances[i].name) = i
    BY <1>1
<1> QED BY <1>2 DEF Address

\* What the check counts by name is a link of the instance that has the name.
LEMMA CheckedAreLinked ==
    ASSUME script \in Scripts, Missing(script) = {},
           \A k \in DOMAIN script.relationships : Accepted(script.relationships[k]),
           NEW i \in DOMAIN script.instances, NEW r \in Rel
    PROVE  LET x == script.instances[i].addr
           IN  /\ x[1] = EndA[r] /\ MultAB[r] \in {"1", "1..*"}
                  => \E l \in Elements(links[r]) : l.a = x
               /\ x[1] = EndB[r] /\ MultBA[r] \in {"1", "1..*"}
                  => \E l \in Elements(links[r]) : l.b = x
<1> DEFINE def == script.instances[i]
           x == def.addr
<1>1. Address(def.name) = x
    BY AddressOfDefined
<1>2. ASSUME x[1] = EndA[r], MultAB[r] \in {"1", "1..*"}
      PROVE  \E l \in Elements(links[r]) : l.a = x
    <2>1. <<i, r, "a">> \notin Missing(script)
        OBVIOUS
    <2>2. PICK k \in DOMAIN script.relationships :
              script.relationships[k].rel = r /\ script.relationships[k].a = def.name
        BY <1>2, <2>1 DEF Missing, Required
    <2> DEFINE y == Address(script.relationships[k].b)
    <2>3. /\ Store!Normalized(r, x, y) # {}
          /\ Store!Normalized(r, x, y) \subseteq Elements(links[r])
        BY <1>1, <2>2 DEF Accepted
    <2>4. [a |-> x, b |-> y] \in Store!Normalized(r, x, y)
        BY <1>2, <2>3 DEF Store!Normalized
    <2> QED BY <2>3, <2>4
<1>3. ASSUME x[1] = EndB[r], MultBA[r] \in {"1", "1..*"}
      PROVE  \E l \in Elements(links[r]) : l.b = x
    <2>1. <<i, r, "b">> \notin Missing(script)
        OBVIOUS
    <2>2. PICK k \in DOMAIN script.relationships :
              script.relationships[k].rel = r /\ script.relationships[k].b = def.name
        BY <1>3, <2>1 DEF Missing, Required
    <2> DEFINE y == Address(script.relationships[k].a)
    <2>3. /\ Store!Normalized(r, y, x) # {}
          /\ Store!Normalized(r, y, x) \subseteq Elements(links[r])
        BY <1>1, <2>2 DEF Accepted
    <2>4. [a |-> y, b |-> x] \in Store!Normalized(r, y, x)
        BY <1>3, <2>3 DEF Store!Normalized
    <2> QED BY <2>3, <2>4
<1> QED BY <1>2, <1>3

\* D-13: in a scenario that passed the check, and none of whose links was
\* refused, every instance at a required end is linked when its first event is
\* about to be posted (preflight.py:44, scenario_runner.py:51).
THEOREM PreflightLinks == SimSpec => []PreflightMeansLinked
<1>1. SimInit => CheckedInv
    BY DEF SimInit, SInit, CheckedInv
<1>2. OpInv /\ CheckedInv /\ [SimNext]_simVars => CheckedInv'
    BY CheckedStep
<1>3. CheckedInv => PreflightMeansLinked
    BY CheckedAreLinked DEF CheckedInv, PreflightMeansLinked
<1>4. DInv => OpInv
    BY DEF DInv
<1> QED BY <1>1, <1>2, <1>3, <1>4, DriverInvariant, PTL DEF SimSpec
=============================================================================
