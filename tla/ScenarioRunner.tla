--------------------------- MODULE ScenarioRunner ---------------------------
(***************************************************************************)
(* run_scenario() (src/engine/scenario_runner.py) with its TriggerEvaluator *)
(* (src/engine/trigger.py), driving the scheduler. The runner creates the  *)
(* scenario's instances and links (RelationshipStore), posts its events,   *)
(* then iterates over execute(); at each micro-step it evaluates the       *)
(* triggers and performs the actions of those that fire, before it asks    *)
(* for the next one.                                                       *)
(*                                                                         *)
(* The variable stage names where run_scenario() is:                       *)
(*   "create", "relate", "post"   in its loops over the scenario           *)
(*   "drive"             in execute(), or at a yield of it                 *)
(*   "fire"              performing the actions of the triggers that fire  *)
(*   "call"              in a method that a scenario event or trigger calls *)
(*   "done", "failed"    at its end, or ended by an exception: the cap on  *)
(*                       firings, an alias, an instance or a method there  *)
(*                       is not, or code of the domain that raises         *)
(***************************************************************************)
EXTENDS SchedulerProps

CONSTANTS
    Alias,      \* names the scenario gives its instances
    Scripts,    \* the scenarios (ScenarioDef)
    FireLimit,  \* TRIGGER_FIRE_LIMIT
    Nobody,     \* no alias
    Rel, EndA, EndB, MultAB, MultBA, MaxLinks,  \* as in RelationshipStore
    Tie         \* <<relationship, a, b>>: what the model's code relates

\* An instance definition; Unset if it has no `state`.
InstanceDef == [name : Alias, addr : Addr, state : StateOrNone]

\* An event definition. timing is "at" (at_ms), "after" (after_ms) or "now".
\* An action: an event to post, or, if signal is Nobody, a method to call.
EventDef == [signal : Signal \cup {Nobody}, sender : Alias, target : Alias,
             timing : {"at", "after", "now"}, ms : Nat]

\* An initial link.
RelationshipInit == [rel : Rel, a : Alias, b : Alias]

TriggerDef == [on : Alias, state : State, repeat : BOOLEAN,
               signal : Signal \cup {Nobody}, sender : Alias, target : Alias]

ASSUME ScriptAssumption ==
    \A s \in Scripts :
        /\ s.instances \in Seq(InstanceDef)
        /\ s.relationships \in Seq(RelationshipInit)
        /\ s.events \in Seq(EventDef)
        /\ s.triggers \in Seq(TriggerDef)
        /\ \A i, j \in DOMAIN s.instances :
              s.instances[i].name = s.instances[j].name => i = j

ASSUME LimitAssumption == FireLimit \in Nat /\ Nobody \notin Alias /\ "Idle" \in State

ASSUME TieAssumption == Tie \subseteq Rel \X Addr \X Addr

VARIABLES
    script,     \* the scenario that is run
    callable,   \* the manifest has the functions of the methods
    links,      \* _links of the relationship store
    stage,      \* see above
    at,         \* the next definition of the loop
    time,       \* current_time of the loop that posts the events
    current,    \* aliases whose dict is an instance of the registry
    frozen,     \* curr_state in the dicts that no longer are
    armed,      \* triggers still armed
    fires,      \* total_fires
    firing,     \* triggers of this pass whose action is still to perform
    judged,     \* the triggers were evaluated at this micro-step
    caller      \* ctx._current_instance while a method runs

given == <<script, callable>>
runnerVars == <<given, links, stage, at, time, current, frozen, armed, fires,
                firing, judged, caller>>
sVars == <<vars, runnerVars>>

Store == INSTANCE RelationshipStore WITH alive <- {a \in Addr : Live(a)}

\* The scenario defines an instance of that name.
Named(x) == \E i \in DOMAIN script.instances : script.instances[i].name = x

Address(x) ==
    LET i == CHOOSE i \in DOMAIN script.instances : script.instances[i].name = x
    IN  script.instances[i].addr

\* The alias stands for an instance: for one of an abstract class ctx.create()
\* returns None.
Bound(x) == Named(x) /\ Address(x)[1] \notin Abstract

\* The sender of an event: without an instance it is the target itself.
SenderOf(x, target) == IF x \in Alias /\ Bound(x) THEN Address(x) ELSE target

\* What inst["curr_state"] is in the dict of an alias.
CurrState(x) == IF x \in current THEN registry[Address(x)] ELSE frozen[x]

(***************************************************************************)
(* The instances at these addresses are deleted or replaced: the dict that *)
(* an alias is bound to stays as it was, outside the registry.             *)
(***************************************************************************)
Detach(addrs) ==
    LET lost == {x \in current : Address(x) \in addrs}
    IN  /\ current' = current \ lost
        /\ frozen' = [x \in Alias |-> IF x \in lost THEN CurrState(x) ELSE frozen[x]]

Deleted == {a \in Addr : Live(a) /\ registry'[a] = Absent}

-----------------------------------------------------------------------------
(* Setup *)

\* ctx.create(), then the state the scenario asks for. An earlier instance
\* with the same class and identifier is replaced. Of an abstract class none is
\* created: its alias stands for None, which has no state to be set.
StartState(def) ==
    IF def.state # Unset THEN def.state
    ELSE IF Initial[def.addr[1]] # Unset THEN Initial[def.addr[1]] ELSE "Idle"

CreateNext ==
    /\ stage = "create"
    /\ at <= Len(script.instances)
    /\ LET def == script.instances[at]
           lost == {x \in current : Address(x) = def.addr}
       IN  \/ /\ def.addr[1] \notin Abstract
              /\ registry' = [registry EXCEPT ![def.addr] = StartState(def)]
              /\ current' = (current \ lost) \cup {def.name}
              /\ frozen' = [x \in Alias |-> IF x \in lost THEN CurrState(x) ELSE frozen[x]]
              /\ UNCHANGED stage
           \/ /\ def.addr[1] \in Abstract
              /\ stage' = IF def.state = Unset THEN stage ELSE "failed"
              /\ UNCHANGED <<registry, current, frozen>>
    /\ at' = at + 1
    /\ UNCHANGED <<queueVars, now, pc, frameVars, nextStamp, given, links, time,
                   armed, fires, firing, judged, caller>>

CreatedAll ==
    /\ stage = "create"
    /\ at > Len(script.instances)
    /\ stage' = "relate"
    /\ at' = 1
    /\ UNCHANGED <<vars, given, links, time, current, frozen, armed, fires, firing,
                   judged, caller>>

Refused(r, x, y) == \A l \in Store!Normalized(r, x, y) : Store!Full(r, l)

\* The error that relate() returns for a link it refuses is dropped, and so is
\* the one for a first end without an instance, which it takes for the name of
\* a relationship. A second end without one, or an alias that is not defined,
\* raises.
RelateNext ==
    /\ stage = "relate"
    /\ at <= Len(script.relationships)
    /\ at' = at + 1
    /\ UNCHANGED vars
    /\ LET def == script.relationships[at]
       IN  \/ /\ Bound(def.a) /\ Bound(def.b)
              /\ \/ Store!Relate(def.rel, Address(def.a), Address(def.b))
                 \/ Refused(def.rel, Address(def.a), Address(def.b)) /\ UNCHANGED links
              /\ UNCHANGED stage
           \/ /\ Named(def.a) /\ Named(def.b) /\ ~Bound(def.a)
              /\ UNCHANGED <<links, stage>>
           \/ /\ Named(def.a) /\ Named(def.b) => Bound(def.a) /\ ~Bound(def.b)
              /\ stage' = "failed"
              /\ UNCHANGED links
    /\ UNCHANGED <<given, time, current, frozen, armed, fires, firing, judged, caller>>

RelatedAll ==
    /\ stage = "relate"
    /\ at > Len(script.relationships)
    /\ stage' = "post"
    /\ at' = 1
    /\ UNCHANGED <<vars, given, links, time, current, frozen, armed, fires, firing,
                   judged, caller>>

\* Faulty: after_ms is subtracted.
FireTime_Minus(def) ==
    CASE def.timing = "at" -> def.ms
      [] def.timing = "after" -> time - def.ms
      [] def.timing = "now" -> time

FireTime(def) ==
    CASE def.timing = "at" -> def.ms
      [] def.timing = "after" -> time + def.ms
      [] def.timing = "now" -> time

\* Faulty: straight into a queue, past the scheduler's buffer.
Post_Direct(signal, sender, target, delayMs) ==
    \/ \E c \in Class :
          /\ OwnerOfKey(Address(target)[2], c)
          /\ LET to == <<c, Address(target)[2]>>
             IN  EnqueueDirect(NewEvent(signal, SenderOf(sender, to), to, Unset))
          /\ nextStamp' = nextStamp + 1
          /\ UNCHANGED <<delay, seq, pending, inFlight, registry, now, pc, frameVars>>
    \/ /\ \A c \in Class : ~OwnerOfKey(Address(target)[2], c)
       /\ UNCHANGED vars

\* ctx.generate() with the key of the target's dict: the target is whichever
\* instance has the key now; if there is none nothing is posted.
Post(signal, sender, target, delayMs) ==
    \/ \E c \in Class :
          /\ OwnerOfKey(Address(target)[2], c)
          /\ LET to == <<c, Address(target)[2]>>
             IN  Enqueue(NewEvent(signal, SenderOf(sender, to), to, Unset), delayMs)
          /\ UNCHANGED <<registry, now, pc, frameVars>>
    \/ /\ \A c \in Class : ~OwnerOfKey(Address(target)[2], c)
       /\ UNCHANGED vars

\* An event definition or the action of a trigger: an event is posted, a
\* method called. The aliases must be defined, the target an instance and the
\* method there, or the run ends.
Perform(def, delayMs) ==
    \/ /\ Named(def.sender) /\ Bound(def.target)
       /\ \/ /\ def.signal # Nobody
             /\ Post(def.signal, def.sender, def.target, delayMs)
             /\ UNCHANGED <<stage, caller>>
          \/ /\ def.signal = Nobody
             /\ callable
             /\ stage' = "call"
             /\ caller' = def.sender
             /\ UNCHANGED vars
    \/ /\ Named(def.sender) /\ Bound(def.target) => def.signal = Nobody /\ ~callable
       /\ stage' = "failed"
       /\ UNCHANGED <<vars, caller>>

PostNext ==
    /\ stage = "post"
    /\ at <= Len(script.events)
    /\ LET def == script.events[at]
       IN  /\ time' = FireTime(def)
           /\ Perform(def, FireTime(def))
    /\ at' = at + 1
    /\ UNCHANGED <<given, links, current, frozen, armed, fires, firing, judged>>

StartRun ==
    /\ stage = "post"
    /\ at > Len(script.events)
    /\ stage' = "drive"
    /\ Start
    /\ armed' = DOMAIN script.triggers
    /\ UNCHANGED <<given, links, at, time, current, frozen, fires, firing, judged, caller>>

-----------------------------------------------------------------------------
(* execute() and the triggers *)

\* The runner asks for the next micro-step once it is done with this one.
Advance ==
    /\ stage = "drive"
    /\ AtYield => judged
    /\ Engine
    /\ Detach(Deleted)
    /\ judged' = FALSE
    /\ stage' = IF pc' # "idle" THEN "drive" ELSE IF closing THEN "failed" ELSE "done"
    /\ UNCHANGED <<given, links, at, time, armed, fires, firing, caller>>

\* Faulty: the match is tested once, after the loop over the triggers.
Due_LastOnly(t) ==
    /\ t \in armed
    /\ t = Len(script.triggers)
    /\ Bound(script.triggers[t].on)
    /\ CurrState(script.triggers[t].on) = script.triggers[t].state

Due(t) ==
    /\ t \in armed
    /\ Bound(script.triggers[t].on)
    /\ CurrState(script.triggers[t].on) = script.triggers[t].state

DueNow == Filtered([t \in DOMAIN script.triggers |-> t], {t \in armed : Due(t)})

OverLimit(count) == fires + count > FireLimit

\* evaluate(): counts and disarms first; above the cap it raises, and none of
\* this pass is performed.
Evaluate ==
    /\ stage = "drive"
    /\ AtYield
    /\ ~judged
    /\ judged' = TRUE
    /\ fires' = fires + Len(DueNow)
    /\ armed' = {t \in armed : ~Due(t) \/ script.triggers[t].repeat}
    /\ \/ OverLimit(Len(DueNow)) /\ stage' = "failed" /\ UNCHANGED firing
       \/ ~OverLimit(Len(DueNow)) /\ stage' = "fire" /\ firing' = DueNow
    /\ UNCHANGED <<vars, given, links, at, time, current, frozen, caller>>

\* _fire_trigger_action(), one trigger after the other.
FireNext ==
    /\ stage = "fire"
    /\ firing # <<>>
    /\ Perform(script.triggers[Head(firing)], 0)
    /\ firing' = Tail(firing)
    /\ UNCHANGED <<given, links, at, time, current, frozen, armed, fires, judged>>

FiredAll ==
    /\ stage = "fire"
    /\ firing = <<>>
    /\ stage' = "drive"
    /\ UNCHANGED <<vars, given, links, at, time, current, frozen, armed, fires, firing,
                   judged, caller>>

-----------------------------------------------------------------------------
(* Code of the domain: methods and actions *)

\* A method may generate and cancel events, create and delete instances, and
\* relate and unrelate them; the events it generates have the sender that the
\* scenario names. Actions do so from inside the engine.
DomainCode ==
    /\ \/ stage = "call"
       \/ stage = "drive" /\ pc = "acting"
    /\ \/ \E r \in Route, d \in Delay :
             /\ stage = "call" => r[2] = SenderOf(caller, r[3])
             /\ Generate(r[1], r[2], r[3], d)
             /\ Detach({})
             /\ UNCHANGED links
       \/ \E r \in Route : Cancel(r[1], r[2], r[3]) /\ Detach({}) /\ UNCHANGED links
       \/ \E a \in Addr :
             /\ \/ DeleteSync(a)
                \/ \E s \in BirthStates : CreateSync(a, s)
                \/ \E s \in BirthStates \cup {Unset} : CreateAsync(a, s)
             /\ Detach({a})
             /\ UNCHANGED links
       \/ \E a \in Addr : DeleteAsync(a) /\ Detach({}) /\ UNCHANGED links
       \/ /\ Allowed("relate")
          /\ UNCHANGED <<vars, current, frozen>>
          /\ \E t \in Tie : Store!Relate(t[1], t[2], t[3]) \/ Store!Unrelate(t[1], t[2], t[3])
    /\ UNCHANGED <<given, stage, at, time, armed, fires, firing, judged, caller>>

\* An exception in an action passes through the engine's finally block first,
\* one in a method ends the run.
CodeRaises ==
    /\ MayAbort
    /\ \/ /\ stage = "drive"
          /\ pc = "acting"
          /\ Unwind
          /\ UNCHANGED <<stage, caller>>
       \/ /\ stage = "call"
          /\ stage' = "failed"
          /\ caller' = Nobody
          /\ UNCHANGED vars
    /\ UNCHANGED <<given, links, at, time, current, frozen, armed, fires, firing, judged>>

MethodReturns ==
    /\ stage = "call"
    /\ stage' = IF pc = "idle" THEN "post" ELSE "fire"
    /\ caller' = Nobody
    /\ UNCHANGED <<vars, given, links, at, time, current, frozen, armed, fires, firing,
                   judged>>

-----------------------------------------------------------------------------
SInit ==
    /\ Init
    /\ script \in Scripts
    /\ callable \in BOOLEAN
    /\ links = [r \in Rel |-> <<>>]
    /\ stage = "create"
    /\ at = 1
    /\ time = 0
    /\ current = {}
    /\ frozen = [x \in Alias |-> Absent]
    /\ armed = {}
    /\ fires = 0
    /\ firing = <<>>
    /\ judged = FALSE
    /\ caller = Nobody

Runner ==
    \/ CreateNext \/ CreatedAll \/ RelateNext \/ RelatedAll \/ PostNext \/ StartRun
    \/ Advance \/ Evaluate \/ FireNext \/ FiredAll \/ MethodReturns

SNext == Runner \/ DomainCode \/ CodeRaises

SSpec == SInit /\ [][SNext]_sVars

\* The runner is one thread that never waits, and methods and actions return.
FairSSpec == SSpec /\ WF_sVars(Runner)

-----------------------------------------------------------------------------
(* Properties *)

\* The types of the runner's variables.
RunnerTypeOK ==
    /\ script \in Scripts
    /\ callable \in BOOLEAN
    /\ links \in [Rel -> Seq(Store!Link)]
    /\ stage \in {"create", "relate", "post", "drive", "fire", "call", "done", "failed"}
    /\ at \in Nat
    /\ time \in Nat
    /\ current \subseteq Alias
    /\ frozen \in [Alias -> StateOrNone \cup {Absent}]
    /\ armed \subseteq DOMAIN script.triggers
    /\ fires \in Nat
    /\ firing \in Seq(DOMAIN script.triggers)
    /\ judged \in BOOLEAN
    /\ caller \in Alias \cup {Nobody}

\* The runner uses the scheduler as any caller may: whatever a scenario, its
\* triggers and the methods they call do, at whatever micro-step, is a step
\* of Scheduler, so that what holds of Scheduler holds of every run.
AllOps == {"generate", "cancel", "create", "createAsync", "delete", "deleteAsync"}

Driven == INSTANCE Scheduler WITH
            Cast <- {}, Route <- Signal \X Addr \X Addr, BirthStates <- State,
            Delay <- 0 .. 3, MaxEvents <- 100, MayAbort <- TRUE,
            IdleOps <- AllOps, YieldOps <- AllOps, ActionOps <- AllOps

DrivesScheduler == Driven!Spec

\* A state that an armed trigger waits for is not left before the trigger
\* has fired: every change of state is followed by a micro-step at which the
\* triggers are evaluated before the next change.
NoStateMissed ==
    [][\A t \in {u \in armed : Bound(script.triggers[u].on)} :
         CurrState(script.triggers[t].on) = script.triggers[t].state
         => \/ CurrState(script.triggers[t].on)' = CurrState(script.triggers[t].on)
            \/ script.triggers[t].repeat]_sVars

\* When a run is done no event waits, though triggers post events up to the
\* very last micro-step.
NothingWaitsWhenDone == stage = "done" => Waiting = {}

-----------------------------------------------------------------------------
(* What the documents say and the code does not do *)

\* simulation-runner.md: "The execution loop runs until all three scheduler
\* queues are empty".
RunEmptiesQueues == stage = "done" => delay = {}
=============================================================================
