# A TLA+ model of the MDF simulator

This directory holds TLA+ modules that model the MDF simulator, configurations that check them with
TLC on small instances, and proofs that TLAPS checks for every value of the constants. Paths below
are relative to the repository's root (`engine/…`, `compiler/…`).

## 1. The system

The simulator runs Executable-UML domain models. YAML models are validated (`tools/validation.py`),
brought into a canonical form (`schema/`), compiled to Python modules and a manifest (`compiler/`),
packed into a bundle, loaded (`engine/bundle_loader.py`) and run by the engine, driven by a scenario
with triggers (`engine/scenario_runner.py`, `engine/trigger.py`) or by `tools/simulation.py`.

| Component | State it keeps | Operations | Hard behaviours | What makes it correct |
|---|---|---|---|---|
| `engine/scheduler.py` ThreeQueueScheduler | deques `_priority`, `_standard`, heap `_delay` with `_seq`, buffer `_pending_generated`, `_in_flight` | `enqueue`, `cancel`, `tick_delay_queue`, `execute` (a generator) | callers interleave at each `yield`; actions call back into `enqueue`; exceptions unwind through `finally`; timers | nothing lost or doubled, order per sender and target, run to completion, self-directed events first, one timer per triple, timers in order |
| `engine/registry.py` InstanceRegistry | instances per class, `curr_state` in each | `create_sync`, `create_async`, `delete_sync`, `delete_async`, `process_deletion`, `set_state` | births and deaths travel as events that may meet other creations and deletions of the same key | an instance without a state has its creation event under way; one in a final state its deletion event |
| `engine/ctx.py` SimulationContext | the parts, `_current_instance` | everything a scenario or a compiled action calls, in two argument shapes | sender and target are inferred from keys | events go from the acting instance to the named one |
| `engine/relationship.py` RelationshipStore | a list of links for each relationship id | `relate`, `unrelate`, `navigate`, `navigate_chain`, `ctx.traverse` | either orientation of arguments; long series of calls | multiplicity 1 never exceeded; traversal is composition of relations |
| `engine/clock.py` SimulationClock | time in ms, speed, paused | `now`, `advance`, `pause`, `resume` | who advances it | timers fire not before their time |
| `engine/scenario_runner.py`, `engine/trigger.py` | alias map, armed triggers, fire count | `run_scenario`, `evaluate` | calls at each yield on aliases that may be stale; timed events; triggers that set one another off | no state a trigger waits for is missed; a run ends; nothing is left in the queues |
| `engine/preflight.py` | none | `check_multiplicity` | it counts ends by position, `relate` takes either orientation and may refuse | a scenario that passes has its required links |
| `compiler/transformer.py` | none | statements to Python text | which arguments a call carries | events go from the acting instance to the named one; which call a statement becomes is modelled for `generate` and `cancel` only |
| `compiler/manifest_builder.py`, `senescence.py`, `codegen.py` | the manifest, one text for each class | model to manifest to modules | inheritance of machines in any order of names; functions kept under keys that several transitions share; final states | an instance behaves as its state diagram says |
| `tools/validation.py`, `schema/yaml_schema.py` | none | references, reachability, traps, guard completeness | decides about tables that another program builds | what it accepts or rejects is true of the running table |
| `compiler/packager.py`, `engine/bundle_loader.py`, `tools/simulation.py` | files, `sys.modules` | compile, pack, load, run, clean up | tables go through text and are put together again; any step may fail, with files and modules half in place | the loaded table is the compiled one; nothing but a whole bundle runs; every call cleans up and reports |
| `tools/drawio.py`, `schema/drawio_schema.py` | the YAML file of a class and its drawing | render, validate, synchronise | two files edited apart, tied together by ids that contain positions | each direction makes the other side say what it says, and loses nothing it cannot see |
| the rest of `schema/`, `pycca/grammar.py`, `compiler/type_utils.py`, `mypy_check.py`, `tools/model_io.py`, `cli/`, `mdf/` | none | data formats, grammar, input and output | none a state machine shows | not modelled |

How they interact. The author's model passes `tools/validation.py`, if the author asks for it, and
then, whatever validation said, `compile_model`; the bundle it writes is all the engine sees. A scenario or a trigger calls the context; the context calls the registry, the
links and `scheduler.enqueue`. `scheduler.execute()` is a Python generator: it runs alone from one
`yield` to the next, and whoever iterates over it has control at each micro-step and may call the
context there. `simulate_domain` loads a bundle, has `check_multiplicity` look at the scenario and calls
`run_scenario`; it is the caller of all of these, and `run_scenario` is the caller of `execute()`. While the generator is inside an action function, the action calls the context, and so
re-enters the scheduler. Those two re-entrances, and the generator's early end (an exception, or a
caller that stops), are where the hard behaviours are. Drawings meet the rest only in the YAML files,
which `render_to_drawio_state` reads and `sync_from_drawio` rewrites.

## 2. Modules

| Module | Models | Lines it follows |
|---|---|---|
| `Manifest` | what the engine knows of a compiled domain | `engine/manifest.py`, `engine/event.py`, and what `compiler/manifest_builder.py` guarantees of it |
| `Scheduler` | scheduler, registry and the context calls that reach them | `engine/scheduler.py`, `engine/registry.py`, `engine/ctx.py`, `engine/clock.py` |
| `SchedulerProps` | the properties of `Scheduler` | |
| `EventPump` | abstract: two FIFO lines, a set of timers, one event at a time; no buffer, no stages | rules 1–11 of `docs/design/simulation-engine-design.md` |
| `GeneratedCode` | `Scheduler` driven by what compiled `generate` and `cancel` statements call | `compiler/transformer.py`, `engine/ctx.py` |
| `ScenarioRunner` | a scenario that drives `Scheduler` and `RelationshipStore`: setup, links, timed events, triggers, methods | `engine/scenario_runner.py`, `engine/trigger.py`, `schema/scenario_schema.py` |
| `SimulationDriver` | a call of the simulator around `ScenarioRunner`: bundle written, found, unpacked, imported, checked, run, cleaned up, reported | `tools/simulation.py`, `engine/preflight.py`, `engine/bundle_loader.py`, `compiler/packager.py` |
| `DiagramSync` | a state diagram's file and its drawing, rendered, edited and synchronised | `tools/drawio.py`, `schema/drawio_schema.py`, `schema/canonical_builder.py` |
| `RelationshipStore` | links and the queries over them | `engine/relationship.py`, `engine/ctx.py` |
| `ModelValidation` | what the schema and validation say of a domain model | `tools/validation.py`, `schema/yaml_schema.py` |
| `ModelCompiler` | from a domain model through manifest, modules and bundle to an instance that runs | `compiler/`, `schema/canonical_builder.py`, `engine/bundle_loader.py` |
| `MCScheduler`, `MCGenerated`, `MCScenario`, `MCRelationships`, `MCCompiler`, `MCDiagram` | small domains for TLC | |
| `Selection` | what a comprehension with an `if` returns: the elements of a list that are in a set | |
| `SelectionProofs` | lemmas on numbers, filtered sequences and recursive functions that the other proofs cite | |
| `SchedulerProofs`, `QueueProofs`, `LifecycleProofs` | proofs about `Scheduler`, each building on the one before | |
| `RelationshipProofs` | proofs about `RelationshipStore` | |
| `SimulationProofs` | proofs about `ScenarioRunner` and `SimulationDriver` | |
| `CompilerProofs` | proofs about `ModelValidation` and `ModelCompiler` | |
| `DiagramProofs` | proofs about `DiagramSync` | |

What composes what: `ScenarioRunner` extends `Scheduler` (through `SchedulerProps`) and instantiates `RelationshipStore`;
`SimulationDriver` extends `ScenarioRunner`; `GeneratedCode` extends `Scheduler`; `ModelCompiler` extends
`ModelValidation`; `SchedulerProps` instantiates `EventPump`. `DiagramSync` stands alone.

**Scheduler.** `pc` names where `execute()` is. A value such as `"received"` stands for a `yield`:
`EventReceived` has been reported and the caller has control. An action of `Engine` is what the
generator does from one such point to the next; where the code loops without yielding (`TickDelayQueue`,
`PassUnguarded`, `FlushPending`) each turn is a step, and no context call can come between, because
`Allowed` admits calls only when the generator is idle, at a yield, or inside an action. `hand`,
`conc`, `from`, `cand`, `chosen` are the locals `event`, `concrete_class`/`concrete_id`, `curr_state`,
the candidate and `entry` of `_process_event`; they are reset when it returns. `closing` says that an
exception is passing through the `finally` block. The registry is a function from (class, key) to
the current state: `Unset` is Python's `None`, `Absent` means that there is no instance. The heap is the
set of its entries: the code only ever asks for its least one. Guards may hold, fail or raise;
actions make any calls that the configuration allows and may raise if `MayAbort`.

One variable is history, not code: `nextStamp` numbers immediate events so that the properties can
tell one from another and speak of order (in the code two equal events are told apart only by their
places).

Definitions with a suffix (`EnqueueDelay_KeepsOld`, `FlushPending_Reversed`, …) are not part of any
specification. Each is its namesake with a plausible mistake; putting it in the namesake's place
makes TLC report the property that watches for it.

**ScenarioRunner.** `stage` is the place in `run_scenario`, `at` its loop index, `time` its
`current_time`; `armed`, `fires` and `firing` are `TriggerEvaluator.armed`, `total_fires` and what is left
of `to_fire`; `caller` is `_current_instance` while a method runs. An alias is bound to a dict for the
whole run. While that dict is the registry's (`current`), the registry says what is in it; when its
instance is deleted or replaced it keeps the state it had (`frozen`), and triggers go on reading it.
`judged` separates a micro-step before and after `evaluate`. The steps of the scheduler are those of
`Scheduler`, conjoined with what the runner does; methods and actions of the domain (`DomainCode`) may generate and cancel
events, create and delete instances at once or by event, and relate and unrelate those of `Tie`. The scenario's own links are
made in a stage of their own by the operators of `RelationshipStore`, whose `links`
is the runner's; a link that is refused is passed over, as the code drops the error. A name that the scenario does
not define, in a link, an event or a trigger's action, and a method the manifest does not have (`callable`), end
the run (`stage` is `"failed"`), as does an exception of the domain's code. A name that is defined for an abstract class
stands for `None` (`Bound`): it cannot be given a state, be the second end of a link, or be sent to, and each of these ends
the run; as the first end of a link it is passed over, as a sender it is left out, and a trigger on it never fires.
Conditions on attributes are left out.

**SimulationDriver.** `phase` is the place in `simulate_class` and `simulate_domain`, one value for each statement that can
fail; the comment at the head of the module lists them. `bundle` is what lies on the disk: while
`write_bundle` is at work there is no archive, and one that is cut short may lack any part. `directory`
is the temporary directory and who knows its name, `modules` what `load_bundle` has entered in
`sys.modules`, `errors`, `final` and `report` what the caller gets to see, an error by its kind only. `Fails` is
the way into the `finally` block (`Cleanup`). `Missing` is `check_multiplicity`. While `phase` is `"run"` the steps are
those of `ScenarioRunner` (`RunStep`) and the driver's variables rest. A request of kind `"direct"` is a
caller of `run_scenario` that has built the manifest itself, as tests do; only such a manifest has methods to call.

**DiagramSync.** `model` is the YAML file, with the parameters of its events and the methods that get a box, and `drawing` the
XML, a list of cells. The cell of an edge has the id the renderer gave it (source, event and position), its two ends and its label
(event, parameters, guard), and is `plain` if its style is one of those the tools write. `Render` and `Sync` are the two
functions, `Rendered` and `Synced` what they leave; `Matches` and `Loadable` are their early returns. `Matches` reads a drawing
as the code does: the source of an edge from its id, the target from its end, and from its label no guard of `Unread`, the
guards that are empty or have several lines. `Edits` are what somebody does by hand, to the drawing or to the file; they
are the environment and have no source.

**RelationshipStore.** A relationship holds a sequence of links in the association's orientation. A
refused `relate` or `unrelate` changes nothing and so is no step. `NavigateChain` is `navigate_chain`, which asks each hop for
one class and does not ask the registry; `Traverse` is `ctx.traverse`, the same loop without classes, whose answer is looked up
in the registry. That appears as the set `alive`, which only `Traverse` reads.

**ModelValidation, ModelCompiler.** A domain model is a value; `Families` are sets of such values. The
operators of `ModelValidation` return issues as the functions of the same purpose in
`tools/validation.py` do, in the same order of tests and with the same early returns; `Reachable`, which
`networkx` computes there, is the least set that is closed under the edges. `ModelCompiler` has
an action for each turn of the loops that build something (`OrderNext` is a call of `_visit` with the
recursion in it, `BuildNext` a class manifest, `GenerateNext` a module), and `Validate` may come before
them or not at all. `Receive` is what `Scheduler` does with a table when nothing else happens. A guard is a record: `when`, the
pairs of a value of the event's parameter and one of an attribute of the same name for which it holds; `names`, that the
parameter is on the left of one of its comparisons; and `linear`, that all its comparisons are with constants. The validator goes by the last two:
it passes guards it sees no parameter in, and warns, without a decision, of those that are too complex and
of those the solver gives up on (`Undecided`). A model has one parameter of interest for each event. `model`, `defs` and `code` are kept to the end so that tables can be compared with the
diagram they came from.

## 3. What is checked

| Run | Question | Bounds |
|---|---|---|
| `SchedulerQueues` | order, run to completion, timers, the buffer and refinement of `EventPump`, with events generated, cancelled and expiring between any two micro-steps, actions that raise, and callers that stop iterating and start again | 2 instances and a supertype, 3 routes, delays 0 and 1, 4 generated events, clock to 2 |
| `SchedulerLifecycle` | births and deaths, both ways, anywhere, and what they do to a transition in progress | 1 key, 3 classes, 5 events |
| `SchedulerLiveness` | progress under `FairSpec` | 3 events, clock to 1 |
| `Relationships` | multiplicities, typed links, traversal by class and by relationship | 2 classes, 2 keys, 3 associations (1–1, 1–many, reflexive 0..1), 2 links each |
| `Simulation` | cleanup, report, preflight, triggers, termination, and that all the runner does is a behaviour of `Scheduler` (`DrivesScheduler`) | the calls of `MCRequests`, below; 13 scenarios, at most 3 firings, 5 events in all |
| `Compiler` | what validation says of a model, and what the diagram says, is true of the tables in the engine | all models of `MCCompiler`, below |
| `Drawio` | what rendering and synchronising make the other side say, and what they must not lose | 3 files, 2 edits of ten kinds, 3 names, 2 events, 3 guards of which one is unreadable, 1 text of parameters, 1 method |

Why these bounds are enough to meet the cases. With two instances and one of them addressed as
itself, by the other, and under its supertype's name, an event can be self-directed, ordinary or
polymorphic. The tables of `MCScheduler` contain each kind of cell: absent, ignored, unguarded,
guarded, a chain with its fallback first, a transition to the same state, to none, and to a final
state. Four events are enough for one in hand, one buffered and one in each queue; three timers or
two of one triple can be pending with two of them due at once. `MaxEvents` bounds `nextStamp + seq`
in the guard of the context's calls only: the engine itself never waits for it.

What they show. The event order that an instance can observe is that of `EventPump`, a specification
without a run-to-completion buffer (`RefinesPump`), also when actions raise. The state read before `EventReceived` is
the state that the transition leaves, unless a caller at a yield, or the action itself, creates or deletes that very
instance, and nothing but a call brings an instance back that is gone (`StaleOnlyByCall`): the run has callers that delete and
create at every yield and in every action, so the exception occurs in it. An instance created asynchronously always has a state or
a creation event; an instance in a final state always has its deletion event. An answer of `navigate_chain` or
`traverse` has every instance that the links lead to, once, and no other (`ChainIsComposition`).

The scenarios of `MCScenario`: `Chain` has a pair of triggers of which the first sets off the second,
with two timed events that are one timer to the scheduler; `Repeating` a repeating trigger with a method called
between micro-steps; `Called` methods called at setup, with an alias whose instance is replaced there. Methods create and
delete in both ways and relate and unrelate a pair of instances (`ScenTie`); actions generate, cancel and delete. `Short`
is a plain one; in `Reversed` its link is given the other way round, `Ghostly` links a name that no instance has,
`Orphan` has an instance without a required link, and `Contested` one whose link `relate` refuses. `Nameless`, `Anonymous`,
`Unrelatable` and `Stateless` use a name of an abstract class in each place where there is one to use. `Brief` has a trigger on a state that its instance has from the start.
A cap of 3 (10000 in the code) lets the cap be reached and also missed. `MCRequests` are direct runs of the
first three, of `Brief`, `Anonymous` and `Unrelatable`; calls of `simulate_domain` with a good bundle and each kind of scenario; both entry points with
each kind of bundle, with a bundle that is being written, and with a bad name; and missing or invalid
scenario and mock files. Two modules in a bundle are enough for a load that fails after the first.

What they show. However a call ends, its directory is gone and its modules are out of `sys.modules`
(`CleanAfterReturn`), and its report has errors exactly if the scenario did not run to its end, and one trace
(`EveryCallReports`), also where the trace is written inside the `try` block or cannot be written. A
scenario that passes the preflight check, and whose links were all accepted, has every required link
when its first event is about to be posted (`PreflightMeansLinked`); from then on methods and actions may break links, and do. Every call ends (`CallReturns`).

The three files of `MCDiagram` are a chain of three transitions of which two are siblings and two differ only
in position, whose event has parameters, with a method; a state that ends its instance; and one that does so under a guard, next
to a guard that is not read back. Two edits are enough for an edge to be erased and another to be drawn under
its id, for the file and the drawing to change apart, and for a restyled cell next to a new one. `Stripped` takes one
guard for another, which is the most `_strip_html` can do to a text.

What they show. Sync makes the file say what the drawing says, whatever was edited, as long as ids mean
what they did when the drawing was made (`SyncFollowsDrawing`); it invents and loses no entry action of a drawn
state (`SyncKeepsActions`). After a render, skipped or not, the tools read in the drawing what the file says, whatever was
done to either; somebody who looks at it sees the same if it was made anew, or if the old one showed what the
tools read in it; and a drawing that did, and agrees, is left as it was arranged (`RenderShowsFile`). The condition is about the real
case of a moved or loose source or an unreadable guard: such a drawing is skipped and goes on showing something else.
`SyncFollowsDrawing` and `RenderShowsFile` are invariants that speak of `Synced` and `Rendered`: a
render that is skipped changes no variable, and a property of steps would not look at it. `DrawioResync` shows what the condition on ids is worth: the second of two
synchronisations need not meet it.

`MCCompiler` has 24427 models. One class with two states and every list of up to three transitions out of
nineteen, which differ in guard (none, malformed, three sets of two values for the event, one for the
instance, one that compares the two, one that is too complex) and target (two states, an unknown one, `__terminal__`), so that
groups of three siblings occur with every mix of guards that can overlap, leave a gap, or be equal, and with every reason for which the
validator gives no answer. One class with three states, two events and every set of up to
three transitions, enough for each graph in which reaching a state takes two steps or a choice between
siblings. A dozen with wrong references. And three classes in every hierarchy of one or two partitions, each class without a diagram, with an
empty one, or with its own, so that a chain of three is met with every order of names.

What they show. Guards stay with their targets through all the sorting and rebinding
(`GuardsKeepTheirTargets`); a cell whose guards read only the event decides every value if the validator analysed
its guards and accepted them, which leaves out cells it warned of or passed (`AcceptedCellsDecide`); states called unreachable are not entered (`UnreachableIsNotEntered`); traps of the
validator are the final states of the compiler (`TrapsAreFinal`); and classes without a diagram have the machine of their
nearest ancestor with one, whatever the names (`MachinesAreInherited`).

Three of these have a condition that the proofs showed to be needed, each because of a model that is small but not among
the bounded ones. A state may be called unreachable and yet be entered: with 1 → 4 and 4 → 2, where 4 is no state, the
validator leaves both edges out of its graph and reports 2, and the engine goes to 4 and on to 2. A model with
such a target is never accepted, but may be compiled. A class with the machine of an entity supertype may have
targets that are no states in an accepted model, since only the diagrams of active classes are validated
(`tools/validation.py:1069`); the compiler reads them all. And where classes are supertypes of each other, which nothing
refuses, one of them is built before its own supertype and gets no machine.

Deadlock is checked in every run but `Simulation`, `ScenarioTimers` and the three of the compiler, in which calls and
compilations end: a generator that could not continue would show as one, except
where a call of the context is always possible; `SchedulerLiveness` covers that case.

**Fairness.** `FairSpec` is weak fairness of `Engine`: whoever started the generator keeps asking for the
next micro-step, which is what the `for` loops of `engine/scenario_runner.py:83` and
`tools/simulation.py` do, and action functions return. No fairness is assumed of the context's callers,
of starting the engine, or of the clock, so that a timer only moves if someone advances the clock.
`FairSimSpec` is weak fairness of all steps of the driver and the runner together: `simulate_domain` is one thread that never
waits, so that some step is always taken while one can be, and a method or an action of the domain returns. It
does not say which of them is taken. `MaxEvents` bounds what the domain's own code posts, and `CallReturns` rests on it:
a domain whose instances keep sending to themselves does not end.

### Where the repository's own statements and the code part

Each of these runs checks one sentence of a document, a docstring or a comment and finds it violated.

| Run | The statement | What the code does |
|---|---|---|
| `ScenarioTimers` | the execution loop runs until all three queues are empty | a run is done while timed events wait; nothing advances the clock |
| `GeneratedSender` | the acting instance is the implicit sender | the target is: `_current_instance` is never set by the scheduler |
| `CompilerSiblings` | the entry action of the next state fires on the transition | guarded siblings with different targets all run the action of the last one's target |
| `CompilerTerminal` | an instance is deleted after its destructor state's action | a transition to `__terminal__` becomes a cell that no event selects, and its source is not final |
| `DrawioResync` | sync merges structural changes and removes what is not present in the drawing | a transition is known by its position in the file; after one is removed, synchronising the same drawing again removes another that is drawn, and adds one twice |

Others were met on the way and have no run; all are modelled as the code does them, except the last.

- `engine/ctx.py:69` has the class that owns the key found; the first class with that key is, which for sibling
  subtypes may be the wrong one.
- `tick_delay_queue` says that expired events move to the standard queue, and moves self-directed ones
  to the priority queue (`engine/scheduler.py:244`, `:259`).
- `docs/design/engine-scheduler.md:353` treats a guard that raises as False, while the code abandons the
  event, fallback or not (`engine/scheduler.py:426`).
- `docs/design/SYNTAX.md:320` has `cancel Door_close from self to self;`, which compiles to a call with the
  name `self`, unbound in the function (`compiler/transformer.py:466`): the action raises.
- `engine/trigger.py:34` says that aliases point to live instance dicts; after a deletion or a replacement
  they do not.
- The links of a relationship are said to be a set (`engine/relationship.py:3`) and are a list, so that
  after two `relate` calls and one `unrelate` two instances are still related.
- `docs/design/COMPILATION.md:503` makes `0..1` at most one; only `1` is enforced
  (`engine/relationship.py:17`).
- A reflexive link is followed both ways (`engine/relationship.py:216`), while `docs/design/COMPILATION.md:562` calls a
  relationship a single directed link and asks for two where both ways are wanted. `ChainIsComposition` asks for the instances in the direction of
  the link and leaves open whether those against it are in the answer.
- Instances of a subtype are refused by an association of the supertype, which
  `docs/design/COMPILATION.md:748` calls inherited.
- `docs/design/validation-guard-completeness.md:276` says that guards on attributes produce errors; they
  are passed over, or taken for the event's parameter of the same name (`tools/validation.py:587`, `:642`).
- Guards that the validator cannot decide are accepted: where a comparison is not with a constant, as in the
  `rcvd_evt.floor_num == self.next_stop_floor` of `docs/design/COMPILATION.md:614` (`tools/validation.py:921`), or
  the solver gives up (`:962`), there is only a warning, and no word where no comparison has a parameter on its left.
- A state with both a transition to `__terminal__` and one on an event makes the validator report one
  unexpected error and the compiler end with a TypeError, since `None` is compared with a name.
- A supertype with two partitions keeps the subtypes of one (`compiler/manifest_builder.py:271`).
- A deletion event names a class and a key: one posted for an earlier instance deletes its successor
  (`engine/registry.py:211`). `cancel` looks only in the heap and does nothing to a timer that has expired
  and waits in a queue (`engine/scheduler.py:185`).
- `tools/simulation.py:137` says that the function compiles, loads and runs; it compiles nothing.
- A `call` in a scenario fails in every run through `simulate_domain`: the manifest in a bundle has no
  `methods` (`engine/scenario_runner.py:112`).
- The error that `relate` returns is dropped (`engine/scenario_runner.py:54`), and the preflight check
  refuses a link in the orientation that `relate` would turn round (`engine/preflight.py:66`).
- Sync reads an edge to a state that the file does not have yet as a transition to a state named as its event
  (`tools/drawio.py:3008`), ignores what has been done to an edge whose id it knows, and takes a restyled cell for
  one that was erased.
- A render reads the state that an edge leaves in the edge's id (`tools/drawio.py:1306`), where
  `docs/design/drawio-sync.md:154` has the ends read from `source` and `target`: an edge whose source is moved to another
  state leaves the drawing `skipped`, and it shows another transition than the file.
- A guard that is empty or has several lines is not found in its label (`tools/drawio.py:1349`): `skipped` is not returned
  for a file with one, but is for a drawing in which somebody added one to an edge that has none in the file.
- `skipped` is never returned for a domain whose name `title()` changes: the drawing is made anew each time
  (`tools/drawio.py:1242`).
- A guard on a transition to `__terminal__` is accepted (`schema/yaml_schema.py:267`) and kept by sync, but not drawn
  (`tools/drawio.py:2235`): `skipped` is never returned for such a file either (`tools/drawio.py:1316`). Hence `Shown` and
  `ReadBack` in `RenderShowsFile`, and the third file of `MCDiagram`.
- A guard with `<` and a later `>` loses what is between them when it is read from a drawing.
- Two guard functions may get one name, as `guard_A_B_C` for event `C` in state `A_B` and for `B_C` in `A`
  (`compiler/codegen.py:357`). `ModelCompiler` takes names to be distinct.

## 4. What is proved

TLAPS checks these for all classes, keys, tables, routes and bounds, from the assumptions stated in
`Manifest`, `Scheduler`, `RelationshipStore`, `ScenarioRunner`, `SimulationDriver`, `ModelValidation`, `ModelCompiler` and
`DiagramSync` only. Those of the last three say that the marks (`None`, `__terminal__`, …) are no names and that a model
or file has the form the schema gives it; those of the compiler also that names are numbers (so that they are ordered), and that
a model has at least one class (`WellFormed`).

*Sequences and recursion* (`SelectionProofs`). What a recursive definition computes is proved by induction on a
set: `LeastNumber` and `Induction` say that a set with 0 that is closed under successor has every number, and
`RecursionExists` that the function a definition like `Filtered` chooses is the one its equations describe. `FilteredElements`,
`FilteredOnce` and the `Places` lemmas then say of a filtered sequence which elements it has, how often, and where each comes from.

*Types and the buffer* (`SchedulerProofs`). `TypeOK` is not inductive alone: `Head(pending)` is an event
only where `pending` is not empty, and `Entries[chosen]` needs `hand`, `conc` and `chosen` to be what
the place in the generator says. `TypeInv` adds that (`FrameOK`), and gives `TypeCorrect`. `BufferInv` ties
`inFlight` and `pending` to `pc`, and gives `BufferIsScoped`. All of this, and what follows about queues and timers, is
proved of `OpenSpec`, in which whoever has control at a yield or in an action may make any call of the context, with any
delay and any number of times, and instances come and go as they like; `SpecIsOpen` shows that `Spec`, with its routes
and bounds, is a special case.

*Queues* (`QueueProofs`). Every step of `Next` has one of a few shapes as far as the queues are concerned: an
event joins a queue, joins the buffer, moves from buffer to queue, is dispatched, or nothing changes
(`StepShape`). `QueueInv` says that stamps increase in each queue and in the buffer, are below
`nextStamp`, that the buffer is younger than the queues and that the two queues and `hand` are
disjoint; it is preserved by each shape. From it follow `QueuesAreFifo`, `EventsAreDispatchedOnce`,
`RunsToCompletion`, `SelfDirectedGoFirst` and `PairsKeepOrder`.

*Timers* (`QueueProofs`). `DelayInv`: one entry for a triple, sequence numbers distinct and below `seq`, no
lifecycle events. It gives `TimersAreUnique`, `HeapNeverTies`, `LifecycleKeepsToStandard`,
`TimersExpireInOrder` and `NoEventIsLost`.

*Refinement* (`QueueProofs`). `SchedulerImplementsPump` is `Spec => RefinesPump`: each line of `EventPump` is a queue with what
the buffer holds for it appended, its timers are the heap, its event is `hand`. Every step is a step of the pump or a
stutter. The calls of the context are the pump's own; where the engine's steps differ is at the end of an event, when the
buffer is flushed: an event that moves from the buffer to its queue leaves the lines as they were, since the buffer is
flushed from its head.

*Births and deaths* (`LifecycleProofs`). What makes `UnsetHasCreation` and `FinalHasDeletion` inductive is that an event
stays ahead of its instance: it waits, or it is in hand at the yield of `EventSelected` and its effect is
still to come (`Awaited`). `StepAwaits` shows that it stops being awaited only in the step that processes it,
and that step gives the instance a state, or deletes it. `UnsetAwaitsCreation` assumes `~MayAbort`: a caller that drops the
generator at that yield drops the event in hand. `FinalAwaitsDeletion` also assumes that nothing is created in a
final state (`NotBornFinal`), since only a transition asks for the deletion. `OnlyCallsMakeStale` assumes nothing about
the callers: a step after which the instance in hand, its transition still to come, has another state than the one that was read is a
call that creates or deletes that instance (`StepStale`); and a step that gives an absent one a state is such a call (`StepReturns`).

*Links* (`RelationshipProofs`). `RInv` joins `LinksTypeOK` and `AtMostOne`; the counting argument is about
the cardinality of the set of positions of an instance in the list after `Append` and `RemoveAt`. `LinksChangeOneByOne` is
about steps: one call adds a link at the end of one list, or takes one out of it. `ChainsAreExact` says what `navigate_chain` and
`traverse` return for chains of every length, where the run checks one hop and two: by induction on the length, the frontier
after n hops has the instances that a path of n links leads to (`Led`, `LedFurther`), each once, because the `seen` set drops what a hop
finds again (`DistinctType`). It needs the types of links only. What the answer has is bounded from both sides (`IsExact`): all that the links lead
to in their direction (`Arrows`) is in it, and all that is in it is joined by links (`Lines`); the two differ for reflexive
relationships only. `HopsCompose` is its case `ChainIsComposition`.

*Runs of a scenario* (`SimulationProofs`). `NoStateMissed` speaks of steps; `SettledInv` is the invariant it rests on: once the
triggers were evaluated at a micro-step, and for as long as the engine has not reached its next change of
state, no armed trigger that fires once has its state before it. The engine changes a state only in the
steps to four of its yields (`EngineRests`), at which the triggers are evaluated before the next step; what actions and
methods create and delete leaves the dict of every alias as it was (`DomainCodeSees`), because the evaluator reads dicts
and not the registry. This gives `TriggersMissNothing`. `DryInv`, that the buffer is empty and nothing in flight
outside the handling of an event, gives `RunsEndDry`. `RunnerTypes` is the runner's type invariant; with it each call that
setup, a timed event, a trigger or a method makes is shown to be one that `OpenNext` admits (`RunsUseScheduler`), and so
the invariants of the scheduler and its promises about steps hold of every run (`RunsKeepInvariants`, `RunsKeepPromises`).

*Calls of the simulator* (`SimulationProofs`). None of `CleanAfterReturn`, `EveryCallReports` and `OnlyWholeBundles` is inductive: that
nothing is left at the end depends on what each earlier phase may have put in place. `DInv` has three parts.
`OpInv` says which phases each kind of call can be in; `LoadInv` who holds the directory in each phase and when modules may be
there; `ReportInv` which of errors, states and traces there can be before the report is made, and that the run
has stopped. A step of the run changes no variable of the driver, and once the run has ended no step of it is
left; a step of the driver leaves the run alone. So each part is preserved action by
action, and gives `CallsCleanUp`, `CallsReport` and `RunsAreOfWholeBundles`, for any scenario, any number of modules, any domain, without
a bound on events. `DriverRunsScenario` shows that every call is a run of `ScenarioRunner` or no run, so that the two
theorems above hold of calls too. `PreflightLinks` adds that a scenario that is run has passed
the check (`CheckedInv`), and goes from what the check counts, names at positions, to links of the instance
with that name, which is where it needs that names are unique (`schema/scenario_schema.py:125`). It speaks of the moment when the first event is
about to be posted, before which no code of the domain has run; what methods and actions do to links later is left to them. `DriverTypes` is the type
of every variable of a call, and `CallsUseScheduler` carries what holds of `OpenSpec` over to calls.

*The compiler* (`CompilerProofs`). `PipelineInv` ties each stage to the one before: what was recorded as validated is what
`DomainIssues` says of the model, a class with a diagram has the machine of that diagram, a module is `Generated` from its
manifest, the engine's tables are `Reread` and `Rebound` from the modules. The properties then follow from lemmas about
these operators. `TrapsAndFinalStatesAgree` and `AcceptedGuardsDecide` read the issues back into what the validator looked at
(`TrapIssue`, `GuardIssue`), the second for the cells that were analysed, since a cell that leaves a warning or is passed is accepted too; a diagram that stops the validation of its domain has to be seen to leave an issue too.
`GuardsStayWithTargets` rests on a bijection between the places in the file and the places in the sorted cell (`EntriesPlaces`).
`UnreachableStatesStayUnentered` needs an invariant of the engine's side: the instance is in a state that is reachable in
its diagram (`ReachInv`). `CompilerTypes` and `NearestMachineIsInherited` need one of the loops (`ClassesInv`):
classes are ordered once and after their supertypes, manifests are built in that order, and a class without a
diagram has the machine of its parent. `_visit` walks up until it meets a class that it knows or one without a parent; that
it never stops in a circle is where the proof uses that no class is its own ancestor (`Acyclic`, which gives each class a depth).
The nearest ancestor with a diagram is then found by induction along `Ancestors`.

*Diagrams* (`DiagramProofs`). `DiagramTypes` is the type of both variables, each edit by hand included. What a file and a drawing say
is a list of transitions without regard to order, and two lists say the same if one has the elements of the other at its
places, each once (`Places`, and `PlacesBag` for what `ToBag` makes of it). `RenderingShowsTheFile` has no condition on the drawing as to what the
tools read, and the one of `RenderShowsFile` as to what is seen. It needs that the
comparison after sorting is no weaker than that (`SortedAlikePlaces`): it looks at each group of siblings of the file and at the lengths
of the lists. If the groups agree, each transition of the file is in the drawing as often as in the file, and
then there is no place left for another (`SameTimes`). `SyncMakesFileFollow` splits the edges in those with a known id,
which are in bijection with the transitions that are kept (`KeptPlaces`), and those without, which are the new ones
(`NewPlaces`). The first half needs that no id is drawn twice. That is inductive (`IdsStayDistinct`), and it rests on the environment:
a new edge gets an id that is not in use in the drawing. What it cannot give is that an id means the same transition as when it was drawn;
this is the hypothesis `Legible`, and `DrawioResync` the run without it. `SyncLosesNoAction` is about every drawing, legible or
not.

Only model-checked: `DrivesScheduler`, whose bounds on delays and events are those of the
run, and of which `RunsUseScheduler` is the general form; and liveness, which is out of the prover's reach under fairness.

## 5. Not modelled

Attribute values and the arguments of events (guards and actions read them; both are
nondeterministic here), and so conditions on attributes in triggers; the text the compiler writes beyond the calls it
makes and the tables; types, identifiers and bridges in validation; compilation that fails for other reasons than its
model, the type check of generated sources; wall-clock pacing;
bridges; the branches `unknown_class` of the scheduler, which no event can reach because instances of
unknown classes are never created. Of `tools/drawio.py`: layout and routing, which are geometry; class diagrams, whose
merge works on names only; and, of state diagrams, boxes with odd styles, two methods of one name, entry actions that are empty texts,
and labels that somebody left without the form the tools give them. Grammar, type
names, reading and writing YAML, and the command line are input and output without state of their own.

## 6. Plan

1. The rest of the compiler: senescent states, attribute inheritance, names of generated functions, and the
   table of `ModelCompiler` run by `Scheduler` itself.
2. The rest of validation: associations, identifiers along a hierarchy, and guards over integer ranges
   compared with a definition over all values.
3. Links and instances together: deletion and re-creation with links left behind.
4. Class diagrams and their synchronisation.
5. A proof of the whole of `DrivesScheduler`, with the bounds of the scheduler's own specification.
