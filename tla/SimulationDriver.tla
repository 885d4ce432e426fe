-------------------------- MODULE SimulationDriver --------------------------
(***************************************************************************)
(* simulate_domain() and simulate_class() (src/tools/simulation.py): from  *)
(* a bundle on disk (src/compiler/packager.py) by way of its loading       *)
(* (src/engine/bundle_loader.py) and the preflight check (src/engine/      *)
(* preflight.py) to a run of the scenario (ScenarioRunner), a trace file   *)
(* and a report. Any step may fail; what was begun is to be cleaned up and *)
(* the failure reported all the same.                                      *)
(*                                                                         *)
(* The variable phase names where the program is:                          *)
(*   "compiled", "writing"   before the call: compile_model()              *)
(*   "find"                  in _find_bundle_for_class()                   *)
(*   "check", "locate", "scenario", "mocks", "load", "bind", "preflight",  *)
(*   "refuse", "run"         in the try block of simulate_domain()         *)
(*   "cleanup"               in its finally block                          *)
(*   "trace"                 after it                                      *)
(*   "returned", "raised"    the caller has its report, or an exception    *)
(***************************************************************************)
EXTENDS ScenarioRunner

CONSTANTS
    Requests,       \* the calls, with the files they find (Request)
    Contained,      \* classes with a module in the bundle
    TraceMayFail    \* whether the trace file may be impossible to write

\* What may be found where the bundle should be: nothing, a file that is no
\* zip archive, an archive without manifest, one of another engine version,
\* one without (all) the modules it needs, or one that can be run.
BundleKind == {"absent", "torn", "incomplete", "otherEngine", "unbindable", "good"}

\* op is "domain", "class", or "direct" for a caller of run_scenario() that
\* has built the manifest itself.
Request == [op : {"domain", "class", "direct"}, safeName : BOOLEAN, bundle : BundleKind,
            compiles : BOOLEAN, file : {"ok", "absent", "invalid"},
            mocks : {"ok", "invalid"}, script : Scripts]

ASSUME RequestAssumption ==
    /\ \A r \in Requests : r \in Request
    /\ Contained \subseteq Class
    /\ TraceMayFail \in BOOLEAN

\* What a report says went wrong: the types of the exceptions, and the two
\* errors of the driver's own.
ErrorKind == {"ValueError", "ClassNotFound", "FileNotFoundError", "YAMLError",
              "BadZipFile", "BundleCorruptError", "BundleVersionError", "PreflightError",
              "OSError", "RuntimeError"}

VARIABLES
    request,
    phase,
    bundle,     \* the file of the bundle
    directory,  \* the temporary directory: "none", "loading" while only load_bundle()
                \* knows its name, "held" when its caller does
    modules,    \* classes whose module mdf_generated_* is in sys.modules
    errors,     \* kinds of the errors so far
    final,      \* final_instance_states: pairs of an instance and its state
    traces,     \* trace files written
    report      \* what the caller gets: its errors, states and whether it
                \* names a trace

driverVars == <<request, phase, bundle, directory, modules, errors, final, traces, report>>
simVars == <<sVars, driverVars>>

NoReport == [errors |-> {}, final |-> {}, trace |-> FALSE]

Ended == phase \in {"returned", "raised"}

-----------------------------------------------------------------------------
(* Writing the bundle *)

\* The archive is opened for writing over the old one: from here to its end
\* the file is no archive. A compilation that fails before leaves it alone.
OpenBundle ==
    /\ phase = "compiled"
    /\ request.compiles
    /\ phase' = "writing"
    /\ bundle' = "torn"
    /\ UNCHANGED <<sVars, request, directory, modules, errors, final, traces, report>>

FirstPhase == CASE request.op = "domain" -> "check"
                [] request.op = "class" -> "find"
                [] request.op = "direct" -> "run"

\* write_bundle() ends, or is killed, or closes the archive on its way out
\* with the entries it has so far: metadata first, modules last.
CloseBundle ==
    /\ phase = "writing"
    /\ phase' = FirstPhase
    /\ bundle' \in {"good", "torn", "incomplete", "unbindable"}
    /\ UNCHANGED <<sVars, request, directory, modules, errors, final, traces, report>>

Call ==
    /\ phase = "compiled"
    /\ ~request.compiles
    /\ phase' = FirstPhase
    /\ UNCHANGED <<sVars, request, bundle, directory, modules, errors, final, traces, report>>

-----------------------------------------------------------------------------
(* simulate_class *)

ReturnsError(kind) ==
    /\ phase' = "returned"
    /\ report' = [NoReport EXCEPT !.errors = {kind}]
    /\ UNCHANGED <<sVars, request, bundle, directory, modules, errors, final, traces>>

\* A file that is no archive is passed over; any other may have the class or
\* not have it.
FindBundle ==
    /\ phase = "find"
    /\ \/ ~request.safeName /\ ReturnsError("ValueError")
       \/ request.safeName /\ ReturnsError("ClassNotFound")
       \/ /\ request.safeName
          /\ bundle \notin {"absent", "torn"}
          /\ phase' = "check"
          /\ UNCHANGED <<sVars, request, bundle, directory, modules, errors, final,
                         traces, report>>

-----------------------------------------------------------------------------
(* simulate_domain *)

\* An exception in the try block.
Fails(kind) ==
    /\ phase' = "cleanup"
    /\ errors' = errors \cup {kind}

Proceed(next) ==
    /\ phase' = next
    /\ UNCHANGED errors

\* The three checks before the bundle is opened. For simulate_class() the name
\* is the stem of the bundle it found, of which it knows nothing.
CheckName ==
    /\ phase = "check"
    /\ \/ (request.op = "class" \/ request.safeName) /\ Proceed("locate")
       \/ (request.op = "class" \/ ~request.safeName) /\ Fails("ValueError")
    /\ UNCHANGED <<sVars, request, bundle, directory, modules, final, traces, report>>

LocateBundle ==
    /\ phase = "locate"
    /\ IF bundle # "absent" THEN Proceed("scenario") ELSE Fails("FileNotFoundError")
    /\ UNCHANGED <<sVars, request, bundle, directory, modules, final, traces, report>>

\* A file that is no YAML, or none of a scenario: pydantic's ValidationError is
\* a ValueError and is reported as one.
LoadScenario ==
    /\ phase = "scenario"
    /\ \/ request.file = "ok" /\ Proceed("mocks")
       \/ request.file = "absent" /\ Fails("FileNotFoundError")
       \/ request.file = "invalid" /\ (Fails("YAMLError") \/ Fails("ValueError"))
    /\ UNCHANGED <<sVars, request, bundle, directory, modules, final, traces, report>>

\* A file of mocks that is not there is an empty one.
LoadMocks ==
    /\ phase = "mocks"
    /\ IF request.mocks = "ok" THEN Proceed("load") ELSE Fails("YAMLError")
    /\ UNCHANGED <<sVars, request, bundle, directory, modules, final, traces, report>>

OpenError == CASE bundle = "torn" -> "BadZipFile"
               [] bundle = "incomplete" -> "BundleCorruptError"
               [] bundle = "otherEngine" -> "BundleVersionError"

\* The first half of load_bundle(): its directory is removed if it fails.
UnpackBundle ==
    /\ phase = "load"
    /\ IF bundle \in {"good", "unbindable"} THEN directory' = "loading" /\ Proceed("bind")
       ELSE directory' = "none" /\ Fails(OpenError)
    /\ UNCHANGED <<sVars, request, bundle, modules, final, traces, report>>

Unbound == Contained \ modules

\* Faulty: load_bundle() leaves its directory to a caller that has no name
\* for it.
BindModule_Leaves ==
    /\ phase = "bind"
    /\ \/ \E c \in Unbound : modules' = modules \cup {c} /\ Proceed("bind")
       \/ bundle = "unbindable" /\ Fails("BundleCorruptError") /\ UNCHANGED modules
    /\ UNCHANGED <<sVars, request, bundle, directory, final, traces, report>>

\* The second half imports one module after the other. A module is entered in
\* sys.modules before it is executed, and stays there if that fails.
BindModule ==
    /\ phase = "bind"
    /\ \/ /\ \E c \in Unbound : modules' = modules \cup {c}
          /\ Proceed("bind")
          /\ UNCHANGED directory
       \/ /\ bundle = "unbindable"
          /\ modules' \in {modules} \cup {modules \cup {c} : c \in Unbound}
          /\ directory' = "none"
          /\ Fails("BundleCorruptError")
    /\ UNCHANGED <<sVars, request, bundle, final, traces, report>>

BoundAll ==
    /\ phase = "bind"
    /\ Unbound = {}
    /\ bundle = "good"
    /\ directory' = "held"
    /\ Proceed("preflight")
    /\ UNCHANGED <<sVars, request, bundle, modules, final, traces, report>>

\* Faulty: "1..*" is not taken for a required end.
Required_One(mult) == mult = "1"

\* The multiplicity starts with "1".
Required(mult) == mult \in {"1", "1..*"}

\* check_multiplicity(): the instances whose alias is on its side of no link
\* though every instance of their class needs one. A link is not looked at
\* from its other side, nor is it asked whether relate() will accept it.
Missing(s) ==
    {x \in (DOMAIN s.instances) \X Rel \X {"a", "b"} :
        LET def == s.instances[x[1]]
            r == x[2]
            ends == {s.relationships[k] : k \in {j \in DOMAIN s.relationships :
                                                    s.relationships[j].rel = r}}
        IN  \/ /\ x[3] = "a"
               /\ Required(MultAB[r])
               /\ def.addr[1] = EndA[r]
               /\ \A l \in ends : l.a # def.name
            \/ /\ x[3] = "b"
               /\ Required(MultBA[r])
               /\ def.addr[1] = EndB[r]
               /\ \A l \in ends : l.b # def.name}

Preflight ==
    /\ phase = "preflight"
    /\ \/ Missing(script) = {} /\ Proceed("run")
       \/ /\ Missing(script) # {}
          /\ phase' = "refuse"
          /\ errors' = errors \cup {"PreflightError"}
    /\ UNCHANGED <<sVars, request, bundle, directory, modules, final, traces, report>>

\* A scenario that is refused gets an empty trace, written inside the try block.
Refuse ==
    /\ phase = "refuse"
    /\ \/ /\ traces' = traces + 1
          /\ report' = [errors |-> errors, final |-> {}, trace |-> TRUE]
          /\ Proceed("cleanup")
       \/ /\ TraceMayFail
          /\ Fails("OSError")
          /\ UNCHANGED <<traces, report>>
    /\ UNCHANGED <<sVars, request, bundle, directory, modules, final>>

RunStep(step) ==
    /\ phase = "run"
    /\ step
    /\ UNCHANGED driverVars

\* _collect_final_states(), or the exception that run_scenario() ends with.
RunEnds ==
    /\ phase = "run"
    /\ \/ /\ stage = "done"
          /\ final' = {<<a, registry[a]>> : a \in {x \in Addr : Live(x)}}
          /\ IF request.op = "direct" THEN Proceed("returned") ELSE Proceed("cleanup")
       \/ /\ stage = "failed"
          /\ IF request.op = "direct" THEN Proceed("raised") ELSE Fails("RuntimeError")
          /\ UNCHANGED final
    /\ UNCHANGED <<sVars, request, bundle, directory, modules, traces, report>>

\* Faulty: a trace is written after the finally block, whatever there is.
Cleanup_Again ==
    /\ phase = "cleanup"
    /\ modules' = {}
    /\ directory' = IF directory = "held" THEN "none" ELSE directory
    /\ phase' = "trace"
    /\ UNCHANGED <<sVars, request, bundle, errors, final, traces, report>>

\* The finally block; a report made inside the try block is returned then.
Cleanup ==
    /\ phase = "cleanup"
    /\ modules' = {}
    /\ directory' = IF directory = "held" THEN "none" ELSE directory
    /\ phase' = IF report = NoReport THEN "trace" ELSE "returned"
    /\ UNCHANGED <<sVars, request, bundle, errors, final, traces, report>>

\* An exception here is the caller's, or simulate_class() reports it.
WriteTrace ==
    /\ phase = "trace"
    /\ \/ /\ phase' = "returned"
          /\ traces' = traces + 1
          /\ report' = [errors |-> errors, final |-> final, trace |-> TRUE]
          /\ UNCHANGED <<sVars, request, bundle, directory, modules, errors, final>>
       \/ /\ TraceMayFail
          /\ request.op = "class"
          /\ ReturnsError("OSError")
       \/ /\ TraceMayFail
          /\ request.op = "domain"
          /\ phase' = "raised"
          /\ UNCHANGED <<sVars, request, bundle, directory, modules, errors, final, traces,
                         report>>

-----------------------------------------------------------------------------
SimInit ==
    /\ SInit
    /\ request \in Requests
    /\ script = request.script
    /\ callable = (request.op = "direct")
    /\ phase = "compiled"
    /\ bundle = request.bundle
    /\ directory = "none"
    /\ modules = {}
    /\ errors = {}
    /\ final = {}
    /\ traces = 0
    /\ report = NoReport

Driver ==
    \/ OpenBundle \/ CloseBundle \/ Call \/ FindBundle
    \/ CheckName \/ LocateBundle \/ LoadScenario \/ LoadMocks
    \/ UnpackBundle \/ BindModule \/ BoundAll
    \/ Preflight \/ Refuse \/ RunEnds \/ Cleanup \/ WriteTrace

SimNext == Driver \/ RunStep(SNext)

SimSpec == SimInit /\ [][SimNext]_simVars

\* One thread, which never waits: neither the driver nor the runner; and
\* methods and actions return.
FairSimSpec == SimSpec /\ WF_simVars(Driver \/ RunStep(Runner))

-----------------------------------------------------------------------------
(* Properties *)

\* The types of the driver's variables and the runner's.
DriverTypeOK ==
    /\ RunnerTypeOK
    /\ request \in Requests
    /\ phase \in {"compiled", "writing", "find", "check", "locate", "scenario", "mocks", "load",
                  "bind", "preflight", "refuse", "run", "cleanup", "trace", "returned", "raised"}
    /\ bundle \in BundleKind
    /\ directory \in {"none", "loading", "held"}
    /\ modules \subseteq Contained
    /\ errors \subseteq ErrorKind
    /\ final \subseteq Addr \X StateOrNone
    /\ traces \in Nat
    /\ report \in [errors : SUBSET ErrorKind, final : SUBSET (Addr \X StateOrNone), trace : BOOLEAN]

\* However a call ends, at whatever step, in a report or an exception: the
\* directory the bundle was unpacked to is gone and no module of it is left
\* in sys.modules, where the next bundle's classes would have the same names.
CleanAfterReturn == Ended => directory = "none" /\ modules = {}

\* A call that returns says what happened: it has no errors exactly if the
\* scenario ran to its end, and only then has it states, those of every
\* instance; and it has written one trace, whose name it gives. Only where
\* simulate_class() finds no bundle, or no trace can be written, is there
\* none.
EveryCallReports ==
    phase = "returned" /\ request.op # "direct" =>
        /\ (report.errors = {}) => /\ stage = "done"
                                     /\ report.final = {<<a, registry[a]>> :
                                                            a \in {x \in Addr : Live(x)}}
        /\ (stage = "done" /\ report.trace) => report.errors = {}
        /\ (report.errors # {}) => report.final = {}
        /\ traces = IF report.trace THEN 1 ELSE 0
        /\ ~report.trace => request.op = "class" /\ report.errors # {}

\* Nothing but a whole bundle is run, though a compilation may have been cut
\* short while it wrote over the old one.
OnlyWholeBundles ==
    phase \in {"preflight", "refuse", "run"} /\ request.op # "direct"
    => bundle = "good" /\ directory = "held" /\ modules = Contained

\* Links that relate() has accepted.
Accepted(def) ==
    /\ Named(def.a) /\ Named(def.b)
    /\ Store!Normalized(def.rel, Address(def.a), Address(def.b)) # {}
    /\ Store!Normalized(def.rel, Address(def.a), Address(def.b)) \subseteq Elements(links[def.rel])

\* D-13: when the first event of a scenario that passed the preflight check is
\* about to be posted, every instance at a required end has its link, if all
\* links were accepted. (That they were nobody asks. Nor does anyone ask later,
\* when methods and actions relate, unrelate, create and delete.)
PreflightMeansLinked ==
    /\ phase = "run"
    /\ request.op # "direct"
    /\ stage = "post" /\ at = 1
    /\ \A k \in DOMAIN script.relationships : Accepted(script.relationships[k])
    => \A i \in DOMAIN script.instances, r \in Rel :
          LET x == script.instances[i].addr
          IN  /\ x[1] = EndA[r] /\ MultAB[r] \in {"1", "1..*"}
                 => \E l \in Elements(links[r]) : l.a = x
              /\ x[1] = EndB[r] /\ MultBA[r] \in {"1", "1..*"}
                 => \E l \in Elements(links[r]) : l.b = x

\* Every call comes to its end, though any step of it may fail, triggers
\* repeat and timers stay: the queues run dry or the cap is exceeded. (The
\* events of the domain's own code are bounded.)
CallReturns == <>Ended
=============================================================================
