---------------------------- MODULE MCScenario ----------------------------
(***************************************************************************)
(* Small scenarios for TLC, with the domain of MCScheduler: "e" and "f"    *)
(* are instances of "C", "p" and "q" are passive ones that scenarios send  *)
(* from; "v" is one of the abstract class, so there is no instance of that *)
(* name; "x" is defined by none. R1 relates every "C" to one "P", and each *)
(* "P" to some. Calls of the driver, with what may be wrong.               *)
(***************************************************************************)
EXTENDS MCScheduler, SimulationDriver

MCAlias == {"e", "f", "p", "q", "v", "x"}

MCRel == {"R1"}
MCEndA == [r \in MCRel |-> "C"]
MCEndB == [r \in MCRel |-> "P"]
MCMultAB == [r \in MCRel |-> "1"]
MCMultBA == [r \in MCRel |-> "1..*"]

ScenState == MCState \cup {"Idle"}
ScenTable == [x \in MCClass \X (ScenState \cup {Unset}) \X MCSignal |-> MCCell(x[1], x[2], x[3])]

Def(x, a, s) == [name |-> x, addr |-> a, state |-> s]
Ev(sig, from1, to, timing, ms) ==
    [signal |-> sig, sender |-> from1, target |-> to, timing |-> timing, ms |-> ms]
Trig(x, s, rep, sig, from1, to) ==
    [on |-> x, state |-> s, repeat |-> rep, signal |-> sig, sender |-> from1, target |-> to]

Rl(x, y) == [rel |-> "R1", a |-> x, b |-> y]

TwoCars == <<Def("p", P1, Unset), Def("e", C1, Unset), Def("f", C2, "b")>>

\* Two triggers, one of them set off by the other's event, and timed events
\* of which two are one timer to the scheduler.
Chain ==
    [instances |-> TwoCars,
     relationships |-> <<Rl("e", "p"), Rl("f", "p")>>,
     events    |-> <<Ev("go", "p", "e", "now", 0), Ev("stop", "f", "e", "after", 1),
                     Ev("stop", "f", "e", "after", 1)>>,
     triggers  |-> <<Trig("e", "b", FALSE, "stop", "p", "f"),
                     Trig("f", "z", FALSE, "go", "e", "e")>>]

\* A trigger that repeats, and a method called when "e" is in "b".
Repeating ==
    [instances |-> TwoCars,
     relationships |-> <<Rl("p", "f"), Rl("e", "p")>>,
     events    |-> <<Ev("go", "f", "e", "now", 0)>>,
     triggers  |-> <<Trig("f", "b", TRUE, "go", "e", "f"),
                     Trig("e", "b", FALSE, Nobody, "f", "e")>>]

\* A method called at setup, before and after an event; an alias whose
\* instance is replaced at setup.
Called ==
    [instances |-> <<Def("e", C1, "b"), Def("f", C1, Unset), Def("p", P1, Unset)>>,
     relationships |-> <<Rl("e", "p"), Rl("f", "p")>>,
     events    |-> <<Ev(Nobody, "p", "e", "now", 0), Ev("go", "p", "f", "at", 0),
                     Ev("stop", "f", "f", "at", 0)>>,
     triggers  |-> <<Trig("f", "b", FALSE, Nobody, "p", "f"),
                     Trig("e", "b", FALSE, "stop", "e", "e")>>]

P2 == <<"P", k2>>

OneCar == <<Def("p", P1, Unset), Def("e", C1, Unset)>>

Linked(ls) ==
    [instances     |-> OneCar,
     relationships |-> ls,
     events        |-> <<Ev("go", "p", "e", "at", 1)>>,
     triggers      |-> <<Trig("x", "b", FALSE, "go", "p", "e"),
                         Trig("e", "b", FALSE, "go", "p", "e")>>]

Short == Linked(<<Rl("e", "p")>>)

\* Two triggers, the first on a state that the instance has from the start and
\* leaves with its first event.
Brief ==
    [instances     |-> <<Def("p", P1, Unset), Def("e", C1, "b")>>,
     relationships |-> <<>>,
     events        |-> <<Ev("stop", "p", "e", "now", 0)>>,
     triggers      |-> <<Trig("e", "b", FALSE, "go", "p", "e"),
                         Trig("e", "z", FALSE, "go", "p", "e")>>]

\* A link as relate() takes it and preflight does not; one to no instance.
Reversed == Linked(<<Rl("p", "e")>>)
Ghostly == Linked(<<Rl("e", "p"), Rl("e", "x")>>)

\* "q" needs a car. None is linked to it; or relate() refuses the link, as
\* the only car has another.
Orphan == [Short EXCEPT !.instances = Append(@, Def("q", P2, Unset))]

Contested ==
    [instances     |-> OneCar \o <<Def("q", P2, Unset)>>,
     relationships |-> <<Rl("e", "p"), Rl("e", "q")>>,
     events        |-> <<Ev("go", "q", "x", "now", 0)>>,
     triggers      |-> <<>>]

\* An alias without an instance: it sends, is waited for, is named first in a
\* link and is sent to; it calls a method; it is named second in a link; it is
\* given a state.
Nameless ==
    [instances     |-> <<Def("v", V1, Unset)>> \o OneCar,
     relationships |-> <<Rl("v", "p"), Rl("e", "p")>>,
     events        |-> <<Ev("go", "v", "e", "now", 0)>>,
     triggers      |-> <<Trig("v", "b", FALSE, "stop", "p", "e"),
                         Trig("e", "b", FALSE, "go", "p", "v")>>]

Anonymous == [Nameless EXCEPT !.events = <<Ev(Nobody, "v", "e", "now", 0),
                                           Ev("go", "p", "v", "now", 0)>>]

Unrelatable == [Short EXCEPT !.instances = Append(@, Def("v", V1, Unset)),
                             !.relationships = <<Rl("e", "v")>>]

Stateless == [Short EXCEPT !.instances = Append(@, Def("v", V1, "b"))]

MCScripts == {Chain, Repeating, Called, Short, Reversed, Ghostly, Orphan, Contested, Nameless,
              Anonymous, Unrelatable, Stateless, Brief}

Runs(op, b, s) ==
    [op |-> op, safeName |-> TRUE, bundle |-> b, compiles |-> FALSE, file |-> "ok",
     mocks |-> "ok", script |-> s]

MCRequests ==
    {Runs("direct", "absent", s) : s \in {Chain, Repeating, Called, Anonymous, Unrelatable, Brief}}
    \cup {Runs("domain", "good", s) :
              s \in {Short, Called, Reversed, Ghostly, Orphan, Contested, Nameless, Stateless}}
    \cup {Runs(op, b, Short) : op \in {"domain", "class"}, b \in BundleKind}
    \cup {[Runs(op, "absent", Short) EXCEPT !.compiles = TRUE] : op \in {"domain", "class"}}
    \cup {[Runs(op, "good", Short) EXCEPT !.safeName = FALSE] : op \in {"domain", "class"}}
    \cup {[Runs("domain", "good", Short) EXCEPT !.file = f] : f \in {"absent", "invalid"}}
    \cup {[Runs("domain", "good", Short) EXCEPT !.mocks = "invalid"]}

\* The model of ScenarioTimers needs no driver.
Direct == {Runs("direct", "absent", s) : s \in {Chain, Repeating, Called}}

ScenTie == {<<"R1", C1, P1>>}

ScenRoute == {<<"go", P1, C1>>, <<"stop", C2, C1>>, <<"stop", C1, C1>>}
=============================================================================
