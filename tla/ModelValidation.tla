-------------------------- MODULE ModelValidation --------------------------
(***************************************************************************)
(* What the tools say of a domain model before it is compiled: the schema  *)
(* of its files (src/schema/yaml_schema.py) and validate_domain()          *)
(* (src/tools/validation.py). A model is a value:                          *)
(*   classes, active     the classes, and those with stereotype "active"   *)
(*   specializes         class -> R-number, or NoRel                       *)
(*   partitions          R-number -> [super, subs]                         *)
(*   diagrams            class -> state diagram, of the classes with one   *)
(* Names of classes and states, and R-numbers, are numbers in the order in *)
(* which the tools sort them; the marks __terminal__ and __initial__ come  *)
(* first; an R-number is given once. Types, identifiers, methods, bridges  *)
(* and associations are left out.                                          *)
(***************************************************************************)
EXTENDS Naturals, Sequences, FiniteSets, Selection

CONSTANTS
    Name,           \* names of states
    Signal,         \* names of events
    Value,          \* values of what a guard compares
    Terminal,       \* "__terminal__"
    InitialMark,    \* "__initial__"
    NoEvent,        \* no `event`
    NoGuard,        \* no `guard`
    Malformed,      \* a guard that cannot be parsed
    Undecided,      \* sets of guards for which the solver answers "unknown"
    NoRel           \* no `specializes`

ASSUME NamesAreOrdered == Name \subseteq Nat /\ Name # {} /\ IsFiniteSet(Name)

\* A guard reads a parameter of the received event, an attribute of the
\* instance that has the same name, or both: it holds for the values <<v, w>>
\* in `when`. Of that the validator sees whether the parameter is the left side
\* of a comparison in it (`names`), and whether all its comparisons are with
\* constants, so that it can be handed to the solver (`linear`).
Guard == [names : BOOLEAN, linear : BOOLEAN, when : SUBSET (Value \X Value)]

ASSUME UndecidedAreGuards == Undecided \subseteq SUBSET Guard

ASSUME MarksAreNoNames ==
    /\ Terminal \notin Nat /\ InitialMark \notin Nat /\ Terminal # InitialMark
    /\ NoEvent \notin Signal
    /\ NoGuard \notin Guard /\ Malformed \notin Guard /\ NoGuard # Malformed

Transition == [from : Name \cup {Terminal}, to : Name \cup {Terminal, InitialMark},
               event : Signal \cup {NoEvent}, guard : Guard \cup {NoGuard, Malformed}]

\* `declared` are the diagram's events; `ranged` those whose parameter has an
\* enum, Integer or Real type, so that guards on it can be analysed; that of
\* the others is a String.
Diagram == [initial : Name, states : SUBSET Name, declared : SUBSET Signal,
            ranged : SUBSET Signal, transitions : Seq(Transition)]

Transitions(d) == {d.transitions[i] : i \in DOMAIN d.transitions}

Cells(d) == {<<t.from, t.event>> : t \in Transitions(d)}

\* The transitions of a (state, event) pair, in the order of the file.
Siblings(d, cell) ==
    Filtered(d.transitions, {t \in Transitions(d) : t.from = cell[1] /\ t.event = cell[2]})

Guards(ts) == {ts[i].guard : i \in DOMAIN ts}

-----------------------------------------------------------------------------
(* The schema *)

\* check_event_for_target and check_guard_consistency.
SchemaOK(d) ==
    /\ \A t \in Transitions(d) : t.to = Terminal <=> t.event = NoEvent
    /\ \A cell \in Cells(d) : NoGuard \in Guards(Siblings(d, cell))
                              => Guards(Siblings(d, cell)) = {NoGuard}

\* Python compares the event names of transitions with the same source when
\* it sorts them, and cannot compare None with a name.
Unsortable(d) ==
    \E t, u \in Transitions(d) : t.from = u.from /\ t.event = NoEvent /\ u.event # NoEvent

-----------------------------------------------------------------------------
(* validate_domain() *)

Error(kind, about) == <<"error", kind, about>>
Warning(kind, about) == <<"warning", kind, about>>

\* Faulty: any target will do.
UnknownTargets_None(d) == {}

UnknownTargets(d) == {t \in Transitions(d) : t.to \notin d.states \cup {Terminal}}

ReferenceIssues(c, d) ==
         {Error("initial", <<c, s>>) : s \in {d.initial} \ d.states}
    \cup {Error("target", <<c, t.to>>) : t \in UnknownTargets(d)}
    \cup {Error("source", <<c, t.from>>) : t \in {t \in Transitions(d) : t.from = Terminal}}
    \cup {Error("initial target", <<c, t.from>>) :
             t \in {t \in Transitions(d) : t.to = InitialMark}}
    \cup {Error("event", <<c, t.event>>) :
             t \in {t \in Transitions(d) : t.event \notin d.declared \cup {NoEvent}}}

\* Faulty: every guard can hold, but maybe not all values are covered.
Covered_EachHolds(guards) == \A g \in guards : g.when # {}

\* The solver finds no value for which no guard holds. It knows a variable
\* by its name only: self.x is taken for the parameter x.
Covered(guards) == \A v \in Value : \E g \in guards : <<v, v>> \in g.when

\* Guards whose comparisons have no parameter on their left are passed without
\* a word; where one of the others is too complex, or the solver gives up, there
\* is a warning, and nobody knows whether the guards cover all values.
GuardIssues(c, d, cell) ==
    LET ts == Siblings(d, cell)
        guards == Guards(ts) \ {NoGuard}
        about == <<c, cell>>
    IN  IF Cardinality({i \in DOMAIN ts : ts[i].guard = NoGuard}) > 1
            THEN {Error("ambiguous", about)}
        ELSE IF guards = {} THEN {}
        ELSE IF Malformed \in guards THEN {Warning("unparsed", about)}
        ELSE IF \A g \in guards : ~g.names THEN {}
        ELSE IF cell[2] \notin d.ranged THEN {Error("untyped", about)}
        ELSE IF \E g \in guards : ~g.linear THEN {Warning("complex", about)}
        ELSE IF guards \in Undecided THEN {Warning("undecided", about)}
        ELSE IF ~Covered(guards) THEN {Error("incomplete", about)}
        ELSE {}

\* Faulty: one transition for each source and event, the last one.
Edges_LastSibling(d) ==
    {<<t.from, t.to>> : t \in {Siblings(d, cell)[Len(Siblings(d, cell))] : cell \in Cells(d)}}
        \cap (d.states \X (d.states \cup {Terminal}))

Edges(d) == {<<t.from, t.to>> : t \in Transitions(d)}
                \cap (d.states \X (d.states \cup {Terminal}))

\* networkx.descendants() and the initial state: what every set has that has
\* the initial state and the target of each edge whose source it has.
Reachable(d) ==
    LET nodes == d.states \cup {Terminal}
        Closed(S) == \A e \in Edges(d) : e[1] \in S => e[2] \in S
    IN  {s \in nodes : \A S \in SUBSET nodes : d.initial \in S /\ Closed(S) => s \in S}

Unreachable(d) == d.states \ Reachable(d)

Traps(d) == {s \in d.states : \A e \in Edges(d) : e[1] # s}

ReachabilityIssues(c, d) ==
    IF d.initial \notin d.states THEN {}
    ELSE      {Error("unreachable", <<c, s>>) : s \in Unreachable(d)}
         \cup {Warning("trap", <<c, s>>) : s \in Traps(d)}

DiagramIssues(c, d) ==
    IF ~SchemaOK(d) THEN {Error("schema", <<c>>)}
    ELSE      ReferenceIssues(c, d)
         \cup (UNION {GuardIssues(c, d, cell) : cell \in Cells(d)})
         \cup ReachabilityIssues(c, d)

\* A subtype may do without a diagram of its own.
MissingDiagrams(m) ==
    {c \in m.active : c \notin DOMAIN m.diagrams /\ m.specializes[c] = NoRel}

ClassIssues(m) ==
    LET subtypes == {c \in m.classes : m.specializes[c] # NoRel}
    IN       {Error("specializes", <<c>>) :
                 c \in {c \in subtypes : m.specializes[c] \notin DOMAIN m.partitions}}
        \cup {Error("unlisted", <<c>>) :
                 c \in {c \in subtypes :
                           m.specializes[c] \in DOMAIN m.partitions
                           => c \notin m.partitions[m.specializes[c]].subs}}

\* The diagrams of active classes. An exception anywhere leaves one issue,
\* and none of those found before it.
DomainIssues(m) ==
    LET checked == m.active \cap DOMAIN m.diagrams
    IN  IF \E c \in checked : SchemaOK(m.diagrams[c]) /\ Unsortable(m.diagrams[c])
        THEN {Error("unexpected", <<>>)}
        ELSE      ClassIssues(m)
             \cup {Error("missing", <<c>>) : c \in MissingDiagrams(m)}
             \cup (UNION {DiagramIssues(c, m.diagrams[c]) : c \in checked})
=============================================================================
