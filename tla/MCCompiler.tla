----------------------------- MODULE MCCompiler -----------------------------
(***************************************************************************)
(* Small domain models for ModelCompiler: one class with guarded           *)
(* transitions, one class with a graph of states, and hierarchies of three *)
(* classes. State 4 is a state that no diagram has.                        *)
(***************************************************************************)
EXTENDS ModelCompiler, SequencesExt

CONSTANTS e1, e2

States == 1..3
Classes == 1..3

MCName == 1..4
MCSignal == {e1, e2}
MCValue == {1, 2}

Move(from, event, guard, to) == [from |-> from, event |-> event, guard |-> guard, to |-> to]

Diagrammed(initial, states, ranged, transitions) ==
    [initial |-> initial, states |-> states, declared |-> {e1, e2},
     ranged |-> ranged, transitions |-> transitions]

OneClass(d) ==
    [classes |-> {1}, active |-> {1}, specializes |-> [c \in {1} |-> NoRel],
     partitions |-> [r \in {} |-> NoRel], diagrams |-> [c \in {1} |-> d]]

-----------------------------------------------------------------------------
(* Guards: up to three transitions, most of them siblings *)

EventGuard(V) == [names |-> TRUE, linear |-> TRUE, when |-> V \X MCValue]
SelfGuard(V) == [names |-> FALSE, linear |-> TRUE, when |-> MCValue \X V]

\* A parameter compared with an attribute (COMPILATION.md:614), and one that
\* is multiplied before it is compared.
Meeting == [names |-> TRUE, linear |-> FALSE, when |-> {<<v, v>> : v \in MCValue}]
Product == [EventGuard({1}) EXCEPT !.linear = FALSE]

MCUndecided == {{EventGuard({2})}}

GuardForms ==
    {NoGuard, Malformed, Meeting, Product, SelfGuard({2})}
        \cup {EventGuard(V) : V \in {{1}, {2}, {1, 2}}}

GuardMoves ==
    {Move(1, e1, g, s) : g \in GuardForms, s \in 1..2}
        \cup {Move(2, e1, NoGuard, 1), Move(2, e1, NoGuard, 4), Move(1, NoEvent, NoGuard, Terminal)}

GuardModels(n) ==
    {OneClass(Diagrammed(1, 1..2, ranged, ts)) :
        ranged \in {{e1}, {}}, ts \in [1..n -> GuardMoves]}

-----------------------------------------------------------------------------
(* Graphs: up to three unguarded transitions between three states *)

GraphMoves ==
    {Move(s, e, NoGuard, t) : s \in States, e \in MCSignal, t \in States}
        \cup {Move(s, NoEvent, NoGuard, Terminal) : s \in States}

GraphModels(moves) ==
    {OneClass(Diagrammed(1, States, {}, SetToSeq(ts))) : ts \in {{t, u, v} : t, u, v \in moves}}

\* What the references to states and events are checked for, one or two of
\* them odd.
OddMoves ==
    {Move(1, e2, NoGuard, 2), Move(1, e1, NoGuard, InitialMark), Move(Terminal, e1, NoGuard, 2),
     Move(1, e1, NoGuard, 4), Move(4, e1, NoGuard, 2), Move(1, NoEvent, NoGuard, 2),
     Move(1, e1, NoGuard, Terminal)}

OddModels ==
    {OneClass([Diagrammed(i, 1..2, {}, <<t, u>>) EXCEPT !.declared = {e1}]) :
        i \in {1, 4}, t \in OddMoves, u \in OddMoves}

-----------------------------------------------------------------------------
(* Hierarchies: one or two partitions *)

Partition == {p \in [super : Classes, subs : SUBSET Classes \ {{}}] : p.super \notin p.subs}

Hierarchies == [{1} -> Partition] \cup [{1, 2} -> Partition]

\* A class has no diagram, one without transitions, or one whose states are
\* its own.
OwnDiagram(c) == Diagrammed(c, {c, (c % 3) + 1}, {}, <<Move(c, e1, NoGuard, (c % 3) + 1)>>)

Drawn == UNION {{f \in [cs -> {Diagrammed(1, {1}, {}, <<>>)} \cup {OwnDiagram(c) : c \in cs}] :
                    \A c \in cs : Len(f[c].transitions) = 0 \/ f[c] = OwnDiagram(c)} :
                cs \in SUBSET Classes}

Specialized(ps) ==
    [c \in Classes |->
        LET rs == {r \in DOMAIN ps : c \in ps[r].subs}
        IN  IF rs = {} THEN NoRel ELSE LeastOf(rs)]

\* The active classes are all, or those with a diagram; subtypes name their
\* partition, or one that may not be theirs.
HierarchyModels(hierarchies) ==
    {[classes |-> Classes, active |-> IF all THEN Classes ELSE DOMAIN drawn,
      specializes |-> IF own THEN Specialized(ps) ELSE [c \in Classes |-> 2],
      partitions |-> ps, diagrams |-> drawn] :
        ps \in hierarchies, drawn \in Drawn, all \in BOOLEAN, own \in BOOLEAN}

\* A supertype with a diagram that is wrong, and that nobody validates where
\* the supertype is not active.
UnseenModels ==
    LET ps == [r \in {1} |-> [super |-> 1, subs |-> {2}]]
    IN  {[classes |-> Classes, active |-> active, specializes |-> Specialized(ps),
          partitions |-> ps,
          diagrams |-> [c \in {1} |-> Diagrammed(1, {1, 3}, {}, <<Move(1, e1, NoGuard, 4)>>)]] :
            active \in SUBSET Classes}

MCFamilies ==
    {GuardModels(0), GuardModels(1), GuardModels(2), GuardModels(3), GraphModels(GraphMoves),
     OddModels, HierarchyModels(Hierarchies), UnseenModels}
=============================================================================
