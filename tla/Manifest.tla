----------------------------- MODULE Manifest -----------------------------
(***************************************************************************)
(* What the engine knows of a compiled domain: the DomainManifest that the *)
(* compiler writes and SimulationContext receives (src/engine/manifest.py),*)
(* reduced to the fields the scheduler and the registry read.              *)
(***************************************************************************)
EXTENDS Naturals, Sequences

CONSTANTS
    Class,      \* class names: the keys of class_defs
    ClassOrder, \* all of them, in the order of class_defs
    Key,        \* instance identifiers (frozensets of attribute/value pairs)
    State,      \* state names of all the classes
    Signal,     \* names of the domain's own events
    Abstract,   \* classes whose manifest says is_abstract
    Subtypes,   \* generalizations: class -> ordered subtypes (<<>> if none)
    Initial,    \* initial_state of a class, or Unset
    Final,      \* final_states of a class
    Table,      \* transition_table: <<class, state, signal>> -> entries
    HasBirthAction, \* classes with an entry action at (None, "__creation__")
    Unset,      \* Python's None in a field that holds a state name
    Absent,     \* "no such instance" in the registry
    NoAddr      \* "no instance" in a local variable

ASSUME StateAssumption == /\ Unset \notin State
                          /\ Absent \notin State
                          /\ Absent # Unset

ASSUME ClassAssumption ==
    /\ ClassOrder \in Seq(Class)
    /\ \A c \in Class : \E i \in DOMAIN ClassOrder : ClassOrder[i] = c
    /\ Abstract \subseteq Class
    /\ HasBirthAction \subseteq Class
    /\ Subtypes \in [Class -> Seq(Class)]
    /\ Initial \in [Class -> State \cup {Unset}]
    /\ Final \in [Class -> SUBSET State]

\* The two event types the engine itself gives a meaning to.
Lifecycle == {"__creation__", "__deletion__"}

ASSUME SignalAssumption == Signal \cap Lifecycle = {}

EventType == Signal \cup Lifecycle

\* An instance is named by its class and its identifier (event.py).
Addr == Class \X Key

ASSUME AddrAssumption == NoAddr \notin Addr

StateOrNone == State \cup {Unset}

(***************************************************************************)
(* A transition entry. Which function guards it or is its action does not  *)
(* matter to the engine, only whether there is one; next is Unset for an   *)
(* entry that leaves the state alone.                                      *)
(***************************************************************************)
Entry == [guarded : BOOLEAN, next : StateOrNone, acts : BOOLEAN]

\* The cell of an event that cannot happen is absent from the Python dict
\* and is the empty sequence here: the compiler never writes an empty list.
CantHappen == <<>>

ASSUME TableAssumption == Table \in [Class \X StateOrNone \X Signal -> Seq(Entry)]

\* manifest_builder.py makes final exactly the states no transition leaves.
ASSUME FinalAssumption ==
    \A c \in Class : \A s \in Final[c], e \in Signal : Table[<<c, s, e>>] = CantHappen

\* The entry of an event that the state ignores: next_state, action_fn and
\* guard_fn are all None, and it is the only entry of its cell.
Ignored(entries) ==
    /\ Len(entries) = 1
    /\ entries[1] = [guarded |-> FALSE, next |-> Unset, acts |-> FALSE]
=============================================================================
