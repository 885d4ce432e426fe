--------------------------- MODULE ModelCompiler ---------------------------
(***************************************************************************)
(* From a domain model to a table the engine runs. compile_model()         *)
(* (src/compiler/) loads the model, orders the classes parents first,      *)
(* builds a manifest for each, and writes a Python module for each; the    *)
(* bundle then carries both to load_bundle() (src/engine/bundle_loader.py),*)
(* which puts them together again. Validation is a tool of its own, which  *)
(* an author may run before, or not. In the end one instance receives      *)
(* events, to show what the table does. The names of generated functions   *)
(* are taken to be distinct: guard_A_B_C is that of event C in state A_B   *)
(* and of event B_C in state A, and the later definition serves both.      *)
(*                                                                         *)
(* stage is "written", then "loaded" (load_model), "built" (all manifests),*)
(* "generated" (all modules), "ready" (load_bundle), "running", "deleted", *)
(* or "failed" (CompilationFailed) or "crashed" (any other exception).     *)
(***************************************************************************)
EXTENDS ModelValidation

CONSTANTS
    Families,   \* sets of models that authors write
    NoClass,    \* no supertype
    NoState,    \* None in place of a state
    NoneText    \* the text "None"

ASSUME NoEventIsCalledNone == NoneText \notin Signal \cup {NoEvent}

ASSUME NoStateIsNoTarget == NoState \notin Nat \cup {Terminal, InitialMark}

\* Of what the schema of the class diagram says: a partition is written with
\* its supertype, which therefore is a class; its subtypes are any names. A
\* domain without classes, which makes an empty bundle, is left out.
WellFormed(m) ==
    /\ m.classes \subseteq Nat /\ m.classes # {} /\ IsFiniteSet(m.classes)
    /\ NoClass \notin m.classes
    /\ m.active \subseteq m.classes
    /\ DOMAIN m.diagrams \subseteq m.classes
    /\ \A c \in DOMAIN m.diagrams : m.diagrams[c] \in Diagram
    /\ DOMAIN m.partitions \subseteq Nat /\ IsFiniteSet(DOMAIN m.partitions)
    /\ \A r \in DOMAIN m.partitions : m.partitions[r].super \in m.classes

ASSUME ModelsAreWellFormed == \A family \in Families : \A m \in family : WellFormed(m)

VARIABLES
    model,      \* the model
    stage,      \* see above
    checked,    \* it was validated
    issues,     \* what validate_domain() returned
    ordered,    \* classes, parents first
    defs,       \* class -> ClassManifest
    code,       \* class -> TRANSITION_TABLE of its module
    tables,     \* class -> transition table in the engine
    object,     \* class of the instance
    current,    \* its state
    ran         \* the entry action that ran last: its state, or NoState

vars == <<model, stage, checked, issues, ordered, defs, code, tables, object, current, ran>>

Elements(s) == {s[i] : i \in DOMAIN s}

GreatestOf(S) == CHOOSE x \in S : \A y \in S : y <= x
LeastOf(S) == CHOOSE x \in S : \A y \in S : x <= y

With(f, x, y) == [z \in DOMAIN f \cup {x} |-> IF z = x THEN y ELSE f[z]]

Empty == [x \in {} |-> NoState]

-----------------------------------------------------------------------------
(* Validation and loading *)

Validate ==
    /\ stage = "written"
    /\ ~checked
    /\ checked' = TRUE
    /\ issues' = DomainIssues(model)
    /\ UNCHANGED <<model, stage, ordered, defs, code, tables, object, current, ran>>

\* load_model(): the schema of every diagram; no validation.
LoadModel ==
    /\ stage = "written"
    /\ stage' = IF \A c \in DOMAIN model.diagrams : SchemaOK(model.diagrams[c])
                THEN "loaded" ELSE "failed"
    /\ UNCHANGED <<model, checked, issues, ordered, defs, code, tables, object, current, ran>>

-----------------------------------------------------------------------------
(* build_domain_manifest() *)

\* parent_of and children_of: a later partition overwrites an earlier one.
Parent(c) ==
    LET rs == {r \in DOMAIN model.partitions : c \in model.partitions[r].subs}
    IN  IF rs = {} THEN NoClass ELSE model.partitions[GreatestOf(rs)].super

Children(c) ==
    LET rs == {r \in DOMAIN model.partitions : model.partitions[r].super = c}
    IN  IF rs = {} THEN {} ELSE model.partitions[GreatestOf(rs)].subs

\* Faulty: the class alone.
Visit_Alone(c) == <<c>>

\* _visit(): the class after its ancestors, up to one that was visited.
Visit(c) ==
    LET up[n \in 0 .. Cardinality(model.classes)] ==
          IF n = 0 THEN <<c>>
          ELSE LET p == Parent(Head(up[n - 1]))
               IN  IF p = NoClass \/ p \in Elements(ordered) \cup Elements(up[n - 1])
                   THEN up[n - 1] ELSE <<p>> \o up[n - 1]
    IN  up[Cardinality(model.classes)]

OrderNext ==
    /\ stage = "loaded"
    /\ model.classes # Elements(ordered)
    /\ ordered' = ordered \o Visit(LeastOf(model.classes \ Elements(ordered)))
    /\ UNCHANGED <<model, stage, checked, issues, defs, code, tables, object, current, ran>>

\* The list of a cell: the transitions were sorted by target, and keep the
\* order of the file where targets are equal.
Entries(d, cell) ==
    LET to(s) == Filtered(Siblings(d, cell), {t \in Transitions(d) : t.to = s})
        upTo[n \in 0 .. GreatestOf(Name) + 1] ==
            IF n = 0 THEN to(Terminal) \o to(InitialMark) ELSE upTo[n - 1] \o to(n - 1)
        ts == upTo[GreatestOf(Name) + 1]
    IN  [i \in DOMAIN ts |-> [next |-> ts[i].to, guard |-> ts[i].guard]]

\* Faulty: only unguarded transitions count as a way out.
FinalStates_Unguarded(d) ==
    d.states \ {t.from : t \in {t \in Transitions(d) : t.guard = NoGuard}}

\* "States with no outgoing transitions (true xUML final states)".
FinalStates(d) == d.states \ {t.from : t \in Transitions(d)}

Entity == [table |-> Empty, initial |-> NoState, final |-> {}, acting |-> {}]

\* Case A and C: its own machine; case B: the supertype's, if that has a
\* table; otherwise none. `acting` are the states with an entry action.
Machine(c) ==
    IF c \in DOMAIN model.diagrams
    THEN LET d == model.diagrams[c]
         IN  [table |-> [cell \in Cells(d) |-> Entries(d, cell)], initial |-> d.initial,
              final |-> FinalStates(d), acting |-> d.states]
    ELSE IF Parent(c) \in DOMAIN defs /\ DOMAIN defs[Parent(c)].table # {}
         THEN LET super == defs[Parent(c)]
              IN  [table |-> super.table, initial |-> super.initial, final |-> super.final,
                   acting |-> super.acting]
         ELSE Entity

Manifest(c) ==
    LET machine == Machine(c)
    IN  [table |-> machine.table, initial |-> machine.initial, final |-> machine.final,
         acting |-> machine.acting, supertype |-> Parent(c), subtypes |-> Children(c)]

\* The keys of the table are sorted too, and that may raise a TypeError.
BuildNext ==
    /\ stage = "loaded"
    /\ model.classes = Elements(ordered)
    /\ LET c == ordered[Cardinality(DOMAIN defs) + 1]
       IN  IF c \in DOMAIN model.diagrams /\ Unsortable(model.diagrams[c])
           THEN stage' = "crashed" /\ UNCHANGED defs
           ELSE /\ defs' = With(defs, c, Manifest(c))
                /\ stage' = IF DOMAIN defs' = model.classes THEN "built" ELSE "loaded"
    /\ UNCHANGED <<model, checked, issues, ordered, code, tables, object, current, ran>>

-----------------------------------------------------------------------------
(* generate_class_module() *)

\* Faulty: the target need not be a state.
CellAction_Any(entries, acting) == entries[Len(entries)].next

\* action_fn_map has one function for a cell: each entry overwrites what the
\* one before it wrote.
CellAction(entries, acting) ==
    LET is == {i \in DOMAIN entries : entries[i].next \in acting}
    IN  IF is = {} THEN NoState ELSE entries[GreatestOf(is)].next

\* Faulty: one function for a cell here as well.
GuardOf_First(entries, i) == entries[1].guard

\* guard_fn_map has one for each entry.
GuardOf(entries, i) == entries[i].guard

\* A guard that cannot be transformed becomes `return True`.
Compiled(guard) ==
    IF guard = Malformed THEN [names |-> TRUE, linear |-> TRUE, when |-> Value \X Value]
    ELSE guard

Generated(manifest) ==
    [cell \in DOMAIN manifest.table |->
        LET entries == manifest.table[cell]
        IN  [i \in DOMAIN entries |->
                [next |-> entries[i].next, guard |-> Compiled(GuardOf(entries, i)),
                 action |-> CellAction(entries, manifest.acting)]]]

GenerateNext ==
    /\ stage = "built"
    /\ LET c == LeastOf(model.classes \ DOMAIN code)
       IN  code' = With(code, c, Generated(defs[c]))
    /\ stage' = IF DOMAIN code' = model.classes THEN "generated" ELSE "built"
    /\ UNCHANGED <<model, checked, issues, ordered, defs, tables, object, current, ran>>

-----------------------------------------------------------------------------
(* write_bundle() and load_bundle() *)

\* A key of the manifest is written as "state::event" and read again: None
\* comes back as the text.
Reread(cell) == IF cell[2] = NoEvent THEN <<cell[1], NoneText>> ELSE cell

\* Functions are found again in the module, by the key and the position in
\* the list; where the key is not found there is none.
Rebound(c) ==
    [key \in {Reread(cell) : cell \in DOMAIN defs[c].table} |->
        IF key \in DOMAIN code[c] THEN code[c][key]
        ELSE LET entries == defs[c].table[<<key[1], NoEvent>>]
             IN  [i \in DOMAIN entries |->
                    [next |-> entries[i].next, guard |-> entries[i].guard, action |-> NoState]]]

LoadBundle ==
    /\ stage = "generated"
    /\ tables' = [c \in model.classes |-> Rebound(c)]
    /\ stage' = "ready"
    /\ UNCHANGED <<model, checked, issues, ordered, defs, code, object, current, ran>>

-----------------------------------------------------------------------------
(* One instance. Scheduler models the engine; this is what it does with a  *)
(* table when nothing else happens.                                        *)

CreateObject ==
    /\ stage = "ready"
    /\ \E c \in {c \in model.classes : defs[c].initial # NoState} :
          object' = c /\ current' = defs[c].initial
    /\ stage' = "running"
    /\ UNCHANGED <<model, checked, issues, ordered, defs, code, tables, ran>>

\* The guard holds for the value v of the parameter and w of the attribute.
Holds(guard, v, w) == <<v, w>> \in guard.when

\* The first guarded entry whose guard holds, or else the first unguarded one.
Choice(entries, v, w) ==
    LET guarded == {i \in DOMAIN entries :
                       entries[i].guard # NoGuard /\ Holds(entries[i].guard, v, w)}
        free == {i \in DOMAIN entries : entries[i].guard = NoGuard}
    IN  IF guarded # {} THEN {LeastOf(guarded)}
        ELSE IF free # {} THEN {LeastOf(free)} ELSE {}

Receive ==
    /\ stage = "running"
    /\ \E e \in Signal, v, w \in Value :
          /\ <<current, e>> \in DOMAIN tables[object]
          /\ LET entries == tables[object][<<current, e>>]
             IN  \E i \in Choice(entries, v, w) :
                    /\ current' = entries[i].next
                    /\ ran' = entries[i].action
                    /\ stage' = IF entries[i].next \in defs[object].final THEN "deleted"
                                ELSE "running"
    /\ UNCHANGED <<model, checked, issues, ordered, defs, code, tables, object>>

-----------------------------------------------------------------------------
CInit ==
    /\ \E family \in Families : model \in family
    /\ stage = "written"
    /\ checked = FALSE
    /\ issues = {}
    /\ ordered = <<>>
    /\ defs = Empty
    /\ code = Empty
    /\ tables = Empty
    /\ object = NoClass
    /\ current = NoState
    /\ ran = NoState

CNext ==
    \/ Validate \/ LoadModel \/ OrderNext \/ BuildNext \/ GenerateNext \/ LoadBundle
    \/ CreateObject \/ Receive

CSpec == CInit /\ [][CNext]_vars

-----------------------------------------------------------------------------
(* Properties *)

InEngine == stage \in {"ready", "running", "deleted"}

Accepted == checked /\ \A issue \in issues : issue[1] = "warning"

Target == Name \cup {Terminal, InitialMark}

\* The types of what the stages hand on; and, of the tables that accepted
\* diagrams became, what the engine relies on (see module Manifest): events
\* lead to states of the class, and final states have no cells. What an active
\* class has from the diagram of an entity nobody validated
\* (validation.py:1069).
CompilerTypeOK ==
    /\ ordered \in Seq(model.classes)
    /\ DOMAIN defs \subseteq model.classes
    /\ \A c \in DOMAIN code : \A cell \in DOMAIN code[c] : \A i \in DOMAIN code[c][cell] :
          code[c][cell][i] \in [next : Target, guard : Guard \cup {NoGuard},
                                action : Name \cup {NoState}]
    /\ current \in Target \cup {NoState}
    /\ ran \in Name \cup {NoState}
    /\ InEngine /\ Accepted =>
          \A c \in model.active \cap DOMAIN model.diagrams : \A cell \in DOMAIN tables[c] :
              /\ cell[1] \notin defs[c].final
              /\ cell[2] # NoneText =>
                    \A i \in DOMAIN tables[c][cell] : tables[c][cell][i].next \in defs[c].acting

\* Through the sort by target, the functions numbered within a cell, the keys
\* written as text and the rebinding by position, a guard stays with its
\* transition: a cell of the engine has the pairs of guard and target that the
\* diagram has, as often as it has them (codegen.py, bundle_loader.py).
GuardsKeepTheirTargets ==
    InEngine =>
        \A c \in DOMAIN model.diagrams : \A cell \in Cells(model.diagrams[c]) :
            cell[2] # NoEvent =>
                LET ts == Siblings(model.diagrams[c], cell)
                    es == tables[c][cell]
                    InFile(g, s) == {i \in DOMAIN ts : Compiled(ts[i].guard) = g /\ ts[i].to = s}
                    InTable(g, s) == {i \in DOMAIN es : es[i].guard = g /\ es[i].next = s}
                IN  /\ Len(es) = Len(ts)
                    /\ \A i \in DOMAIN es :
                          LET g == es[i].guard
                              s == es[i].next
                          IN  Cardinality(InFile(g, s)) = Cardinality(InTable(g, s))

\* A guard that does not read the instance.
ReadsEventOnly(guard) == \A v, w \in Value : Holds(guard, v, w) <=> Holds(guard, v, v)

\* The validator looked at the guards of the cell: one of them names the
\* parameter, and it did not warn that it cannot tell.
Analysed(c, cell, guards) ==
    /\ \E g \in guards : g.names
    /\ issues \cap {Warning("complex", <<c, cell>>), Warning("undecided", <<c, cell>>)} = {}

\* Where validation has looked at the guards of a cell and accepted them, and
\* none of them reads the instance, the engine can always decide: for every
\* value some entry is chosen, so that no event is dropped because all guards
\* are false. A guard that cannot be parsed is no exception: it always holds.
AcceptedCellsDecide ==
    InEngine /\ Accepted =>
        \A c \in model.active \cap DOMAIN model.diagrams :
        \A cell \in {cell \in DOMAIN tables[c] : cell[2] # NoneText} :
            LET entries == tables[c][cell]
                guards == {entries[i].guard : i \in DOMAIN entries} \ {NoGuard}
            IN  Analysed(c, cell, guards) /\ (\A g \in guards : ReadsEventOnly(g))
                    => \A v, w \in Value : Choice(entries, v, w) # {}

\* No instance enters a state that validation called unreachable, whatever
\* the events, guards and values, unless validation also found a target that
\* is no state: it then leaves the edge to it out of the graph, and so what
\* the engine reaches by way of it (validation.py:505, 520).
UnreachableIsNotEntered ==
    stage \in {"running", "deleted"} /\ (\A s \in Target : Error("target", <<object, s>>) \notin issues)
        => Error("unreachable", <<object, current>>) \notin issues

\* The compiler and the validator agree on where an instance's life ends: the
\* states that it warns of as traps are the final ones, in which the engine
\* deletes the instance (validation.py:533, manifest_builder.py:184).
TrapsAreFinal ==
    InEngine /\ Accepted =>
        \A c \in model.active \cap DOMAIN model.diagrams :
            defs[c].final = {s \in Name : Warning("trap", <<c, s>>) \in issues}

\* The class that a class has its machine from: the nearest ancestor with a
\* diagram, itself first.
Ancestors(c) ==
    LET up[n \in 0 .. Cardinality(model.classes)] ==
          IF n = 0 THEN <<c>>
          ELSE LET p == Parent(up[n - 1][Len(up[n - 1])])
               IN  IF p = NoClass THEN up[n - 1] ELSE Append(up[n - 1], p)
    IN  up[Cardinality(model.classes)]

\* No class is its own ancestor: supertypes are less deep than their subtypes.
Acyclic ==
    \E depth \in [model.classes -> 0 .. Cardinality(model.classes) - 1] :
        \A c \in model.classes : Parent(c) # NoClass => depth[Parent(c)] < depth[c]

\* A class without a diagram behaves like its nearest ancestor with one, in
\* whatever order the classes are named (manifest_builder.py:273). Ancestors
\* without any transition are no such ancestor. Where classes are supertypes
\* of each other, one of them is built before its own supertype.
MachinesAreInherited ==
    stage \in {"built", "generated", "ready", "running", "deleted"} /\ Acyclic =>
        \A c \in model.classes :
            LET up == Ancestors(c)
                own == {i \in DOMAIN up : up[i] \in DOMAIN model.diagrams}
            IN  own # {} /\ Cells(model.diagrams[up[LeastOf(own)]]) # {} =>
                    /\ defs[c].table = defs[up[LeastOf(own)]].table
                    /\ defs[c].initial = model.diagrams[up[LeastOf(own)]].initial
                    /\ defs[c].final = defs[up[LeastOf(own)]].final

-----------------------------------------------------------------------------
(* What the sources say and the code does not do *)

\* codegen.py: "the entry action of the next_state fires on the transition".
\* Of models with no worse issue than states without a way out.
EntryActionOfNextState ==
    checked /\ (\A issue \in issues : issue[2] = "trap") /\ ran # NoState => ran = current

\* SYNTAX.md, of a state with a transition to __terminal__: "After the
\* destructor state's entry action completes, the runtime immediately deletes
\* the object instance."
DestructorsDelete ==
    Accepted /\ ran = current /\ stage = "running" /\ object \in DOMAIN model.diagrams =>
        ~\E t \in Transitions(model.diagrams[object]) : t.from = current /\ t.to = Terminal
=============================================================================
