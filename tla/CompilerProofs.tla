--------------------------- MODULE CompilerProofs ---------------------------
(***************************************************************************)
(* Proofs about ModelCompiler, for every model and every instance of it.   *)
(*                                                                         *)
(* The compiler hands values on from stage to stage, and the properties    *)
(* compare the first with the last. PipelineInv says of each stage what    *)
(* the one before it made of the model; the theorems then are about the    *)
(* operators that make it: what validation reports, the sort of a cell,    *)
(* the keys of a module. Two parts need an invariant of their own: what    *)
(* the instance reaches (ReachInv), and the order in which classes are     *)
(* built (ClassesInv).                                                     *)
(***************************************************************************)
EXTENDS ModelCompiler, SelectionProofs

-----------------------------------------------------------------------------
(* What the issues say *)

\* A diagram that Unsortable() holds of stops the validation of the domain.
Stops(m) ==
    \E c \in m.active \cap DOMAIN m.diagrams :
        SchemaOK(m.diagrams[c]) /\ Unsortable(m.diagrams[c])

LEMMA TrapIssue ==
    ASSUME NEW c, NEW d, SchemaOK(d), NEW b, NEW s
    PROVE  Warning("trap", <<b, s>>) \in DiagramIssues(c, d)
              <=> b = c /\ d.initial \in d.states /\ s \in Traps(d)
<1> DEFINE x == Warning("trap", <<b, s>>)
<1>1. x \notin ReferenceIssues(c, d)
    BY DEF ReferenceIssues, Warning, Error
<1>2. ASSUME NEW cell PROVE x \notin GuardIssues(c, d, cell)
    <2>1. \A k, y \in {"ambiguous", "unparsed", "untyped", "complex", "undecided", "incomplete"} :
             x # Error(k, <<c, cell>>) /\ x # Warning(k, <<c, cell>>)
        BY DEF Warning, Error
    <2> HIDE DEF x
    <2> QED BY <2>1 DEF GuardIssues
<1>3. x \in ReachabilityIssues(c, d) <=> b = c /\ d.initial \in d.states /\ s \in Traps(d)
    BY DEF ReachabilityIssues, Warning, Error
<1> HIDE DEF x
<1>4. x \notin UNION {GuardIssues(c, d, cell) : cell \in Cells(d)}
    BY <1>2
<1>5. x \in DiagramIssues(c, d) <=> x \in ReachabilityIssues(c, d)
    <2> DEFINE U == UNION {GuardIssues(c, d, cell) : cell \in Cells(d)}
    <2>1. DiagramIssues(c, d) = ReferenceIssues(c, d) \cup U \cup ReachabilityIssues(c, d)
        BY DEF DiagramIssues
    <2> HIDE DEF U
    <2>2. x \notin U
        BY <1>4 DEF U
    <2> QED BY <1>1, <2>1, <2>2
<1> QED BY <1>3, <1>5 DEF x

LEMMA UnreachableIssue ==
    ASSUME NEW c, NEW d, SchemaOK(d), NEW b, NEW s
    PROVE  Error("unreachable", <<b, s>>) \in DiagramIssues(c, d)
              <=> b = c /\ d.initial \in d.states /\ s \in Unreachable(d)
<1> DEFINE x == Error("unreachable", <<b, s>>)
<1>1. x \notin ReferenceIssues(c, d)
    BY DEF ReferenceIssues, Warning, Error
<1>2. ASSUME NEW cell PROVE x \notin GuardIssues(c, d, cell)
    <2>1. \A k \in {"ambiguous", "unparsed", "untyped", "complex", "undecided", "incomplete"} :
             x # Error(k, <<c, cell>>) /\ x # Warning(k, <<c, cell>>)
        BY DEF Warning, Error
    <2> HIDE DEF x
    <2> QED BY <2>1 DEF GuardIssues
<1>3. x \in ReachabilityIssues(c, d) <=> b = c /\ d.initial \in d.states /\ s \in Unreachable(d)
    BY DEF ReachabilityIssues, Warning, Error
<1> HIDE DEF x
<1>4. x \notin UNION {GuardIssues(c, d, cell) : cell \in Cells(d)}
    BY <1>2
<1>5. x \in DiagramIssues(c, d) <=> x \in ReachabilityIssues(c, d)
    <2> DEFINE U == UNION {GuardIssues(c, d, cell) : cell \in Cells(d)}
    <2>1. DiagramIssues(c, d) = ReferenceIssues(c, d) \cup U \cup ReachabilityIssues(c, d)
        BY DEF DiagramIssues
    <2> HIDE DEF U
    <2>2. x \notin U
        BY <1>4 DEF U
    <2> QED BY <1>1, <2>1, <2>2
<1> QED BY <1>3, <1>5 DEF x

LEMMA ReferenceIssue ==
    ASSUME NEW c, NEW d, SchemaOK(d)
    PROVE  /\ d.initial \notin d.states => Error("initial", <<c, d.initial>>) \in DiagramIssues(c, d)
           /\ \A t \in UnknownTargets(d) : Error("target", <<c, t.to>>) \in DiagramIssues(c, d)
<1>1. ReferenceIssues(c, d) \subseteq DiagramIssues(c, d)
    BY DEF DiagramIssues
<1>2. d.initial \notin d.states => Error("initial", <<c, d.initial>>) \in ReferenceIssues(c, d)
    BY DEF ReferenceIssues
<1>3. \A t \in UnknownTargets(d) : Error("target", <<c, t.to>>) \in ReferenceIssues(c, d)
    BY DEF ReferenceIssues
<1> QED BY <1>1, <1>2, <1>3

\* Issues of states are issues of a validated diagram.
LEMMA StateIssue ==
    ASSUME NEW m, NEW x, NEW b, NEW s,
           x = Warning("trap", <<b, s>>) \/ x = Error("unreachable", <<b, s>>)
    PROVE  x \in DomainIssues(m) =>
              /\ ~ Stops(m)
              /\ \E c \in m.active \cap DOMAIN m.diagrams : x \in DiagramIssues(c, m.diagrams[c])
<1>1. x # Error("unexpected", <<>>)
    BY DEF Warning, Error
<1>2. x \notin ClassIssues(m)
    BY DEF ClassIssues, Warning, Error
<1>3. \A c : x # Error("missing", <<c>>)
    BY DEF Warning, Error
<1> QED BY <1>1, <1>2, <1>3 DEF DomainIssues, Stops

LEMMA DiagramIssue ==
    ASSUME NEW m, ~ Stops(m), NEW c \in m.active \cap DOMAIN m.diagrams
    PROVE  DiagramIssues(c, m.diagrams[c]) \subseteq DomainIssues(m)
BY DEF DomainIssues, Stops

-----------------------------------------------------------------------------
(* What the stages hand on: each holds what the one before it made *)

Stages == {"written", "loaded", "built", "generated", "ready", "running", "deleted",
           "failed", "crashed"}

\* All manifests are built.
Built == stage \in {"built", "generated", "ready", "running", "deleted"}

OwnMachine(c, d) ==
    /\ defs[c].table = [cell \in Cells(d) |-> Entries(d, cell)]
    /\ defs[c].initial = d.initial
    /\ defs[c].final = FinalStates(d)
    /\ defs[c].acting = d.states

WrittenInv ==
    /\ stage \in Stages
    /\ WellFormed(model)
    /\ checked \in BOOLEAN
    /\ issues = IF checked THEN DomainIssues(model) ELSE {}

LoadedInv ==
    stage \notin {"written", "failed"} =>
        \A c \in DOMAIN model.diagrams : SchemaOK(model.diagrams[c])

BuiltInv ==
    /\ stage = "written" => defs = Empty
    /\ \A c \in DOMAIN defs : c \in DOMAIN model.diagrams => OwnMachine(c, model.diagrams[c])
    /\ Built => DOMAIN defs = model.classes

GeneratedInv ==
    /\ ~ Built => code = Empty
    /\ \A c \in DOMAIN code : code[c] = Generated(defs[c])
    /\ stage = "generated" \/ InEngine => DOMAIN code = model.classes

TablesInv ==
    InEngine =>
        \A c \in model.classes :
            /\ DOMAIN tables[c] = {Reread(cell) : cell \in DOMAIN defs[c].table}
            /\ \A key \in DOMAIN tables[c] :
                  key \in DOMAIN code[c] => tables[c][key] = code[c][key]

PipelineInv == WrittenInv /\ LoadedInv /\ BuiltInv /\ GeneratedInv /\ TablesInv

LEMMA PipelineInit == CInit => PipelineInv
<1> SUFFICES ASSUME CInit PROVE PipelineInv
    OBVIOUS
<1>1. stage = "written" /\ checked = FALSE /\ issues = {} /\ defs = Empty /\ code = Empty
    BY DEF CInit
<1>2. WellFormed(model)
    BY ModelsAreWellFormed DEF CInit
<1>3. DOMAIN defs = {} /\ DOMAIN code = {}
    BY <1>1 DEF Empty
<1> QED BY <1>1, <1>2, <1>3
        DEF PipelineInv, WrittenInv, LoadedInv, BuiltInv, GeneratedInv, TablesInv, Stages, Built,
            InEngine

LEMMA ValidatePipeline == PipelineInv /\ Validate => PipelineInv'
<1> SUFFICES ASSUME PipelineInv, Validate PROVE PipelineInv'
    OBVIOUS
<1>1. UNCHANGED <<model, stage, defs, code, tables>> /\ checked' = TRUE /\ issues' = DomainIssues(model)
    BY DEF Validate
<1>2. WrittenInv'
    BY <1>1 DEF PipelineInv, WrittenInv
<1>3. LoadedInv'
    BY <1>1 DEF PipelineInv, LoadedInv
<1>4. BuiltInv'
    BY <1>1 DEF PipelineInv, BuiltInv, Built, OwnMachine
<1>5. GeneratedInv'
    BY <1>1 DEF PipelineInv, GeneratedInv, Built, InEngine
<1>6. TablesInv'
    BY <1>1 DEF PipelineInv, TablesInv, InEngine
<1> QED BY <1>2, <1>3, <1>4, <1>5, <1>6 DEF PipelineInv

LEMMA LoadModelPipeline == PipelineInv /\ LoadModel => PipelineInv'
<1> SUFFICES ASSUME PipelineInv, LoadModel PROVE PipelineInv'
    OBVIOUS
<1>1. /\ UNCHANGED <<model, checked, issues, defs, code, tables>>
      /\ stage = "written"
      /\ stage' = IF \A c \in DOMAIN model.diagrams : SchemaOK(model.diagrams[c])
                  THEN "loaded" ELSE "failed"
    BY DEF LoadModel
<1>2. WrittenInv'
    BY <1>1 DEF PipelineInv, WrittenInv, Stages
<1>3. LoadedInv'
    BY <1>1 DEF PipelineInv, LoadedInv
<1>4. BuiltInv'
    BY <1>1 DEF PipelineInv, BuiltInv, Built, OwnMachine
<1>5. GeneratedInv'
    BY <1>1 DEF PipelineInv, GeneratedInv, Built, InEngine
<1>6. TablesInv'
    BY <1>1 DEF PipelineInv, TablesInv, InEngine
<1> QED BY <1>2, <1>3, <1>4, <1>5, <1>6 DEF PipelineInv

LEMMA OrderPipeline == PipelineInv /\ OrderNext => PipelineInv'
<1> SUFFICES ASSUME PipelineInv, OrderNext PROVE PipelineInv'
    OBVIOUS
<1>1. UNCHANGED <<model, stage, checked, issues, defs, code, tables>>
    BY DEF OrderNext
<1>2. WrittenInv'
    BY <1>1 DEF PipelineInv, WrittenInv
<1>3. LoadedInv'
    BY <1>1 DEF PipelineInv, LoadedInv
<1>4. BuiltInv'
    BY <1>1 DEF PipelineInv, BuiltInv, Built, OwnMachine
<1>5. GeneratedInv'
    BY <1>1 DEF PipelineInv, GeneratedInv, Built, InEngine
<1>6. TablesInv'
    BY <1>1 DEF PipelineInv, TablesInv, InEngine
<1> QED BY <1>2, <1>3, <1>4, <1>5, <1>6 DEF PipelineInv

LEMMA BuildPipeline == PipelineInv /\ BuildNext => PipelineInv'
<1> SUFFICES ASSUME PipelineInv, BuildNext PROVE PipelineInv'
    OBVIOUS
<1> DEFINE c == ordered[Cardinality(DOMAIN defs) + 1]
<1>1. /\ UNCHANGED <<model, checked, issues, code, tables>>
      /\ stage = "loaded"
      /\ \/ stage' = "crashed" /\ defs' = defs
         \/ /\ defs' = With(defs, c, Manifest(c))
            /\ stage' = IF DOMAIN defs' = model.classes THEN "built" ELSE "loaded"
    BY DEF BuildNext
<1> HIDE DEF c
<1>2. stage' \in {"crashed", "built", "loaded"}
    BY <1>1
<1>3. WrittenInv'
    BY <1>1, <1>2 DEF PipelineInv, WrittenInv, Stages
<1>4. LoadedInv'
    BY <1>1, <1>2 DEF PipelineInv, LoadedInv
<1>5. GeneratedInv'
    <2>1. code = Empty /\ DOMAIN code = {}
        BY <1>1 DEF PipelineInv, GeneratedInv, Built, Empty
    <2> QED BY <1>1, <1>2, <2>1 DEF GeneratedInv, Built, InEngine, Empty
<1>6. TablesInv'
    BY <1>2 DEF TablesInv, InEngine
<1>7. BuiltInv'
    <2>1. CASE stage' = "crashed" /\ defs' = defs
        BY <1>1, <2>1 DEF PipelineInv, BuiltInv, Built, OwnMachine
    <2>2. CASE /\ defs' = With(defs, c, Manifest(c))
               /\ stage' = IF DOMAIN defs' = model.classes THEN "built" ELSE "loaded"
        <3>1. /\ DOMAIN defs' = DOMAIN defs \cup {c}
              /\ defs'[c] = Manifest(c)
              /\ \A b \in DOMAIN defs : b # c => defs'[b] = defs[b]
            BY <2>2 DEF With
        <3>2. ASSUME NEW b \in DOMAIN defs', b \in DOMAIN model.diagrams
              PROVE  OwnMachine(b, model.diagrams[b])'
            <4>1. CASE b = c
                <5>1. /\ Manifest(b).table = [cell \in Cells(model.diagrams[b]) |-> Entries(model.diagrams[b], cell)]
                      /\ Manifest(b).initial = model.diagrams[b].initial
                      /\ Manifest(b).final = FinalStates(model.diagrams[b])
                      /\ Manifest(b).acting = model.diagrams[b].states
                    BY <3>2 DEF Manifest, Machine
                <5> QED BY <1>1, <3>1, <4>1, <5>1 DEF OwnMachine
            <4>2. CASE b # c
                <5>1. OwnMachine(b, model.diagrams[b]) /\ defs'[b] = defs[b]
                    BY <3>1, <3>2, <4>2 DEF PipelineInv, BuiltInv
                <5> QED BY <1>1, <5>1 DEF OwnMachine
            <4> QED BY <4>1, <4>2
        <3>3. Built' => DOMAIN defs' = model.classes
            BY <2>2 DEF Built
        <3> QED BY <1>1, <1>2, <3>2, <3>3 DEF BuiltInv
    <2> QED BY <1>1, <2>1, <2>2
<1> QED BY <1>3, <1>4, <1>5, <1>6, <1>7 DEF PipelineInv

LEMMA GeneratePipeline == PipelineInv /\ GenerateNext => PipelineInv'
<1> SUFFICES ASSUME PipelineInv, GenerateNext PROVE PipelineInv'
    OBVIOUS
<1> DEFINE c == LeastOf(model.classes \ DOMAIN code)
<1>1. /\ UNCHANGED <<model, checked, issues, defs, tables>>
      /\ stage = "built"
      /\ code' = With(code, c, Generated(defs[c]))
      /\ stage' = IF DOMAIN code' = model.classes THEN "generated" ELSE "built"
    BY DEF GenerateNext
<1> HIDE DEF c
<1>2. stage' \in {"built", "generated"}
    BY <1>1
<1>3. WrittenInv'
    BY <1>1, <1>2 DEF PipelineInv, WrittenInv, Stages
<1>4. LoadedInv'
    BY <1>1, <1>2 DEF PipelineInv, LoadedInv
<1>5. BuiltInv'
    <2>1. BuiltInv /\ Built
        BY <1>1 DEF PipelineInv, Built
    <2> QED BY <1>1, <1>2, <2>1 DEF BuiltInv, OwnMachine
<1>6. TablesInv'
    BY <1>2 DEF TablesInv, InEngine
<1>7. GeneratedInv'
    <2>1. /\ DOMAIN code' = DOMAIN code \cup {c}
          /\ code'[c] = Generated(defs[c])
          /\ \A b \in DOMAIN code : b # c => code'[b] = code[b]
        BY <1>1 DEF With
    <2>2. \A b \in DOMAIN code' : code'[b] = Generated(defs[b])
        BY <2>1 DEF PipelineInv, GeneratedInv, Built
    <2> QED BY <1>1, <1>2, <2>2 DEF GeneratedInv, Built, InEngine
<1> QED BY <1>3, <1>4, <1>5, <1>6, <1>7 DEF PipelineInv

LEMMA BundlePipeline == PipelineInv /\ LoadBundle => PipelineInv'
<1> SUFFICES ASSUME PipelineInv, LoadBundle PROVE PipelineInv'
    OBVIOUS
<1>1. /\ UNCHANGED <<model, checked, issues, defs, code>>
      /\ stage = "generated" /\ stage' = "ready"
      /\ tables' = [c \in model.classes |-> Rebound(c)]
    BY DEF LoadBundle
<1>2. WrittenInv'
    BY <1>1 DEF PipelineInv, WrittenInv, Stages
<1>3. LoadedInv'
    BY <1>1 DEF PipelineInv, LoadedInv
<1>4. BuiltInv'
    BY <1>1 DEF PipelineInv, BuiltInv, Built, OwnMachine
<1>5. GeneratedInv'
    BY <1>1 DEF PipelineInv, GeneratedInv, Built, InEngine
<1>6. TablesInv'
    BY <1>1 DEF TablesInv, Rebound
<1> QED BY <1>2, <1>3, <1>4, <1>5, <1>6 DEF PipelineInv

LEMMA ObjectPipeline == PipelineInv /\ (CreateObject \/ Receive) => PipelineInv'
<1> SUFFICES ASSUME PipelineInv, CreateObject \/ Receive PROVE PipelineInv'
    OBVIOUS
<1>1. /\ UNCHANGED <<model, checked, issues, defs, code, tables>>
      /\ InEngine /\ stage' \in {"running", "deleted"}
    BY DEF CreateObject, Receive, InEngine
<1>2. WrittenInv'
    BY <1>1 DEF PipelineInv, WrittenInv, Stages
<1>3. LoadedInv'
    BY <1>1 DEF PipelineInv, LoadedInv, InEngine
<1>4. BuiltInv'
    BY <1>1 DEF PipelineInv, BuiltInv, Built, OwnMachine, InEngine
<1>5. GeneratedInv'
    BY <1>1 DEF PipelineInv, GeneratedInv, Built, InEngine
<1>6. TablesInv'
    BY <1>1 DEF PipelineInv, TablesInv, InEngine
<1> QED BY <1>2, <1>3, <1>4, <1>5, <1>6 DEF PipelineInv

LEMMA SamePipeline == PipelineInv /\ UNCHANGED vars => PipelineInv'
<1> SUFFICES ASSUME PipelineInv, UNCHANGED vars PROVE PipelineInv'
    OBVIOUS
<1>1. UNCHANGED <<model, stage, checked, issues, defs, code, tables>>
    BY DEF vars
<1>2. WrittenInv'
    BY <1>1 DEF PipelineInv, WrittenInv
<1>3. LoadedInv'
    BY <1>1 DEF PipelineInv, LoadedInv
<1>4. BuiltInv'
    BY <1>1 DEF PipelineInv, BuiltInv, Built, OwnMachine
<1>5. GeneratedInv'
    BY <1>1 DEF PipelineInv, GeneratedInv, Built, InEngine
<1>6. TablesInv'
    BY <1>1 DEF PipelineInv, TablesInv, InEngine
<1> QED BY <1>2, <1>3, <1>4, <1>5, <1>6 DEF PipelineInv

LEMMA PipelineNext == PipelineInv /\ [CNext]_vars => PipelineInv'
BY ValidatePipeline, LoadModelPipeline, OrderPipeline, BuildPipeline, GeneratePipeline,
   BundlePipeline, ObjectPipeline, SamePipeline DEF CNext

LEMMA PipelineHolds == CSpec => []PipelineInv
BY PipelineInit, PipelineNext, PTL DEF CSpec

-----------------------------------------------------------------------------
(* Traps and final states *)

\* Of a diagram that validation accepts.
LEMMA AcceptedDiagram ==
    ASSUME PipelineInv, InEngine, Accepted, NEW c \in model.active \cap DOMAIN model.diagrams
    PROVE  /\ ~ Stops(model)
           /\ model.diagrams[c] \in Diagram
           /\ SchemaOK(model.diagrams[c])
           /\ model.diagrams[c].initial \in model.diagrams[c].states
           /\ UnknownTargets(model.diagrams[c]) = {}
           /\ \A x \in DiagramIssues(c, model.diagrams[c]) : x[1] = "warning"
<1> DEFINE d == model.diagrams[c]
<1>1. issues = DomainIssues(model) /\ \A x \in issues : x[1] = "warning"
    BY DEF PipelineInv, WrittenInv, Accepted
<1>2. ~ Stops(model)
    <2>1. Error("unexpected", <<>>)[1] # "warning"
        BY DEF Error
    <2> QED BY <1>1, <2>1 DEF DomainIssues, Stops
<1>3. DiagramIssues(c, d) \subseteq issues
    BY <1>1, <1>2, DiagramIssue
<1>4. d \in Diagram
    BY DEF PipelineInv, WrittenInv, WellFormed
<1>5. SchemaOK(d)
    BY DEF PipelineInv, LoadedInv, InEngine
<1>6. \A k, y : Error(k, y)[1] # "warning"
    BY DEF Error
<1> HIDE DEF d
<1>7. d.initial \in d.states
    BY <1>1, <1>3, <1>5, <1>6, ReferenceIssue
<1>8. UnknownTargets(d) = {}
    BY <1>1, <1>3, <1>5, <1>6, ReferenceIssue
<1> QED BY <1>1, <1>2, <1>3, <1>4, <1>5, <1>7, <1>8 DEF d

LEMMA DiagramParts ==
    ASSUME NEW d \in Diagram
    PROVE  /\ d.transitions \in Seq(Transition)
           /\ Transitions(d) \subseteq Transition
           /\ d.states \subseteq Name /\ d.initial \in Name
           /\ \A t \in Transitions(d) : <<t.from, t.event>> \in Cells(d)
BY DEF Diagram, Transitions, Cells

\* Where every target is known, a state without edges is one without transitions.
LEMMA TrapsHaveNoTransition ==
    ASSUME NEW d \in Diagram, UnknownTargets(d) = {}
    PROVE  Traps(d) = FinalStates(d)
<1>1. ASSUME NEW t \in Transitions(d), t.from \in d.states PROVE <<t.from, t.to>> \in Edges(d)
    BY <1>1 DEF UnknownTargets, Edges
<1>2. ASSUME NEW e \in Edges(d) PROVE \E t \in Transitions(d) : e[1] = t.from
    BY DEF Edges
<1>3. ASSUME NEW s \in d.states, NEW t \in Transitions(d), t.from = s PROVE s \notin Traps(d)
    <2>1. <<t.from, t.to>> \in Edges(d) /\ <<t.from, t.to>>[1] = s
        BY <1>1, <1>3
    <2> QED BY <2>1 DEF Traps
<1> QED BY <1>2, <1>3 DEF Traps, FinalStates

LEMMA TrapsInvariant == PipelineInv => TrapsAreFinal
<1> SUFFICES ASSUME PipelineInv, InEngine, Accepted, NEW c \in model.active \cap DOMAIN model.diagrams
             PROVE  defs[c].final = {s \in Name : Warning("trap", <<c, s>>) \in issues}
    BY DEF TrapsAreFinal
<1> DEFINE d == model.diagrams[c]
<1>1. /\ ~ Stops(model) /\ d \in Diagram /\ SchemaOK(d)
      /\ d.initial \in d.states /\ UnknownTargets(d) = {}
    BY AcceptedDiagram
<1>2. issues = DomainIssues(model)
    BY DEF PipelineInv, WrittenInv, Accepted
<1>3. defs[c].final = FinalStates(d)
    <2>1. c \in DOMAIN defs
        BY DEF PipelineInv, WrittenInv, WellFormed, BuiltInv, Built, InEngine
    <2> QED BY <2>1 DEF PipelineInv, BuiltInv, OwnMachine
<1>4. \A b \in model.active \cap DOMAIN model.diagrams : SchemaOK(model.diagrams[b])
    BY DEF PipelineInv, LoadedInv, InEngine
<1>5. ASSUME NEW s, Warning("trap", <<c, s>>) \in issues PROVE s \in Traps(d)
    <2>1. PICK b \in model.active \cap DOMAIN model.diagrams :
             Warning("trap", <<c, s>>) \in DiagramIssues(b, model.diagrams[b])
        BY <1>2, <1>5, StateIssue
    <2> QED BY <1>4, <2>1, TrapIssue
<1>6. ASSUME NEW s \in Traps(d) PROVE Warning("trap", <<c, s>>) \in issues
    <2>1. Warning("trap", <<c, s>>) \in DiagramIssues(c, d)
        BY <1>1, TrapIssue
    <2> QED BY <1>1, <1>2, <2>1, DiagramIssue
<1>7. Traps(d) = FinalStates(d)
    BY <1>1, TrapsHaveNoTransition
<1>8. FinalStates(d) \subseteq Name
    BY <1>1, DiagramParts DEF FinalStates
<1> QED BY <1>3, <1>5, <1>6, <1>7, <1>8

\* The states that validation warns of as traps are those in which the engine
\* deletes instances (validation.py:533, manifest_builder.py:184).
THEOREM TrapsAndFinalStatesAgree == CSpec => []TrapsAreFinal
BY PipelineHolds, TrapsInvariant, PTL

-----------------------------------------------------------------------------
(* The entries of a cell are its transitions, sorted *)

LEMMA SiblingsType ==
    ASSUME NEW d \in Diagram, NEW cell
    PROVE  /\ Siblings(d, cell) \in Seq(Transition)
           /\ \A i \in DOMAIN Siblings(d, cell) :
                 /\ Siblings(d, cell)[i] \in Transitions(d)
                 /\ Siblings(d, cell)[i].from = cell[1] /\ Siblings(d, cell)[i].event = cell[2]
<1> DEFINE S == {t \in Transitions(d) : t.from = cell[1] /\ t.event = cell[2]}
<1>1. d.transitions \in Seq(Transition) /\ Transitions(d) \subseteq Transition
    BY DiagramParts
<1>2. Siblings(d, cell) \in Seq(Transition \cap S)
    BY <1>1, FilteredIsSeq DEF Siblings
<1>3. \A i \in DOMAIN Siblings(d, cell) : Siblings(d, cell)[i] \in S
    BY <1>2
<1>4. Siblings(d, cell) \in Seq(Transition)
    BY <1>2
<1> QED BY <1>3, <1>4

\* Those with target s.
To(d, cell, s) == Filtered(Siblings(d, cell), {t \in Transitions(d) : t.to = s})

Last == GreatestOf(Name) + 1

LEMMA NamesAreNumbers == Last \in Nat /\ \A s \in Name : s \in Nat /\ s + 1 \in 1 .. Last
<1>1. \E x \in Name : \A y \in Name : y <= x
    BY NamesAreOrdered, GreatestNumber
<1>2. GreatestOf(Name) \in Name /\ \A y \in Name : y <= GreatestOf(Name)
    BY <1>1 DEF GreatestOf
<1> DEFINE g == GreatestOf(Name)
<1>3. g \in Nat /\ \A s \in Name : s \in Nat /\ s <= g
    BY <1>2, NamesAreOrdered
<1> HIDE DEF g
<1>4. g + 1 \in Nat /\ \A s \in Name : s \in Nat /\ s + 1 \in 1 .. g + 1
    BY <1>3
<1> QED BY <1>4 DEF Last, g

\* f is the function that Entries() defines.
SortsUpTo(f, d, cell) ==
    /\ f \in [0 .. Last -> Seq(Transition)]
    /\ f[0] = To(d, cell, Terminal) \o To(d, cell, InitialMark)
    /\ \A n \in 1 .. Last : f[n] = f[n - 1] \o To(d, cell, n - 1)

LEMMA EntriesAreSorted ==
    ASSUME NEW d \in Diagram, NEW cell
    PROVE  \E f : /\ SortsUpTo(f, d, cell)
                  /\ Entries(d, cell) = [i \in DOMAIN f[Last] |->
                                            [next |-> f[Last][i].to, guard |-> f[Last][i].guard]]
<1> DEFINE Body(f, n) == IF n = 0 THEN To(d, cell, Terminal) \o To(d, cell, InitialMark)
                         ELSE f[n - 1] \o To(d, cell, n - 1)
           IsF(f) == f = [n \in 0 .. Last |-> Body(f, n)]
           f == CHOOSE f : IsF(f)
<1>1. Entries(d, cell) = [i \in DOMAIN f[Last] |->
                             [next |-> f[Last][i].to, guard |-> f[Last][i].guard]]
    BY DEF Entries, To, Last
<1>2. \A s : To(d, cell, s) \in Seq(Transition)
    <2>1. ASSUME NEW s PROVE To(d, cell, s) \in Seq(Transition)
        <3>1. To(d, cell, s) \in Seq(Transition \cap {t \in Transitions(d) : t.to = s})
            BY SiblingsType, FilteredIsSeq DEF To
        <3> QED BY <3>1
    <2> QED BY <2>1
<1> DEFINE a == To(d, cell, Terminal) \o To(d, cell, InitialMark)
           F == [n \in Nat |-> [p \in Seq(Transition) |-> p \o To(d, cell, n - 1)]]
<1>3. a \in Seq(Transition)
    BY <1>2
<1>4. F \in [Nat -> [Seq(Transition) -> Seq(Transition)]]
    <2>1. \A n \in Nat, p \in Seq(Transition) : p \o To(d, cell, n - 1) \in Seq(Transition)
        BY <1>2
    <2> QED BY <2>1
<1>5. Last \in Nat
    BY NamesAreNumbers
<1> HIDE DEF a
<1>6. PICK g \in [0 .. Last -> Seq(Transition)] :
         g[0] = a /\ \A n \in 1 .. Last : g[n] = F[n][g[n - 1]]
    <2>1. F \in StepFunctions(Seq(Transition))
        BY <1>4 DEF StepFunctions
    <2> HIDE DEF F
    <2>2. \E g : Recursion(g, Seq(Transition), a, F, Last)
        BY <1>3, <1>5, <2>1, RecursionExists
    <2> QED BY <2>2 DEF Recursion
<1>7. \A n \in 1 .. Last : g[n] = g[n - 1] \o To(d, cell, n - 1)
    <2>1. \A n \in 1 .. Last : n - 1 \in 0 .. Last /\ n \in Nat
        BY <1>5
    <2>2. \A n \in 1 .. Last : g[n - 1] \in Seq(Transition)
        BY <1>6, <2>1
    <2> QED BY <1>6, <2>1, <2>2
<1>8. IsF(g)
    <2>1. \A n \in 0 .. Last : n = 0 \/ n \in 1 .. Last
        BY <1>5
    <2>2. \A n \in 0 .. Last : g[n] = Body(g, n)
        BY <1>6, <1>7, <2>1 DEF a
    <2> HIDE DEF Body
    <2> QED BY <1>6, <2>2
<1>9. IsF(f)
    BY <1>8
<1>10. \A n \in 0 .. Last : f[n] = Body(f, n)
    <2> HIDE DEF f, Body
    <2> QED BY <1>9
<1>11. f[0] = a /\ \A n \in 1 .. Last : f[n] = f[n - 1] \o To(d, cell, n - 1)
    <2>1. 0 \in 0 .. Last /\ \A n \in 1 .. Last : n \in 0 .. Last /\ n # 0
        BY <1>5
    <2> HIDE DEF f
    <2> QED BY <1>10, <2>1 DEF a
<1>12. DOMAIN f = 0 .. Last
    <2> HIDE DEF f, Body
    <2> QED BY <1>9
<1> HIDE DEF f
<1>13. \A n \in 0 .. Last : f[n] \in Seq(Transition)
    <2> DEFINE Q == {n \in Nat : n <= Last => f[n] \in Seq(Transition)}
    <2>1. 0 \in Q
        BY <1>3, <1>11
    <2>2. ASSUME NEW n \in Nat, n \in Q PROVE n + 1 \in Q
        <3> SUFFICES ASSUME n + 1 <= Last PROVE f[n + 1] \in Seq(Transition)
            OBVIOUS
        <3>1. n + 1 \in 1 .. Last /\ (n + 1) - 1 = n /\ n <= Last
            BY <1>5
        <3>2. f[n + 1] = f[n] \o To(d, cell, n)
            BY <1>11, <3>1
        <3> QED BY <1>2, <2>2, <3>1, <3>2
    <2> HIDE DEF Q
    <2>3. \A n \in Nat : n \in Q
        BY <2>1, <2>2, Induction
    <2> QED BY <1>5, <2>3 DEF Q
<1>14. f \in [0 .. Last -> Seq(Transition)]
    <2>1. f = [n \in 0 .. Last |-> f[n]]
        BY <1>9, <1>10, <1>12
    <2> QED BY <1>13, <2>1
<1>15. SortsUpTo(f, d, cell)
    BY <1>11, <1>14 DEF SortsUpTo, a
<1> QED BY <1>1, <1>15

\* The places of the transitions to s among the siblings.
Heading(ts, s) == {i \in 1 .. Len(ts) : ts[i].to = s}

LEMMA ToPlaces ==
    ASSUME NEW d \in Diagram, NEW cell, NEW s
    PROVE  /\ To(d, cell, s) \in Seq(Transition)
           /\ Places(To(d, cell, s), Siblings(d, cell), Heading(Siblings(d, cell), s))
<1> DEFINE ts == Siblings(d, cell)
           S == {t \in Transitions(d) : t.to = s}
<1>1. ts \in Seq(Transition) /\ \A i \in DOMAIN ts : ts[i] \in Transitions(d)
    BY SiblingsType
<1>2. DOMAIN ts = 1 .. Len(ts)
    BY <1>1
<1>3. Heading(ts, s) = {i \in 1 .. Len(ts) : ts[i] \in S}
    BY <1>1, <1>2 DEF Heading
<1> HIDE DEF ts, S
<1>4. Filtered(ts, S) \in Seq(Transition \cap S)
    BY <1>1, FilteredIsSeq
<1>5. Filtered(ts, S) \in Seq(Transition)
    BY <1>4
<1>6. Places(Filtered(ts, S), ts, Heading(ts, s))
    BY <1>1, <1>3, FilteredPlaces
<1> QED BY <1>5, <1>6 DEF To, ts, S

LEMMA SortedPlaces ==
    ASSUME NEW d \in Diagram, NEW cell, NEW f, SortsUpTo(f, d, cell)
    PROVE  Places(f[Last], Siblings(d, cell), 1 .. Len(Siblings(d, cell)))
<1> DEFINE ts == Siblings(d, cell)
           Below(n) == {i \in 1 .. Len(ts) : ts[i].to \in {Terminal, InitialMark} \cup 0 .. n - 1}
           Q == {n \in Nat : n <= Last => Places(f[n], ts, Below(n))}
<1>1. ts \in Seq(Transition) /\ Last \in Nat
    BY SiblingsType, NamesAreNumbers
<1>2. \A s : To(d, cell, s) \in Seq(Transition) /\ Places(To(d, cell, s), ts, Heading(ts, s))
    BY ToPlaces
<1> HIDE DEF ts
<1>3. 0 \in Q
    <2>1. Below(0) = Heading(ts, Terminal) \cup Heading(ts, InitialMark)
        BY DEF Heading
    <2>2. Heading(ts, Terminal) \cap Heading(ts, InitialMark) = {}
        BY MarksAreNoNames DEF Heading
    <2>3. f[0] = To(d, cell, Terminal) \o To(d, cell, InitialMark)
        BY DEF SortsUpTo
    <2> HIDE DEF Below
    <2>4. Places(f[0], ts, Below(0))
        BY <1>2, <2>1, <2>2, <2>3, PlacesConcat
    <2> QED BY <2>4
<1>4. ASSUME NEW n \in Nat, n \in Q PROVE n + 1 \in Q
    <2> SUFFICES ASSUME n + 1 <= Last PROVE Places(f[n + 1], ts, Below(n + 1))
        OBVIOUS
    <2>1. n <= Last /\ n \in 0 .. Last /\ n + 1 \in 1 .. Last /\ (n + 1) - 1 = n
        BY <1>1
    <2>2. Places(f[n], ts, Below(n))
        BY <1>4, <2>1
    <2> HIDE DEF Q
    <2>3. Below(n + 1) = Below(n) \cup Heading(ts, n)
        <3>1. 0 .. (n + 1) - 1 = (0 .. n - 1) \cup {n}
            OBVIOUS
        <3> QED BY <3>1 DEF Heading
    <2>4. Below(n) \cap Heading(ts, n) = {}
        <3>1. n \notin 0 .. n - 1 /\ n # Terminal /\ n # InitialMark
            BY MarksAreNoNames
        <3> QED BY <3>1 DEF Heading
    <2>5. f[n] \in Seq(Transition) /\ f[n + 1] = f[n] \o To(d, cell, n)
        BY <2>1 DEF SortsUpTo
    <2> HIDE DEF Below
    <2>6. Places(f[n] \o To(d, cell, n), ts, Below(n) \cup Heading(ts, n))
        BY <1>2, <2>2, <2>4, <2>5, PlacesConcat
    <2> QED BY <2>3, <2>5, <2>6
<1> HIDE DEF Q
<1>5. Last \in Q
    BY <1>1, <1>3, <1>4, Induction
<1>6. Places(f[Last], ts, Below(Last))
    BY <1>1, <1>5 DEF Q
<1>7. Below(Last) = 1 .. Len(ts)
    <2>1. \A i \in 1 .. Len(ts) : ts[i] \in Transition
        BY <1>1
    <2>2. \A i \in 1 .. Len(ts) : ts[i].to \in Name \cup {Terminal, InitialMark}
        BY <2>1 DEF Transition
    <2>3. \A s \in Name : s \in 0 .. Last - 1
        BY <1>1, NamesAreNumbers
    <2> QED BY <2>2, <2>3
<1> QED BY <1>6, <1>7 DEF ts

\* The list of a cell has the transitions of the diagram, in some order.
LEMMA EntriesPlaces ==
    ASSUME NEW d \in Diagram, NEW cell
    PROVE  LET ts == Siblings(d, cell)
               es == Entries(d, cell)
           IN  /\ Len(ts) \in Nat /\ DOMAIN ts = 1 .. Len(ts)
               /\ DOMAIN es = 1 .. Len(ts)
               /\ \E h \in Bijection(1 .. Len(ts), 1 .. Len(ts)) :
                     \A j \in 1 .. Len(ts) :
                        es[j] = [next |-> ts[h[j]].to, guard |-> ts[h[j]].guard]
<1> DEFINE ts == Siblings(d, cell)
           es == Entries(d, cell)
<1>1. ts \in Seq(Transition) /\ Len(ts) \in Nat /\ DOMAIN ts = 1 .. Len(ts)
    BY SiblingsType
<1>2. PICK f : /\ SortsUpTo(f, d, cell)
               /\ es = [i \in DOMAIN f[Last] |-> [next |-> f[Last][i].to, guard |-> f[Last][i].guard]]
    BY EntriesAreSorted
<1>3. Places(f[Last], ts, 1 .. Len(ts))
    BY <1>2, SortedPlaces
<1> DEFINE p == f[Last]
<1>4. p \in Seq(Transition) /\ Len(p) \in Nat /\ DOMAIN p = 1 .. Len(p)
    <2>1. Last \in 0 .. Last
        BY NamesAreNumbers
    <2>2. f[Last] \in Seq(Transition)
        BY <1>2, <2>1 DEF SortsUpTo
    <2> QED BY <2>2
<1> HIDE DEF ts, es, p
<1>5. PICK h \in Bijection(1 .. Len(p), 1 .. Len(ts)) : \A j \in 1 .. Len(p) : p[j] = ts[h[j]]
    BY <1>3 DEF Places, p
<1>6. Len(p) = Len(ts)
    <2>1. /\ IsFiniteSet(1 .. Len(p)) /\ Cardinality(1 .. Len(p)) = Len(p)
          /\ Cardinality(1 .. Len(ts)) = Len(ts)
        BY <1>1, <1>4, IntervalSize
    <2>2. ExistsBijection(1 .. Len(p), 1 .. Len(ts))
        BY <1>5 DEF ExistsBijection
    <2> QED BY <2>1, <2>2, FS_Bijection
<1>7. DOMAIN es = 1 .. Len(ts)
    BY <1>2, <1>4, <1>6 DEF p
<1>8. \A j \in 1 .. Len(ts) : es[j] = [next |-> ts[h[j]].to, guard |-> ts[h[j]].guard]
    BY <1>2, <1>4, <1>5, <1>6 DEF p
<1>9. \E g \in Bijection(1 .. Len(ts), 1 .. Len(ts)) :
         \A j \in 1 .. Len(ts) : es[j] = [next |-> ts[g[j]].to, guard |-> ts[g[j]].guard]
    BY <1>5, <1>6, <1>8
<1> QED BY <1>1, <1>7, <1>9 DEF ts, es

-----------------------------------------------------------------------------
(* The cells of the engine *)

LEMMA CellsAreReread ==
    ASSUME NEW d, NEW key \in {Reread(cell) : cell \in Cells(d)}, key[2] # NoneText
    PROVE  key \in Cells(d) /\ key[2] # NoEvent
<1>1. PICK cell \in Cells(d) : key = Reread(cell)
    OBVIOUS
<1>2. PICK t \in Transitions(d) : cell = <<t.from, t.event>>
    BY DEF Cells
<1>3. CASE cell[2] = NoEvent
    BY <1>1, <1>3 DEF Reread
<1>4. CASE cell[2] # NoEvent
    BY <1>1, <1>4 DEF Reread
<1> QED BY <1>3, <1>4

LEMMA EngineTable ==
    ASSUME PipelineInv, InEngine, NEW c \in DOMAIN model.diagrams
    PROVE  LET d == model.diagrams[c]
           IN  /\ d \in Diagram
               /\ \A key \in DOMAIN tables[c] :
                     key[2] # NoneText => key \in Cells(d) /\ key[2] # NoEvent
               /\ \A cell \in Cells(d) :
                     cell[2] # NoEvent =>
                        /\ cell \in DOMAIN tables[c]
                        /\ tables[c][cell] = Generated(defs[c])[cell]
<1> DEFINE d == model.diagrams[c]
<1>1. c \in model.classes /\ d \in Diagram
    BY DEF PipelineInv, WrittenInv, WellFormed
<1>2. c \in DOMAIN defs /\ c \in DOMAIN code
    BY <1>1 DEF PipelineInv, BuiltInv, Built, GeneratedInv, InEngine
<1>3. OwnMachine(c, d) /\ code[c] = Generated(defs[c])
    BY <1>2 DEF PipelineInv, BuiltInv, GeneratedInv, Built
<1> HIDE DEF d
<1>4. DOMAIN defs[c].table = Cells(d)
    BY <1>3 DEF OwnMachine
<1>5. /\ DOMAIN tables[c] = {Reread(cell) : cell \in Cells(d)}
      /\ \A key \in DOMAIN tables[c] : key \in DOMAIN code[c] => tables[c][key] = code[c][key]
    BY <1>1, <1>4 DEF PipelineInv, TablesInv
<1>6. DOMAIN code[c] = Cells(d)
    BY <1>3, <1>4 DEF Generated
<1>7. ASSUME NEW key \in DOMAIN tables[c], key[2] # NoneText
      PROVE  key \in Cells(d) /\ key[2] # NoEvent
    BY <1>5, <1>7, CellsAreReread
<1>8. ASSUME NEW cell \in Cells(d), cell[2] # NoEvent
      PROVE  cell \in DOMAIN tables[c] /\ tables[c][cell] = Generated(defs[c])[cell]
    <2>1. Reread(cell) = cell
        BY <1>8 DEF Reread
    <2>2. cell \in DOMAIN tables[c]
        BY <1>5, <2>1
    <2> QED BY <1>3, <1>5, <1>6, <2>2
<1> QED BY <1>1, <1>7, <1>8 DEF d

LEMMA SequenceLength ==
    ASSUME NEW n \in Nat, NEW f, f = [i \in 1 .. n |-> f[i]]
    PROVE  Len(f) = n
<1> DEFINE g == [i \in 1 .. n |-> f[i]]
<1>1. Len(g) = n
    OBVIOUS
<1> QED BY <1>1

\* A cell of the engine has the transitions that the diagram has for it.
LEMMA EngineCell ==
    ASSUME PipelineInv, InEngine, NEW c \in DOMAIN model.diagrams,
           NEW cell \in Cells(model.diagrams[c]), cell[2] # NoEvent
    PROVE  LET ts == Siblings(model.diagrams[c], cell)
               es == tables[c][cell]
           IN  /\ Len(ts) \in Nat /\ DOMAIN ts = 1 .. Len(ts)
               /\ DOMAIN es = 1 .. Len(ts) /\ Len(es) = Len(ts)
               /\ \E h \in Bijection(1 .. Len(ts), 1 .. Len(ts)) :
                     \A j \in 1 .. Len(ts) :
                        es[j].next = ts[h[j]].to /\ es[j].guard = Compiled(ts[h[j]].guard)
<1> DEFINE d == model.diagrams[c]
           ts == Siblings(d, cell)
           es == tables[c][cell]
           entries == Entries(d, cell)
<1>1. d \in Diagram /\ es = Generated(defs[c])[cell]
    BY EngineTable
<1>2. defs[c].table = [k \in Cells(d) |-> Entries(d, k)]
    <2>1. c \in DOMAIN defs
        BY DEF PipelineInv, WrittenInv, WellFormed, BuiltInv, Built, InEngine
    <2> QED BY <2>1 DEF PipelineInv, BuiltInv, OwnMachine
<1>3. /\ Len(ts) \in Nat /\ DOMAIN ts = 1 .. Len(ts)
      /\ DOMAIN entries = 1 .. Len(ts)
      /\ \E h \in Bijection(1 .. Len(ts), 1 .. Len(ts)) :
            \A j \in 1 .. Len(ts) :
               entries[j] = [next |-> ts[h[j]].to, guard |-> ts[h[j]].guard]
    BY <1>1, EntriesPlaces
<1>4. defs[c].table[cell] = entries /\ DOMAIN defs[c].table = Cells(d)
    BY <1>2
<1> HIDE DEF d, ts, es, entries
<1>5. es = [i \in DOMAIN entries |->
               [next |-> entries[i].next, guard |-> Compiled(GuardOf(entries, i)),
                action |-> CellAction(entries, defs[c].acting)]]
    BY <1>1, <1>4 DEF Generated, d
<1>6. /\ DOMAIN es = 1 .. Len(ts)
      /\ \A i \in 1 .. Len(ts) : es[i].next = entries[i].next /\ es[i].guard = Compiled(entries[i].guard)
    BY <1>3, <1>5 DEF GuardOf
<1>7. Len(es) = Len(ts)
    <2>1. es = [i \in 1 .. Len(ts) |-> es[i]]
        BY <1>3, <1>5
    <2> QED BY <1>3, <2>1, SequenceLength
<1>8. PICK h \in Bijection(1 .. Len(ts), 1 .. Len(ts)) :
         \A j \in 1 .. Len(ts) : entries[j] = [next |-> ts[h[j]].to, guard |-> ts[h[j]].guard]
    BY <1>3
<1>9. \A j \in 1 .. Len(ts) :
         es[j].next = ts[h[j]].to /\ es[j].guard = Compiled(ts[h[j]].guard)
    <2> SUFFICES ASSUME NEW j \in 1 .. Len(ts)
                 PROVE  es[j].next = ts[h[j]].to /\ es[j].guard = Compiled(ts[h[j]].guard)
        OBVIOUS
    <2> DEFINE t == ts[h[j]]
    <2>0. entries[j] = [next |-> t.to, guard |-> t.guard]
        BY <1>8
    <2> HIDE DEF t
    <2>1. entries[j].next = t.to /\ entries[j].guard = t.guard
        BY <2>0
    <2> USE DEF t
    <2> QED BY <1>6, <2>1
<1> QED BY <1>3, <1>6, <1>7, <1>9 DEF d, ts, es

-----------------------------------------------------------------------------
(* Guards and targets *)

LEMMA GuardsInvariant == PipelineInv => GuardsKeepTheirTargets
<1> SUFFICES ASSUME PipelineInv, InEngine, NEW c \in DOMAIN model.diagrams,
                    NEW cell \in Cells(model.diagrams[c]), cell[2] # NoEvent
             PROVE  LET ts == Siblings(model.diagrams[c], cell)
                        es == tables[c][cell]
                        InFile(g, s) == {i \in DOMAIN ts : Compiled(ts[i].guard) = g /\ ts[i].to = s}
                        InTable(g, s) == {i \in DOMAIN es : es[i].guard = g /\ es[i].next = s}
                    IN  /\ Len(es) = Len(ts)
                        /\ \A i \in DOMAIN es :
                              LET g == es[i].guard
                                  s == es[i].next
                              IN  Cardinality(InFile(g, s)) = Cardinality(InTable(g, s))
    BY DEF GuardsKeepTheirTargets
<1> DEFINE ts == Siblings(model.diagrams[c], cell)
           es == tables[c][cell]
           InFile(g, s) == {i \in DOMAIN ts : Compiled(ts[i].guard) = g /\ ts[i].to = s}
           InTable(g, s) == {i \in DOMAIN es : es[i].guard = g /\ es[i].next = s}
<1>1. /\ Len(ts) \in Nat /\ DOMAIN ts = 1 .. Len(ts)
      /\ DOMAIN es = 1 .. Len(ts) /\ Len(es) = Len(ts)
      /\ \E h \in Bijection(1 .. Len(ts), 1 .. Len(ts)) :
            \A j \in 1 .. Len(ts) :
               es[j].next = ts[h[j]].to /\ es[j].guard = Compiled(ts[h[j]].guard)
    BY EngineCell
<1> HIDE DEF ts, es
<1>2. PICK h \in Bijection(1 .. Len(ts), 1 .. Len(ts)) :
         \A j \in 1 .. Len(ts) :
            es[j].next = ts[h[j]].to /\ es[j].guard = Compiled(ts[h[j]].guard)
    BY <1>1
<1>3. ASSUME NEW g, NEW s PROVE Cardinality(InFile(g, s)) = Cardinality(InTable(g, s))
    <2>1. \A j \in 1 .. Len(ts) : h[j] \in 1 .. Len(ts)
        BY DEF Bijection, Injection
    <2>2. InTable(g, s) = {j \in 1 .. Len(ts) : h[j] \in InFile(g, s)}
        BY <1>1, <1>2, <2>1
    <2>3. InFile(g, s) \subseteq 1 .. Len(ts)
        BY <1>1
    <2> HIDE DEF InFile, InTable
    <2> QED BY <1>1, <2>2, <2>3, SameNumber
<1> HIDE DEF InFile, InTable
<1>4. /\ Len(es) = Len(ts)
      /\ \A i \in DOMAIN es :
            Cardinality(InFile(es[i].guard, es[i].next)) = Cardinality(InTable(es[i].guard, es[i].next))
    BY <1>1, <1>3
<1> QED BY <1>4, Zenon DEF ts, es, InFile, InTable

\* Through the sort, the functions numbered within a cell, the keys written as
\* text and the rebinding by position, every guard stays with its transition
\* (codegen.py, bundle_loader.py).
THEOREM GuardsStayWithTargets == CSpec => []GuardsKeepTheirTargets
BY PipelineHolds, GuardsInvariant, PTL

-----------------------------------------------------------------------------
(* Decisions *)

LEMMA SiblingsAreAll ==
    ASSUME NEW d \in Diagram, NEW t \in Transitions(d)
    PROVE  \E i \in DOMAIN Siblings(d, <<t.from, t.event>>) : Siblings(d, <<t.from, t.event>>)[i] = t
<1> DEFINE s == d.transitions
           S == {u \in Transitions(d) : u.from = t.from /\ u.event = t.event}
           p == Filtered(s, S)
<1>1. s \in Seq(Transition)
    BY DiagramParts
<1>2. PICK k \in 1 .. Len(s) : s[k] = t
    BY <1>1 DEF Transitions
<1>3. p \in Seq(Transition \cap S)
    BY <1>1, FilteredIsSeq
<1>4. DOMAIN p = 1 .. Len(p)
    BY <1>3
<1>5. t \in S
    OBVIOUS
<1>6. Siblings(d, <<t.from, t.event>>) = p
    BY DEF Siblings
<1> HIDE DEF s, S, p
<1>7. PICK h \in Bijection(1 .. Len(p), {i \in 1 .. Len(s) : s[i] \in S}) :
         \A j \in 1 .. Len(p) : p[j] = s[h[j]]
    BY <1>1, FilteredPlaces DEF Places, p
<1>8. PICK j \in 1 .. Len(p) : h[j] = k
    BY <1>2, <1>5, <1>7 DEF Bijection, Surjection
<1> QED BY <1>2, <1>4, <1>6, <1>7, <1>8

\* Guards without an unguarded sibling that are not covered are an error, or
\* there is a warning that it cannot be told.
LEMMA GuardIssue ==
    ASSUME NEW c, NEW d, NEW cell,
           \A i \in DOMAIN Siblings(d, cell) : Siblings(d, cell)[i].guard # NoGuard,
           Malformed \notin Guards(Siblings(d, cell)),
           NEW g \in Guards(Siblings(d, cell)), g.names,
           ~ Covered(Guards(Siblings(d, cell)))
    PROVE  \/ \E k \in {"untyped", "incomplete"} : Error(k, <<c, cell>>) \in GuardIssues(c, d, cell)
           \/ \E k \in {"complex", "undecided"} : Warning(k, <<c, cell>>) \in GuardIssues(c, d, cell)
<1> DEFINE ts == Siblings(d, cell)
           guards == Guards(ts) \ {NoGuard}
           free == {i \in DOMAIN ts : ts[i].guard = NoGuard}
<1>1. free = {} /\ guards = Guards(ts)
    BY DEF Guards
<1>2. Cardinality(free) = 0
    BY <1>1, FS_EmptySet
<1>3. /\ ~ (Cardinality(free) > 1)
      /\ guards # {}
      /\ Malformed \notin guards
      /\ ~ (\A x \in guards : ~ x.names)
      /\ ~ Covered(guards)
    <2>1. g \in guards /\ Malformed \notin guards /\ ~ Covered(guards)
        BY <1>1
    <2>2. guards # {} /\ ~ (\A x \in guards : ~ x.names)
        BY <2>1
    <2> HIDE DEF guards, free
    <2>3. ~ (Cardinality(free) > 1)
        BY <1>2
    <2> QED BY <2>1, <2>2, <2>3
<1>4. GuardIssues(c, d, cell) =
         IF cell[2] \notin d.ranged THEN {Error("untyped", <<c, cell>>)}
         ELSE IF \E x \in guards : ~ x.linear THEN {Warning("complex", <<c, cell>>)}
         ELSE IF guards \in Undecided THEN {Warning("undecided", <<c, cell>>)}
         ELSE {Error("incomplete", <<c, cell>>)}
    <2>1. GuardIssues(c, d, cell) =
             IF Cardinality(free) > 1 THEN {Error("ambiguous", <<c, cell>>)}
             ELSE IF guards = {} THEN {}
             ELSE IF Malformed \in guards THEN {Warning("unparsed", <<c, cell>>)}
             ELSE IF \A x \in guards : ~ x.names THEN {}
             ELSE IF cell[2] \notin d.ranged THEN {Error("untyped", <<c, cell>>)}
             ELSE IF \E x \in guards : ~ x.linear THEN {Warning("complex", <<c, cell>>)}
             ELSE IF guards \in Undecided THEN {Warning("undecided", <<c, cell>>)}
             ELSE IF ~ Covered(guards) THEN {Error("incomplete", <<c, cell>>)}
             ELSE {}
        BY DEF GuardIssues
    <2> HIDE DEF free, guards
    <2> QED BY <1>3, <2>1
<1> HIDE DEF guards
<1> QED BY <1>4

LEMMA ChoiceExists ==
    ASSUME NEW entries, NEW v, NEW w, NEW i \in DOMAIN entries,
           entries[i].guard = NoGuard \/ Holds(entries[i].guard, v, w)
    PROVE  Choice(entries, v, w) # {}
BY DEF Choice

LEMMA DecisionsInvariant == PipelineInv => AcceptedCellsDecide
<1> SUFFICES ASSUME PipelineInv, InEngine, Accepted, NEW c \in model.active \cap DOMAIN model.diagrams,
                    NEW cell \in DOMAIN tables[c], cell[2] # NoneText,
                    Analysed(c, cell, {tables[c][cell][i].guard : i \in DOMAIN tables[c][cell]}
                                          \ {NoGuard}),
                    \A g \in {tables[c][cell][i].guard : i \in DOMAIN tables[c][cell]} \ {NoGuard} :
                       ReadsEventOnly(g),
                    NEW v \in Value, NEW w \in Value
             PROVE  Choice(tables[c][cell], v, w) # {}
    BY DEF AcceptedCellsDecide
<1> DEFINE d == model.diagrams[c]
           ts == Siblings(d, cell)
           es == tables[c][cell]
<1>1. /\ d \in Diagram /\ SchemaOK(d)
      /\ ~ Stops(model)
      /\ \A x \in DiagramIssues(c, d) : x[1] = "warning"
    BY AcceptedDiagram
<1>2. cell \in Cells(d) /\ cell[2] # NoEvent
    BY EngineTable
<1>3. /\ DOMAIN ts = 1 .. Len(ts) /\ DOMAIN es = 1 .. Len(ts)
      /\ \E h \in Bijection(1 .. Len(ts), 1 .. Len(ts)) :
            \A j \in 1 .. Len(ts) :
               es[j].next = ts[h[j]].to /\ es[j].guard = Compiled(ts[h[j]].guard)
    BY <1>2, EngineCell
<1>4. /\ \E i \in DOMAIN es : es[i].guard # NoGuard /\ es[i].guard.names
      /\ \A i \in DOMAIN es : es[i].guard # NoGuard => ReadsEventOnly(es[i].guard)
      /\ Warning("complex", <<c, cell>>) \notin issues
      /\ Warning("undecided", <<c, cell>>) \notin issues
    BY DEF Analysed
<1>5. \A i \in DOMAIN ts : ts[i].guard \in Guard \cup {NoGuard, Malformed}
    <2>1. \A i \in DOMAIN ts : ts[i] \in Transition
        BY <1>1, SiblingsType, DiagramParts
    <2> QED BY <2>1 DEF Transition
<1>6. GuardIssues(c, d, cell) \subseteq DiagramIssues(c, d)
    <2> DEFINE U == UNION {GuardIssues(c, d, k) : k \in Cells(d)}
    <2>1. DiagramIssues(c, d) = ReferenceIssues(c, d) \cup U \cup ReachabilityIssues(c, d)
        BY <1>1 DEF DiagramIssues
    <2>2. GuardIssues(c, d, cell) \subseteq U
        BY <1>2
    <2> HIDE DEF U
    <2> QED BY <2>1, <2>2
<1>7. GuardIssues(c, d, cell) \subseteq issues
    <2>1. issues = DomainIssues(model)
        BY DEF PipelineInv, WrittenInv, Accepted
    <2>2. DiagramIssues(c, d) \subseteq issues
        BY <1>1, <2>1, DiagramIssue
    <2> QED BY <1>6, <2>2
<1> HIDE DEF d, ts, es
<1>8. PICK h \in Bijection(1 .. Len(ts), 1 .. Len(ts)) :
         \A j \in 1 .. Len(ts) :
            es[j].next = ts[h[j]].to /\ es[j].guard = Compiled(ts[h[j]].guard)
    BY <1>3
<1>9. \A i \in DOMAIN ts : \E j \in DOMAIN es : es[j].guard = Compiled(ts[i].guard)
    <2> SUFFICES ASSUME NEW i \in 1 .. Len(ts)
                 PROVE  \E j \in 1 .. Len(ts) : es[j].guard = Compiled(ts[i].guard)
        BY <1>3
    <2>1. PICK j \in 1 .. Len(ts) : h[j] = i
        BY DEF Bijection, Surjection
    <2> QED BY <1>8, <2>1
<1>10. SUFFICES ASSUME \A i \in DOMAIN es : es[i].guard # NoGuard /\ ~ Holds(es[i].guard, v, w)
                PROVE  FALSE
    BY ChoiceExists DEF es
<1>11. \A i \in DOMAIN es : ~ Holds(es[i].guard, v, v)
    BY <1>4, <1>10 DEF ReadsEventOnly
<1>12. ASSUME NEW i \in DOMAIN ts
       PROVE  /\ ts[i].guard \in Guard
              /\ <<v, v>> \notin ts[i].guard.when
              /\ Compiled(ts[i].guard) = ts[i].guard
    <2>1. PICK j \in DOMAIN es : es[j].guard = Compiled(ts[i].guard)
        BY <1>9
    <2>2. ts[i].guard # NoGuard
        BY <1>10, <2>1, MarksAreNoNames DEF Compiled
    <2>3. ts[i].guard # Malformed
        <3> SUFFICES ASSUME ts[i].guard = Malformed PROVE FALSE
            OBVIOUS
        <3>1. es[j].guard.when = Value \X Value
            BY <2>1 DEF Compiled
        <3> QED BY <1>10, <3>1 DEF Holds
    <2>4. Compiled(ts[i].guard) = ts[i].guard
        BY <2>3 DEF Compiled
    <2>5. <<v, v>> \notin ts[i].guard.when
        BY <1>11, <2>1, <2>4 DEF Holds
    <2> QED BY <1>5, <2>2, <2>3, <2>4, <2>5
<1>13. \A x \in Guards(ts) : x \in Guard /\ <<v, v>> \notin x.when
    BY <1>12 DEF Guards
<1>14. PICK g \in Guards(ts) : g.names
    <2>1. PICK j \in DOMAIN es : es[j].guard.names
        BY <1>4
    <2>2. h[j] \in DOMAIN ts /\ es[j].guard = Compiled(ts[h[j]].guard)
        BY <1>3, <1>8, <2>1 DEF Bijection, Injection
    <2>3. ts[h[j]].guard.names
        BY <1>12, <2>1, <2>2
    <2> QED BY <2>2, <2>3 DEF Guards
<1>15. ~ Covered(Guards(ts))
    BY <1>13 DEF Covered
<1>16. /\ \A i \in DOMAIN ts : ts[i].guard # NoGuard
       /\ Malformed \notin Guards(ts)
    BY <1>12, <1>13, MarksAreNoNames
<1>17. \/ \E k \in {"untyped", "incomplete"} : Error(k, <<c, cell>>) \in GuardIssues(c, d, cell)
       \/ \E k \in {"complex", "undecided"} : Warning(k, <<c, cell>>) \in GuardIssues(c, d, cell)
    BY <1>14, <1>15, <1>16, GuardIssue DEF ts
<1>18. \A k : Error(k, <<c, cell>>)[1] # "warning"
    BY DEF Error
<1> QED BY <1>1, <1>4, <1>6, <1>7, <1>17, <1>18

\* In an accepted model, a cell whose guards validation has looked at, without
\* a warning that it cannot tell, and none of which reads the instance, always
\* has an entry to take: no event is dropped because every guard is false
\* (validation.py, scheduler.py).
THEOREM AcceptedGuardsDecide == CSpec => []AcceptedCellsDecide
BY PipelineHolds, DecisionsInvariant, PTL

-----------------------------------------------------------------------------
(* What an instance reaches *)

LEMMA ReachableClosed ==
    ASSUME NEW d, d.initial \in d.states
    PROVE  /\ d.initial \in Reachable(d)
           /\ \A s \in Reachable(d) : \A t : <<s, t>> \in Edges(d) => t \in Reachable(d)
<1> DEFINE nodes == d.states \cup {Terminal}
           Closed(S) == \A e \in Edges(d) : e[1] \in S => e[2] \in S
<1>1. Reachable(d) = {s \in nodes : \A S \in SUBSET nodes : d.initial \in S /\ Closed(S) => s \in S}
    BY DEF Reachable
<1>2. d.initial \in Reachable(d)
    BY <1>1
<1>3. ASSUME NEW s \in Reachable(d), NEW t, <<s, t>> \in Edges(d) PROVE t \in Reachable(d)
    <2>1. t \in nodes
        BY <1>3 DEF Edges
    <2>2. ASSUME NEW S \in SUBSET nodes, d.initial \in S, Closed(S) PROVE t \in S
        <3>1. s \in S
            BY <1>1, <2>2
        <3>2. <<s, t>>[1] \in S => <<s, t>>[2] \in S
            BY <1>3, <2>2
        <3> QED BY <3>1, <3>2
    <2> HIDE DEF nodes, Closed
    <2> QED BY <1>1, <2>1, <2>2
<1> QED BY <1>2, <1>3

\* The transition that a choice takes.
LEMMA ChoiceIsEntry ==
    ASSUME NEW n \in Nat, NEW entries, DOMAIN entries = 1 .. n, NEW v, NEW w,
           NEW i \in Choice(entries, v, w)
    PROVE  i \in 1 .. n
<1> DEFINE guarded == {j \in DOMAIN entries :
                          entries[j].guard # NoGuard /\ Holds(entries[j].guard, v, w)}
           free == {j \in DOMAIN entries : entries[j].guard = NoGuard}
<1>1. guarded \subseteq 1 .. n /\ free \subseteq 1 .. n
    OBVIOUS
<1>2. Choice(entries, v, w) = IF guarded # {} THEN {LeastOf(guarded)}
                              ELSE IF free # {} THEN {LeastOf(free)} ELSE {}
    BY DEF Choice
<1> HIDE DEF guarded, free
<1>3. ASSUME NEW S, S \subseteq 1 .. n, S # {} PROVE LeastOf(S) \in S
    <2>1. S \subseteq Nat
        BY <1>3
    <2>2. \E x \in S : \A y \in S : x <= y
        BY <1>3, <2>1, LeastNumber
    <2> QED BY <2>2 DEF LeastOf
<1>4. CASE guarded # {}
    <2>1. i = LeastOf(guarded)
        BY <1>2, <1>4
    <2>2. LeastOf(guarded) \in guarded
        BY <1>1, <1>3, <1>4
    <2> QED BY <1>1, <2>1, <2>2
<1>5. CASE guarded = {}
    <2>1. free # {} /\ i = LeastOf(free)
        BY <1>2, <1>5
    <2>2. LeastOf(free) \in free
        BY <1>1, <1>3, <2>1
    <2> QED BY <1>1, <2>1, <2>2
<1> QED BY <1>4, <1>5

\* Where every target is known, what an instance enters is reachable.
ReachInv ==
    stage \in {"running", "deleted"} /\ object \in DOMAIN model.diagrams =>
        LET d == model.diagrams[object]
        IN  d.initial \in d.states /\ UnknownTargets(d) = {}
                => current \in d.states /\ current \in Reachable(d)

LEMMA CreateReaches == PipelineInv /\ CreateObject => ReachInv'
<1> SUFFICES ASSUME PipelineInv, CreateObject PROVE ReachInv'
    OBVIOUS
<1>1. PICK c \in model.classes : object' = c /\ current' = defs[c].initial
    BY DEF CreateObject
<1>2. model' = model /\ stage = "ready"
    BY DEF CreateObject
<1>3. c \in DOMAIN model.diagrams => defs[c].initial = model.diagrams[c].initial
    BY <1>2 DEF PipelineInv, BuiltInv, Built, OwnMachine
<1> QED BY <1>1, <1>2, <1>3, ReachableClosed DEF ReachInv

LEMMA ReceiveReaches == PipelineInv /\ ReachInv /\ Receive => ReachInv'
<1> SUFFICES ASSUME PipelineInv, ReachInv, Receive,
                    object \in DOMAIN model.diagrams,
                    model.diagrams[object].initial \in model.diagrams[object].states,
                    UnknownTargets(model.diagrams[object]) = {}
             PROVE  /\ current' \in model.diagrams[object].states
                    /\ current' \in Reachable(model.diagrams[object])
    <2>1. Receive => model' = model /\ object' = object
        BY DEF Receive
    <2> QED BY <2>1 DEF ReachInv
<1> DEFINE d == model.diagrams[object]
<1>1. stage = "running"
    BY DEF Receive
<1>2. PICK e \in Signal, v \in Value, w \in Value :
         /\ <<current, e>> \in DOMAIN tables[object]
         /\ \E i \in Choice(tables[object][<<current, e>>], v, w) :
               current' = tables[object][<<current, e>>][i].next
    BY DEF Receive
<1>3. current \in d.states /\ current \in Reachable(d)
    BY <1>1 DEF ReachInv
<1>4. InEngine
    BY <1>1 DEF InEngine
<1> DEFINE cell == <<current, e>>
           ts == Siblings(d, cell)
           es == tables[object][cell]
<1>5. d \in Diagram /\ SchemaOK(d)
    BY <1>4, EngineTable DEF PipelineInv, LoadedInv, InEngine
<1>6. cell \in Cells(d) /\ cell[2] # NoEvent
    <2>1. cell[2] = e /\ e # NoneText
        BY NoEventIsCalledNone
    <2> QED BY <1>2, <1>4, <2>1, EngineTable
<1>7. /\ Len(ts) \in Nat /\ DOMAIN ts = 1 .. Len(ts) /\ DOMAIN es = 1 .. Len(ts)
      /\ \E h \in Bijection(1 .. Len(ts), 1 .. Len(ts)) :
            \A j \in 1 .. Len(ts) :
               es[j].next = ts[h[j]].to /\ es[j].guard = Compiled(ts[h[j]].guard)
    BY <1>4, <1>6, EngineCell
<1>8. \A k \in DOMAIN ts : ts[k] \in Transitions(d) /\ ts[k].from = current /\ ts[k].event = e
    <2>1. cell[1] = current /\ cell[2] = e
        OBVIOUS
    <2> HIDE DEF cell
    <2> QED BY <1>5, <2>1, SiblingsType
<1>9. PICK i \in Choice(es, v, w) : current' = es[i].next
    BY <1>2
<1> HIDE DEF d, es, ts
<1>10. i \in 1 .. Len(ts)
    BY <1>7, ChoiceIsEntry
<1>11. PICK h \in Bijection(1 .. Len(ts), 1 .. Len(ts)) :
          \A j \in 1 .. Len(ts) : es[j].next = ts[h[j]].to
    BY <1>7
<1>12. h[i] \in DOMAIN ts
    BY <1>7, <1>10 DEF Bijection, Injection
<1>13. PICK t \in Transitions(d) : t.from = current /\ t.event = e /\ current' = t.to
    BY <1>8, <1>9, <1>10, <1>11, <1>12
<1>14. t.to # Terminal
    <2>1. t.event # NoEvent
        BY <1>13, MarksAreNoNames
    <2> QED BY <1>5, <2>1 DEF SchemaOK
<1>15. t.to \in d.states
    BY <1>14 DEF UnknownTargets, d
<1>16. <<current, t.to>> \in Edges(d)
    BY <1>3, <1>13, <1>15 DEF Edges
<1>17. t.to \in Reachable(d)
    BY <1>3, <1>16, ReachableClosed DEF d
<1> QED BY <1>13, <1>15, <1>17 DEF d

LEMMA ReachNext == PipelineInv /\ ReachInv /\ [CNext]_vars => ReachInv'
<1> SUFFICES ASSUME PipelineInv, ReachInv, [CNext]_vars PROVE ReachInv'
    OBVIOUS
<1>1. ASSUME Validate \/ LoadModel \/ OrderNext \/ BuildNext \/ GenerateNext \/ LoadBundle
      PROVE  ReachInv'
    <2>1. stage' \notin {"running", "deleted"}
        BY <1>1 DEF Validate, LoadModel, OrderNext, BuildNext, GenerateNext, LoadBundle
    <2> QED BY <2>1 DEF ReachInv
<1>2. ASSUME UNCHANGED vars PROVE ReachInv'
    <2>1. UNCHANGED <<model, stage, object, current>>
        BY <1>2 DEF vars
    <2> QED BY <2>1 DEF ReachInv
<1> QED BY <1>1, <1>2, CreateReaches, ReceiveReaches DEF CNext

LEMMA ReachHolds == CSpec => []ReachInv
<1>1. CInit => ReachInv
    BY DEF CInit, ReachInv
<1> QED BY <1>1, PipelineHolds, ReachNext, PTL DEF CSpec

LEMMA UnreachableInvariant == PipelineInv /\ ReachInv => UnreachableIsNotEntered
<1> SUFFICES ASSUME PipelineInv, ReachInv, stage \in {"running", "deleted"},
                    \A s \in Target : Error("target", <<object, s>>) \notin issues,
                    Error("unreachable", <<object, current>>) \in issues
             PROVE  FALSE
    BY DEF UnreachableIsNotEntered
<1> DEFINE d == model.diagrams[object]
<1>1. issues = DomainIssues(model)
    BY DEF PipelineInv, WrittenInv
<1>2. PICK b \in model.active \cap DOMAIN model.diagrams :
         /\ ~ Stops(model)
         /\ Error("unreachable", <<object, current>>) \in DiagramIssues(b, model.diagrams[b])
    BY <1>1, StateIssue
<1>3. \A c \in DOMAIN model.diagrams : model.diagrams[c] \in Diagram /\ SchemaOK(model.diagrams[c])
    BY DEF PipelineInv, WrittenInv, WellFormed, LoadedInv
<1>4. /\ object \in model.active \cap DOMAIN model.diagrams
      /\ d.initial \in d.states /\ current \in Unreachable(d)
    BY <1>2, <1>3, UnreachableIssue
<1>5. UnknownTargets(d) = {}
    <2> SUFFICES ASSUME NEW t \in UnknownTargets(d) PROVE FALSE
        OBVIOUS
    <2>1. Error("target", <<object, t.to>>) \in issues
        BY <1>1, <1>2, <1>3, <1>4, ReferenceIssue, DiagramIssue
    <2>2. t \in Transition
        BY <1>3, <1>4, DiagramParts DEF UnknownTargets
    <2>3. t.to \in Target
        BY <2>2 DEF Transition, Target
    <2> QED BY <2>1, <2>3
<1>6. current \in Reachable(d)
    BY <1>4, <1>5 DEF ReachInv
<1> QED BY <1>4, <1>6 DEF Unreachable

\* No instance enters a state that validation called unreachable, unless
\* validation also found a target that is no state (validation.py:505, 520).
THEOREM UnreachableStatesStayUnentered == CSpec => []UnreachableIsNotEntered
BY PipelineHolds, ReachHolds, UnreachableInvariant, PTL

-----------------------------------------------------------------------------
(* The order of the classes *)

LEMMA ParentType ==
    ASSUME WellFormed(model), NEW c
    PROVE  Parent(c) \in model.classes \cup {NoClass}
<1> DEFINE rs == {r \in DOMAIN model.partitions : c \in model.partitions[r].subs}
<1>1. CASE rs = {}
    BY <1>1 DEF Parent
<1>2. CASE rs # {}
    <2>1. rs \subseteq Nat /\ rs \subseteq DOMAIN model.partitions /\ IsFiniteSet(rs)
        BY FS_Subset DEF WellFormed
    <2>2. Parent(c) = model.partitions[GreatestOf(rs)].super
        BY <1>2 DEF Parent
    <2> HIDE DEF rs
    <2>3. \E x \in rs : \A y \in rs : y <= x
        BY <1>2, <2>1, GreatestNumber
    <2>4. GreatestOf(rs) \in rs
        BY <2>3 DEF GreatestOf
    <2> QED BY <2>1, <2>2, <2>4 DEF WellFormed
<1> QED BY <1>1, <1>2

\* A way down to c: each class is the parent of the next.
Way(s, c) ==
    /\ s \in Seq(model.classes) /\ Len(s) > 0 /\ s[Len(s)] = c
    /\ \A i, j \in 1 .. Len(s) : s[i] = s[j] => i = j
    /\ \A i \in 1 .. Len(s) : s[i] \notin Elements(ordered)
    /\ \A i \in 1 .. Len(s) - 1 : s[i] = Parent(s[i + 1])

\* It cannot be longer: its first class has no parent, or one that was visited.
Complete(s) ==
    \/ Parent(Head(s)) = NoClass
    \/ Parent(Head(s)) \in Elements(ordered) \cup Elements(s)

Longer(s) == IF Complete(s) THEN s ELSE <<Parent(Head(s))>> \o s

LEMMA LongerType ==
    ASSUME WellFormed(model), NEW s \in Seq(model.classes)
    PROVE  Longer(s) \in Seq(model.classes)
<1>1. CASE Complete(s)
    BY <1>1 DEF Longer
<1>2. CASE ~ Complete(s)
    <2>1. Parent(Head(s)) \in model.classes
        BY <1>2, ParentType DEF Complete
    <2> QED BY <1>2, <2>1, OneBefore DEF Longer
<1> QED BY <1>1, <1>2

LEMMA LongerWay ==
    ASSUME WellFormed(model), NEW c, NEW s, Way(s, c), ~ Complete(s)
    PROVE  Way(Longer(s), c) /\ Len(Longer(s)) = Len(s) + 1
<1> DEFINE p == Parent(Head(s))
           t == <<p>> \o s
<1>1. p \in model.classes /\ p \notin Elements(ordered) /\ p \notin Elements(s)
    BY ParentType DEF Complete
<1>2. Longer(s) = t
    BY DEF Longer
<1>3. s \in Seq(model.classes) /\ Len(s) \in Nat /\ Len(s) > 0 /\ Head(s) = s[1]
    BY DEF Way
<1> HIDE DEF p
<1>4. /\ t \in Seq(model.classes) /\ Len(t) = Len(s) + 1
      /\ t[1] = p /\ \A i \in 1 .. Len(s) : t[i + 1] = s[i]
    <2>1. p \in model.classes /\ s \in Seq(model.classes) /\ t = <<p>> \o s
        BY <1>1, <1>3
    <2> HIDE DEF t
    <2> DEFINE C == model.classes
    <2>2. p \in C /\ s \in Seq(C)
        BY <2>1
    <2> HIDE DEF C
    <2>3. t \in Seq(C) /\ Len(t) = Len(s) + 1 /\ t[1] = p
        BY ONLY <2>1, <2>2, OneBefore
    <2>4. \A i \in 1 .. Len(s) : t[i + 1] = s[i]
        BY ONLY <2>1, <2>2, OneBefore
    <2> QED BY <2>3, <2>4 DEF C
<1>5. \A i \in 1 .. Len(t) : i = 1 \/ (i - 1 \in 1 .. Len(s) /\ t[i] = s[i - 1])
    <2> HIDE DEF t
    <2> SUFFICES ASSUME NEW i \in 1 .. Len(t), i # 1 PROVE i - 1 \in 1 .. Len(s) /\ t[i] = s[i - 1]
        OBVIOUS
    <2>1. i - 1 \in 1 .. Len(s) /\ (i - 1) + 1 = i
        BY <1>3, <1>4
    <2> QED BY <1>4, <2>1
<1> HIDE DEF t
<1>6. t[Len(t)] = c
    <2>1. Len(s) \in 1 .. Len(s)
        BY <1>3
    <2> QED BY <1>4, <2>1 DEF Way
<1>7. \A i \in 1 .. Len(s) : s[i] # p
    <2>1. DOMAIN s = 1 .. Len(s)
        BY <1>3
    <2> QED BY <1>1, <2>1 DEF Elements
<1>8. \A i, j \in 1 .. Len(t) : t[i] = t[j] => i = j
    <2> SUFFICES ASSUME NEW i \in 1 .. Len(t), NEW j \in 1 .. Len(t), t[i] = t[j] PROVE i = j
        OBVIOUS
    <2>1. CASE i = 1 \/ j = 1
        BY <1>4, <1>5, <1>7, <2>1
    <2>2. CASE i # 1 /\ j # 1
        <3>1. i - 1 = j - 1
            BY <1>5, <2>2 DEF Way
        <3> QED BY <1>4, <3>1
    <2> QED BY <2>1, <2>2
<1>9. \A i \in 1 .. Len(t) : t[i] \notin Elements(ordered)
    BY <1>1, <1>4, <1>5 DEF Way
<1>10. \A i \in 1 .. Len(t) - 1 : t[i] = Parent(t[i + 1])
    <2> SUFFICES ASSUME NEW i \in 1 .. Len(s) PROVE t[i] = Parent(t[i + 1])
        BY <1>3, <1>4
    <2>1. t[i + 1] = s[i]
        BY <1>4
    <2>2. CASE i = 1
        BY <1>3, <1>4, <2>1, <2>2 DEF p
    <2>3. CASE i # 1
        <3>1. i - 1 \in 1 .. Len(s) - 1 /\ (i - 1) + 1 = i /\ i \in 1 .. Len(t)
            BY <1>3, <1>4, <2>3
        <3>2. t[i] = s[i - 1]
            BY <1>5, <2>3, <3>1
        <3>3. s[i - 1] = Parent(s[i])
            BY <3>1 DEF Way
        <3> QED BY <2>1, <3>2, <3>3
    <2> QED BY <2>2, <2>3
<1> QED BY <1>2, <1>3, <1>4, <1>6, <1>8, <1>9, <1>10 DEF Way

\* up is the function that Visit(c) defines.
Climbs(up, c) ==
    /\ DOMAIN up = 0 .. Cardinality(model.classes)
    /\ up[0] = <<c>>
    /\ \A n \in 1 .. Cardinality(model.classes) : up[n] = Longer(up[n - 1])

LEMMA VisitClimbs ==
    ASSUME WellFormed(model), NEW c \in model.classes
    PROVE  \E up : Climbs(up, c) /\ Visit(c) = up[Cardinality(model.classes)]
<1> DEFINE N == Cardinality(model.classes)
           T == Seq(model.classes)
           Body(f, n) == IF n = 0 THEN <<c>>
                         ELSE LET p == Parent(Head(f[n - 1]))
                              IN  IF p = NoClass \/ p \in Elements(ordered) \cup Elements(f[n - 1])
                                  THEN f[n - 1] ELSE <<p>> \o f[n - 1]
           IsF(f) == f = [n \in 0 .. N |-> Body(f, n)]
           f == CHOOSE f : IsF(f)
           F == [n \in Nat |-> [s \in T |-> Longer(s)]]
<1>1. Visit(c) = f[N]
    BY DEF Visit
<1>2. N \in Nat /\ <<c>> \in T
    BY FS_CardinalityType, OneElement DEF WellFormed
<1>3. F \in StepFunctions(T)
    <2>1. \A s \in T : Longer(s) \in T
        BY LongerType
    <2> HIDE DEF T
    <2> QED BY <2>1 DEF StepFunctions
<1>4. \A g, n : Body(g, n) = IF n = 0 THEN <<c>> ELSE Longer(g[n - 1])
    BY DEF Longer, Complete
<1> HIDE DEF Body, N, T
<1>5. PICK g : Recursion(g, T, <<c>>, F, N)
    BY <1>2, <1>3, RecursionExists
<1>6. IsF(g)
    <2>1. g \in [0 .. N -> T] /\ g[0] = <<c>> /\ \A n \in 1 .. N : g[n] = F[n][g[n - 1]]
        BY <1>5 DEF Recursion
    <2>2. \A n \in 1 .. N : n \in Nat /\ n - 1 \in 0 .. N /\ n # 0
        BY <1>2
    <2>3. \A n \in 1 .. N : g[n] = Longer(g[n - 1])
        BY <2>1, <2>2
    <2>4. \A n \in 0 .. N : n = 0 \/ n \in 1 .. N
        BY <1>2
    <2>5. \A n \in 0 .. N : g[n] = Body(g, n)
        BY <1>4, <2>1, <2>2, <2>3, <2>4
    <2> QED BY <2>1, <2>5
<1>7. IsF(f)
    BY <1>6
<1> HIDE DEF f
<1>8. DOMAIN f = 0 .. N /\ \A n \in 0 .. N : f[n] = Body(f, n)
    BY <1>7
<1>9. 0 \in 0 .. N /\ \A n \in 1 .. N : n \in 0 .. N /\ n # 0
    BY <1>2
<1>10. f[0] = <<c>> /\ \A n \in 1 .. N : f[n] = Longer(f[n - 1])
    BY <1>4, <1>8, <1>9
<1> QED BY <1>1, <1>8, <1>10 DEF Climbs, N

\* _visit() puts before a class a way to it that is complete.
LEMMA VisitIsWay ==
    ASSUME WellFormed(model), NEW c \in model.classes, c \notin Elements(ordered)
    PROVE  Way(Visit(c), c) /\ Complete(Visit(c))
<1> DEFINE N == Cardinality(model.classes)
<1>1. PICK up : Climbs(up, c) /\ Visit(c) = up[N]
    BY VisitClimbs
<1>2. N \in Nat /\ IsFiniteSet(model.classes)
    BY FS_CardinalityType DEF WellFormed
<1> HIDE DEF N
<1>3. up[0] = <<c>> /\ \A n \in 1 .. N : up[n] = Longer(up[n - 1])
    BY <1>1 DEF Climbs, N
<1> DEFINE Good(n) == Way(up[n], c) /\ (Complete(up[n]) \/ Len(up[n]) = n + 1)
           Q == {n \in Nat : n <= N => Good(n)}
<1>4. 0 \in Q
    <2>1. <<c>> \in Seq(model.classes) /\ Len(<<c>>) = 1 /\ <<c>>[1] = c
        BY OneElement
    <2>2. Way(<<c>>, c)
        <3> DEFINE o == <<c>>
        <3> HIDE DEF o
        <3>1. o \in Seq(model.classes) /\ Len(o) = 1 /\ o[1] = c
            BY <2>1 DEF o
        <3>2. \A i \in 1 .. Len(o) : i = 1
            BY <3>1
        <3>3. \A i \in 1 .. Len(o) - 1 : FALSE
            BY <3>1
        <3>4. Way(o, c)
            BY <3>1, <3>2, <3>3 DEF Way
        <3> QED BY <3>4 DEF o
    <2> QED BY <1>3, <2>1, <2>2
<1>5. ASSUME NEW n \in Nat, n \in Q PROVE n + 1 \in Q
    <2> SUFFICES ASSUME n + 1 <= N PROVE Good(n + 1)
        OBVIOUS
    <2>1. n + 1 \in 1 .. N /\ (n + 1) - 1 = n /\ n <= N
        BY <1>2
    <2>2. up[n + 1] = Longer(up[n]) /\ Good(n)
        BY <1>3, <1>5, <2>1
    <2>3. CASE Complete(up[n])
        BY <2>2, <2>3 DEF Longer
    <2>4. CASE ~ Complete(up[n])
        <3>1. Way(up[n + 1], c) /\ Len(up[n + 1]) = Len(up[n]) + 1
            BY <2>2, <2>4, LongerWay
        <3> QED BY <2>2, <2>4, <3>1
    <2> QED BY <2>3, <2>4
<1> HIDE DEF Q
<1>6. N \in Q
    BY <1>2, <1>4, <1>5, Induction
<1>7. Good(N)
    BY <1>2, <1>6 DEF Q
<1>8. Len(up[N]) <= N
    <2>1. up[N] \in Seq(model.classes) /\ \A i, j \in 1 .. Len(up[N]) : up[N][i] = up[N][j] => i = j
        BY <1>7 DEF Way
    <2> QED BY <1>2, <2>1, NoRepetition DEF N
<1> QED BY <1>1, <1>2, <1>7, <1>8

\* Classes are ordered once, and, unless they are their own ancestors, after
\* their parents.
OrderInv ==
    /\ ordered \in Seq(model.classes)
    /\ \A i, j \in 1 .. Len(ordered) : ordered[i] = ordered[j] => i = j
    /\ Acyclic =>
          \A i \in 1 .. Len(ordered) :
             \/ Parent(ordered[i]) = NoClass
             \/ \E j \in 1 .. i - 1 : ordered[j] = Parent(ordered[i])

\* The first class of a complete way has no parent, or one that was ordered.
LEMMA CompleteWay ==
    ASSUME WellFormed(model), NEW c, NEW s, Way(s, c), Complete(s), Acyclic
    PROVE  Parent(s[1]) = NoClass \/ Parent(s[1]) \in Elements(ordered)
<1> SUFFICES ASSUME Parent(s[1]) # NoClass, Parent(s[1]) \notin Elements(ordered) PROVE FALSE
    OBVIOUS
<1>1. s \in Seq(model.classes) /\ Len(s) \in Nat /\ Len(s) > 0 /\ Head(s) = s[1] /\ DOMAIN s = 1 .. Len(s)
    BY DEF Way
<1>2. PICK k \in 1 .. Len(s) : s[k] = Parent(s[1])
    BY <1>1 DEF Complete, Elements
<1>3. PICK depth \in [model.classes -> 0 .. Cardinality(model.classes) - 1] :
         \A b \in model.classes : Parent(b) # NoClass => depth[Parent(b)] < depth[b]
    BY DEF Acyclic
<1>4. \A b \in model.classes : depth[b] \in Int
    BY <1>3
<1> DEFINE Q == {n \in Nat : n < Len(s) => depth[s[1]] <= depth[s[n + 1]]}
<1>5. \A i \in 1 .. Len(s) : s[i] \in model.classes
    BY <1>1
<1>6. 0 \in Q
    <2>1. 1 \in 1 .. Len(s)
        BY <1>1
    <2> QED BY <1>4, <1>5, <2>1
<1>7. ASSUME NEW n \in Nat, n \in Q PROVE n + 1 \in Q
    <2> SUFFICES ASSUME n + 1 < Len(s) PROVE depth[s[1]] <= depth[s[(n + 1) + 1]]
        OBVIOUS
    <2>1. /\ n + 1 \in 1 .. Len(s) - 1 /\ n + 1 \in 1 .. Len(s) /\ (n + 1) + 1 \in 1 .. Len(s)
          /\ n < Len(s) /\ 1 \in 1 .. Len(s)
        BY <1>1
    <2>2. s[n + 1] = Parent(s[(n + 1) + 1])
        BY <2>1 DEF Way
    <2>3. s[n + 1] \in model.classes /\ s[(n + 1) + 1] \in model.classes /\ s[1] \in model.classes
        BY <1>5, <2>1
    <2>4. s[n + 1] # NoClass
        BY <2>3 DEF WellFormed
    <2>5. depth[s[n + 1]] < depth[s[(n + 1) + 1]]
        BY <1>3, <2>2, <2>3, <2>4
    <2>6. depth[s[1]] <= depth[s[n + 1]]
        BY <1>7, <2>1
    <2> HIDE DEF Q
    <2> QED BY <1>4, <2>3, <2>5, <2>6
<1> HIDE DEF Q
<1>8. k - 1 \in Q /\ k - 1 \in Nat /\ k - 1 < Len(s) /\ (k - 1) + 1 = k /\ 1 \in 1 .. Len(s)
    <2>1. k - 1 \in Nat /\ k - 1 < Len(s) /\ (k - 1) + 1 = k /\ 1 \in 1 .. Len(s)
        BY <1>1
    <2> QED BY <1>6, <1>7, <2>1, Induction
<1>9. depth[s[1]] <= depth[s[k]]
    BY <1>8 DEF Q
<1>10. depth[s[k]] < depth[s[1]]
    BY <1>2, <1>3, <1>5, <1>8
<1> QED BY <1>4, <1>5, <1>8, <1>9, <1>10

\* The classes are ordered one way after another.
LEMMA OrderWay ==
    ASSUME WellFormed(model), OrderInv, NEW c, NEW s, Way(s, c), Complete(s),
           ordered' = ordered \o s, UNCHANGED model
    PROVE  OrderInv'
<1> DEFINE C == model.classes
           t == ordered'
           n == Len(ordered)
<1>1. /\ ordered \in Seq(C) /\ s \in Seq(C) /\ n \in Nat /\ Len(s) \in Nat
      /\ DOMAIN ordered = 1 .. n
    BY DEF OrderInv, Way
<1>2. t = ordered \o s
    OBVIOUS
<1> HIDE DEF C, t, n
<1>3. /\ t \in Seq(C) /\ Len(t) = n + Len(s)
      /\ \A i \in 1 .. n : t[i] = ordered[i]
      /\ \A i \in 1 .. Len(s) : t[n + i] = s[i]
    BY <1>1, <1>2, Concatenation DEF n
<1>4. \A i \in 1 .. Len(t) : i \in 1 .. n \/ (i - n \in 1 .. Len(s) /\ n + (i - n) = i)
    BY <1>1, <1>3
<1>5. \A i \in 1 .. Len(t) : i \notin 1 .. n => i - n \in 1 .. Len(s) /\ t[i] = s[i - n]
    <2> SUFFICES ASSUME NEW i \in 1 .. Len(t), i \notin 1 .. n
                 PROVE  i - n \in 1 .. Len(s) /\ t[i] = s[i - n]
        OBVIOUS
    <2>1. i - n \in 1 .. Len(s) /\ n + (i - n) = i
        BY <1>4
    <2> QED BY <1>3, <2>1
<1>6. \A i \in 1 .. Len(s) : \A j \in 1 .. n : s[i] # ordered[j]
    BY <1>1 DEF Way, Elements
<1>7. \A i, j \in 1 .. Len(t) : t[i] = t[j] => i = j
    <2> SUFFICES ASSUME NEW i \in 1 .. Len(t), NEW j \in 1 .. Len(t), t[i] = t[j] PROVE i = j
        OBVIOUS
    <2>1. CASE i \in 1 .. n /\ j \in 1 .. n
        BY <1>3, <2>1 DEF OrderInv, n
    <2>2. CASE i \in 1 .. n /\ j \notin 1 .. n
        BY <1>3, <1>5, <1>6, <2>2
    <2>3. CASE i \notin 1 .. n /\ j \in 1 .. n
        BY <1>3, <1>5, <1>6, <2>3
    <2>4. CASE i \notin 1 .. n /\ j \notin 1 .. n
        <3>1. i - n = j - n
            BY <1>5, <2>4 DEF Way
        <3> QED BY <1>1, <3>1
    <2> QED BY <2>1, <2>2, <2>3, <2>4
<1>8. ASSUME Acyclic, NEW i \in 1 .. Len(t), Parent(t[i]) # NoClass
      PROVE  \E j \in 1 .. i - 1 : t[j] = Parent(t[i])
    <2>1. CASE i \in 1 .. n
        <3>1. t[i] = ordered[i]
            BY <1>3, <2>1
        <3>2. PICK j \in 1 .. i - 1 : ordered[j] = Parent(ordered[i])
            BY <1>8, <2>1, <3>1 DEF OrderInv, n
        <3>3. j \in 1 .. n
            BY <1>1, <2>1
        <3> QED BY <1>3, <3>1, <3>2, <3>3
    <2>2. CASE i \notin 1 .. n
        <3> DEFINE k == i - n
        <3>1. k \in 1 .. Len(s) /\ t[i] = s[k] /\ i = n + k
            BY <1>1, <1>5, <2>2
        <3> HIDE DEF k
        <3>2. CASE k = 1
            <4>1. Parent(s[1]) \in Elements(ordered)
                BY <1>8, <3>1, <3>2, CompleteWay
            <4>2. PICK j \in 1 .. n : ordered[j] = Parent(s[1])
                BY <1>1, <4>1 DEF Elements
            <4>3. j \in 1 .. i - 1
                BY <1>1, <3>1, <3>2
            <4> QED BY <1>3, <3>1, <3>2, <4>2, <4>3
        <3>3. CASE k # 1
            <4>1. k - 1 \in 1 .. Len(s) - 1 /\ k - 1 \in 1 .. Len(s) /\ (k - 1) + 1 = k
                BY <1>1, <3>1, <3>3
            <4>2. s[k - 1] = Parent(s[k])
                BY <4>1 DEF Way
            <4> DEFINE m == k - 1
                       j == n + m
            <4>3. m \in 1 .. Len(s) /\ s[m] = Parent(s[k])
                BY <4>1, <4>2
            <4>4. j \in 1 .. i - 1
                BY <1>1, <3>1, <4>1
            <4> HIDE DEF m
            <4>5. t[j] = s[m]
                BY <1>3, <4>3
            <4> HIDE DEF j
            <4> QED BY <3>1, <4>3, <4>4, <4>5
        <3> QED BY <3>2, <3>3
    <2> QED BY <2>1, <2>2
<1>9. C' = C /\ (\A c1 : Parent(c1)' = Parent(c1)) /\ Acyclic' = Acyclic
    BY DEF Parent, Acyclic, C
<1>10. t \in Seq(C')
    BY <1>3, <1>9
<1> QED BY <1>7, <1>8, <1>9, <1>10 DEF OrderInv, t, C

\* The manifests are built in that order.
DefsInv ==
    /\ Cardinality(DOMAIN defs) \in 0 .. Len(ordered)
    /\ DOMAIN defs = {ordered[i] : i \in 1 .. Cardinality(DOMAIN defs)}
    /\ stage = "loaded" => DOMAIN defs # model.classes
    /\ DOMAIN defs = {} \/ model.classes = Elements(ordered)

LEMMA NoDefs == DOMAIN Empty = {} /\ Cardinality(DOMAIN Empty) = 0
BY FS_EmptySet DEF Empty

LEMMA OrderInit == CInit => OrderInv /\ DefsInv
<1> SUFFICES ASSUME CInit PROVE OrderInv /\ DefsInv
    OBVIOUS
<1>1. ordered = <<>> /\ defs = Empty /\ stage = "written"
    BY DEF CInit
<1>2. ordered \in Seq(model.classes) /\ Len(ordered) = 0
    BY <1>1
<1>3. OrderInv
    BY <1>2 DEF OrderInv
<1>4. DOMAIN defs = {} /\ Cardinality(DOMAIN defs) = 0
    BY <1>1, NoDefs
<1>5. DefsInv
    BY <1>1, <1>2, <1>4 DEF DefsInv
<1> QED BY <1>3, <1>5

\* The class whose turn it is was not built yet.
LEMMA BuiltNow ==
    ASSUME WellFormed(model), OrderInv, DefsInv, stage = "loaded",
           model.classes = Elements(ordered)
    PROVE  LET n == Cardinality(DOMAIN defs)
           IN  /\ n \in Nat /\ n + 1 \in 1 .. Len(ordered)
               /\ ordered[n + 1] \in model.classes /\ ordered[n + 1] \notin DOMAIN defs
               /\ DOMAIN defs \subseteq model.classes /\ IsFiniteSet(DOMAIN defs)
<1> DEFINE n == Cardinality(DOMAIN defs)
<1>1. /\ ordered \in Seq(model.classes) /\ Len(ordered) \in Nat /\ DOMAIN ordered = 1 .. Len(ordered)
      /\ n \in Nat /\ n <= Len(ordered)
    BY DEF OrderInv, DefsInv
<1> HIDE DEF n
<1>2. DOMAIN defs = {ordered[i] : i \in 1 .. n} /\ DOMAIN defs # model.classes
    BY DEF DefsInv, n
<1>3. n # Len(ordered)
    BY <1>1, <1>2 DEF Elements
<1>4. n + 1 \in 1 .. Len(ordered) /\ \A i \in 1 .. n : i \in 1 .. Len(ordered) /\ i # n + 1
    <2> DEFINE L == Len(ordered)
    <2>1. L \in Nat /\ n \in Nat /\ n <= L /\ n # L
        BY <1>1, <1>3
    <2> HIDE DEF L
    <2>2. n + 1 \in 1 .. L /\ \A i \in 1 .. n : i \in 1 .. L /\ i # n + 1
        BY <2>1
    <2> QED BY <2>2 DEF L
<1>5. ordered[n + 1] \in model.classes /\ DOMAIN defs \subseteq model.classes
    BY <1>1, <1>2, <1>4
<1>6. ordered[n + 1] \notin DOMAIN defs
    BY <1>2, <1>4 DEF OrderInv
<1>7. IsFiniteSet(DOMAIN defs)
    BY <1>5, FS_Subset DEF WellFormed
<1> QED BY <1>1, <1>4, <1>5, <1>6, <1>7 DEF n

-----------------------------------------------------------------------------
(* The machines *)

EntryType == [next : Target, guard : Guard \cup {NoGuard, Malformed}]

MachineType(m) ==
    /\ \A cell \in DOMAIN m.table : \E k \in Nat :
          /\ DOMAIN m.table[cell] = 1 .. k
          /\ \A i \in 1 .. k : m.table[cell][i] \in EntryType
    /\ m.initial \in Name \cup {NoState}
    /\ m.acting \subseteq Name

SameMachine(m, n) == m.table = n.table /\ m.initial = n.initial /\ m.final = n.final

TypesInv == \A c \in DOMAIN defs : MachineType(defs[c])

\* A class without a diagram has the machine of its parent, which was built
\* before it.
InheritInv ==
    Acyclic =>
        \A c \in DOMAIN defs \ DOMAIN model.diagrams :
            Parent(c) # NoClass =>
                /\ Parent(c) \in DOMAIN defs
                /\ DOMAIN defs[Parent(c)].table # {} => SameMachine(defs[c], defs[Parent(c)])

ClassesInv == OrderInv /\ DefsInv /\ TypesInv /\ InheritInv

LEMMA OwnType ==
    ASSUME NEW d \in Diagram, NEW cell \in Cells(d)
    PROVE  \E k \in Nat : /\ DOMAIN Entries(d, cell) = 1 .. k
                          /\ \A i \in 1 .. k : Entries(d, cell)[i] \in EntryType
<1> DEFINE ts == Siblings(d, cell)
           es == Entries(d, cell)
<1>1. /\ Len(ts) \in Nat /\ DOMAIN ts = 1 .. Len(ts) /\ DOMAIN es = 1 .. Len(ts)
      /\ \E h \in Bijection(1 .. Len(ts), 1 .. Len(ts)) :
            \A j \in 1 .. Len(ts) : es[j] = [next |-> ts[h[j]].to, guard |-> ts[h[j]].guard]
    BY EntriesPlaces
<1>2. ts \in Seq(Transition)
    BY SiblingsType
<1> HIDE DEF ts, es
<1>3. PICK h \in [1 .. Len(ts) -> 1 .. Len(ts)] :
         \A j \in 1 .. Len(ts) : es[j] = [next |-> ts[h[j]].to, guard |-> ts[h[j]].guard]
    BY <1>1 DEF Bijection, Injection
<1>4. ASSUME NEW j \in 1 .. Len(ts) PROVE es[j] \in EntryType
    <2> DEFINE t == ts[h[j]]
    <2>1. t \in Transition
        BY <1>2, <1>3
    <2>2. es[j] = [next |-> t.to, guard |-> t.guard]
        BY <1>3
    <2> HIDE DEF t
    <2> QED BY <2>1, <2>2 DEF Transition, EntryType, Target
<1> QED BY <1>1, <1>4 DEF es

LEMMA ManifestType ==
    ASSUME WellFormed(model), TypesInv, NEW c
    PROVE  MachineType(Manifest(c))
<1> DEFINE m == Manifest(c)
<1>1. m.table = Machine(c).table /\ m.initial = Machine(c).initial /\ m.acting = Machine(c).acting
    BY DEF Manifest
<1> HIDE DEF m
<1>2. CASE c \in DOMAIN model.diagrams
    <2> DEFINE d == model.diagrams[c]
    <2>1. d \in Diagram
        BY <1>2 DEF WellFormed
    <2>2. Machine(c) = [table |-> [cell \in Cells(d) |-> Entries(d, cell)], initial |-> d.initial,
                        final |-> FinalStates(d), acting |-> d.states]
        BY <1>2 DEF Machine
    <2> HIDE DEF d
    <2>3. /\ m.table = [cell \in Cells(d) |-> Entries(d, cell)]
          /\ m.initial = d.initial /\ m.acting = d.states
        BY <1>1, <2>2
    <2>4. d.initial \in Name /\ d.states \subseteq Name
        BY <2>1, DiagramParts
    <2>5. \A cell \in DOMAIN m.table : cell \in Cells(d) /\ m.table[cell] = Entries(d, cell)
        BY <2>3
    <2> QED BY <2>1, <2>3, <2>4, <2>5, OwnType DEF MachineType, m
<1>3. CASE c \notin DOMAIN model.diagrams
    <2>1. CASE Parent(c) \in DOMAIN defs /\ DOMAIN defs[Parent(c)].table # {}
        <3>1. Machine(c) = [table |-> defs[Parent(c)].table, initial |-> defs[Parent(c)].initial,
                            final |-> defs[Parent(c)].final, acting |-> defs[Parent(c)].acting]
            BY <1>3, <2>1 DEF Machine
        <3>2. /\ m.table = defs[Parent(c)].table /\ m.initial = defs[Parent(c)].initial
              /\ m.acting = defs[Parent(c)].acting
            BY <1>1, <3>1
        <3>3. MachineType(defs[Parent(c)])
            BY <2>1 DEF TypesInv
        <3> QED BY <3>2, <3>3 DEF MachineType, m
    <2>2. CASE ~ (Parent(c) \in DOMAIN defs /\ DOMAIN defs[Parent(c)].table # {})
        <3>1. Machine(c) = Entity
            BY <1>3, <2>2 DEF Machine
        <3>2. DOMAIN m.table = {} /\ m.initial = NoState /\ m.acting = {}
            BY <1>1, <3>1 DEF Entity, Empty
        <3> QED BY <3>2 DEF MachineType, m
    <2> QED BY <2>1, <2>2
<1> QED BY <1>2, <1>3

LEMMA ManifestInherits ==
    ASSUME NEW c, c \notin DOMAIN model.diagrams, Parent(c) \in DOMAIN defs,
           DOMAIN defs[Parent(c)].table # {}
    PROVE  SameMachine(Manifest(c), defs[Parent(c)])
<1>1. Machine(c) = [table |-> defs[Parent(c)].table, initial |-> defs[Parent(c)].initial,
                    final |-> defs[Parent(c)].final, acting |-> defs[Parent(c)].acting]
    BY DEF Machine
<1> QED BY <1>1 DEF Manifest, SameMachine

LEMMA OrderSame ==
    ASSUME OrderInv, UNCHANGED <<model, ordered>>
    PROVE  OrderInv' /\ Acyclic' = Acyclic /\ \A b : Parent(b)' = Parent(b)
<1>1. \A b : Parent(b)' = Parent(b)
    BY DEF Parent
<1>2. Acyclic' = Acyclic
    BY <1>1 DEF Acyclic
<1>3. OrderInv'
    <2>1. /\ ordered' \in Seq(model'.classes)
          /\ \A i, j \in 1 .. Len(ordered') : ordered'[i] = ordered'[j] => i = j
        BY DEF OrderInv
    <2>2. ASSUME Acyclic, NEW i \in 1 .. Len(ordered)
          PROVE  \/ Parent(ordered[i]) = NoClass
                 \/ \E j \in 1 .. i - 1 : ordered[j] = Parent(ordered[i])
        BY <2>2 DEF OrderInv
    <2> QED BY <1>1, <1>2, <2>1, <2>2 DEF OrderInv
<1> QED BY <1>1, <1>2, <1>3

LEMMA ClassesOrder == PipelineInv /\ ClassesInv /\ OrderNext => ClassesInv'
<1> SUFFICES ASSUME PipelineInv, ClassesInv, OrderNext PROVE ClassesInv'
    OBVIOUS
<1> DEFINE c == LeastOf(model.classes \ Elements(ordered))
<1>1. /\ UNCHANGED <<model, stage, defs>> /\ stage = "loaded"
      /\ model.classes # Elements(ordered)
      /\ ordered' = ordered \o Visit(c)
    BY DEF OrderNext
<1>2. WellFormed(model) /\ OrderInv /\ DefsInv
    BY DEF PipelineInv, WrittenInv, ClassesInv
<1>3. c \in model.classes /\ c \notin Elements(ordered)
    <2> DEFINE T == model.classes \ Elements(ordered)
    <2>1. T \subseteq Nat /\ T # {}
        BY <1>1, <1>2 DEF OrderInv, Elements, WellFormed
    <2>2. \E x \in T : \A y \in T : x <= y
        BY <2>1, LeastNumber
    <2>3. LeastOf(T) \in T
        BY <2>2 DEF LeastOf
    <2> QED BY <2>3
<1> HIDE DEF c
<1>4. Way(Visit(c), c) /\ Complete(Visit(c))
    BY <1>2, <1>3, VisitIsWay
<1>5. OrderInv'
    BY <1>1, <1>2, <1>4, OrderWay
<1>6. DOMAIN defs = {}
    BY <1>1, <1>2 DEF DefsInv
<1>7. DefsInv'
    <2>1. Cardinality(DOMAIN defs) = 0
        BY <1>6, FS_EmptySet
    <2>2. 0 \in 0 .. Len(ordered')
        BY <1>5 DEF OrderInv
    <2>3. DOMAIN defs = {ordered'[i] : i \in 1 .. 0}
        BY <1>6
    <2> QED BY <1>1, <1>2, <1>6, <2>1, <2>2, <2>3 DEF DefsInv
<1>8. TypesInv' /\ InheritInv'
    BY <1>1, <1>6 DEF TypesInv, InheritInv
<1> QED BY <1>5, <1>7, <1>8 DEF ClassesInv

LEMMA ClassesBuild == PipelineInv /\ ClassesInv /\ BuildNext => ClassesInv'
<1> SUFFICES ASSUME PipelineInv, ClassesInv, BuildNext PROVE ClassesInv'
    OBVIOUS
<1> DEFINE n == Cardinality(DOMAIN defs)
           c == ordered[n + 1]
<1>1. /\ UNCHANGED <<model, ordered>> /\ stage = "loaded" /\ model.classes = Elements(ordered)
      /\ \/ stage' = "crashed" /\ defs' = defs
         \/ /\ defs' = With(defs, c, Manifest(c))
            /\ stage' = IF DOMAIN defs' = model.classes THEN "built" ELSE "loaded"
    BY DEF BuildNext
<1>2. WellFormed(model) /\ OrderInv /\ DefsInv /\ TypesInv /\ InheritInv
    BY DEF PipelineInv, WrittenInv, ClassesInv
<1>3. /\ n \in Nat /\ n + 1 \in 1 .. Len(ordered)
      /\ c \in model.classes /\ c \notin DOMAIN defs
      /\ DOMAIN defs \subseteq model.classes /\ IsFiniteSet(DOMAIN defs)
    BY <1>1, <1>2, BuiltNow
<1>4. OrderInv' /\ Acyclic' = Acyclic /\ \A b : Parent(b)' = Parent(b)
    BY <1>1, <1>2, OrderSame
<1>5. DOMAIN defs = {ordered[i] : i \in 1 .. n}
    BY <1>2 DEF DefsInv
<1>6. CASE stage' = "crashed" /\ defs' = defs
    <2>1. DefsInv'
        BY <1>1, <1>2, <1>6 DEF DefsInv
    <2>2. TypesInv'
        <3>1. \A b \in DOMAIN defs : MachineType(defs'[b])
            BY <1>2, <1>6 DEF TypesInv
        <3> QED BY <1>6, <3>1 DEF TypesInv, MachineType
    <2>3. InheritInv'
        BY <1>1, <1>2, <1>4, <1>6 DEF InheritInv
    <2> QED BY <1>4, <2>1, <2>2, <2>3 DEF ClassesInv
<1>7. CASE /\ defs' = With(defs, c, Manifest(c))
           /\ stage' = IF DOMAIN defs' = model.classes THEN "built" ELSE "loaded"
    <2> DEFINE made == Manifest(c)
    <2> HIDE DEF n, c, made
    <2>1. /\ DOMAIN defs' = DOMAIN defs \cup {c} /\ defs'[c] = made
          /\ \A b \in DOMAIN defs : b # c /\ defs'[b] = defs[b]
        BY <1>3, <1>7 DEF With, made
    <2>2. Cardinality(DOMAIN defs') = n + 1
        BY <1>3, <2>1, FS_AddElement DEF n
    <2>3. DefsInv'
        <3>1. 1 .. n + 1 = (1 .. n) \cup {n + 1}
            BY <1>3
        <3>2. DOMAIN defs' = {ordered[i] : i \in 1 .. n + 1}
            BY <1>5, <2>1, <3>1 DEF c
        <3>3. n + 1 \in 0 .. Len(ordered)
            BY <1>3
        <3> QED BY <1>1, <1>7, <2>2, <3>2, <3>3 DEF DefsInv, Elements
    <2>4. TypesInv'
        <3>1. MachineType(made)
            BY <1>2, ManifestType DEF made
        <3>2. \A b \in DOMAIN defs' : MachineType(defs'[b])
            BY <1>2, <2>1, <3>1 DEF TypesInv
        <3> QED BY <3>2 DEF TypesInv, MachineType
    <2>5. InheritInv'
        <3> SUFFICES ASSUME Acyclic, NEW b \in DOMAIN defs' \ DOMAIN model.diagrams,
                            Parent(b) # NoClass
                     PROVE  /\ Parent(b) \in DOMAIN defs'
                            /\ DOMAIN defs'[Parent(b)].table # {}
                                  => SameMachine(defs'[b], defs'[Parent(b)])
            BY <1>1, <1>4 DEF InheritInv, SameMachine
        <3>1. CASE b = c
            <4>1. PICK j \in 1 .. n : ordered[j] = Parent(c)
                <5>1. \E j \in 1 .. (n + 1) - 1 : ordered[j] = Parent(c)
                    BY <1>2, <1>3, <3>1 DEF OrderInv, c
                <5>2. 1 .. (n + 1) - 1 = 1 .. n
                    BY <1>3
                <5> QED BY <5>1, <5>2
            <4>2. Parent(c) \in DOMAIN defs
                BY <1>5, <4>1
            <4>3. DOMAIN defs[Parent(c)].table # {} => SameMachine(made, defs[Parent(c)])
                BY <3>1, <4>2, ManifestInherits DEF made
            <4> QED BY <2>1, <3>1, <4>2, <4>3
        <3>2. CASE b # c
            <4>1. b \in DOMAIN defs
                BY <2>1, <3>2
            <4>2. /\ Parent(b) \in DOMAIN defs
                  /\ DOMAIN defs[Parent(b)].table # {} => SameMachine(defs[b], defs[Parent(b)])
                BY <1>2, <4>1 DEF InheritInv
            <4> QED BY <2>1, <4>1, <4>2
        <3> QED BY <3>1, <3>2
    <2> QED BY <1>4, <2>3, <2>4, <2>5 DEF ClassesInv
<1> QED BY <1>1, <1>6, <1>7

LEMMA ClassesSame ==
    ASSUME PipelineInv, ClassesInv, UNCHANGED <<model, ordered, defs>>,
           stage' = "loaded" => stage \in {"written", "loaded"}
    PROVE  ClassesInv'
<1>1. OrderInv' /\ Acyclic' = Acyclic /\ \A b : Parent(b)' = Parent(b)
    BY OrderSame DEF ClassesInv
<1>2. DefsInv'
    <2>1. CASE stage = "written"
        <3>1. DOMAIN defs = {}
            BY <2>1, NoDefs DEF PipelineInv, BuiltInv
        <3>2. DOMAIN defs # model.classes
            BY <3>1 DEF PipelineInv, WrittenInv, WellFormed
        <3> QED BY <3>2 DEF ClassesInv, DefsInv
    <2>2. CASE stage # "written"
        BY <2>2 DEF ClassesInv, DefsInv
    <2> QED BY <2>1, <2>2
<1>3. TypesInv'
    <2>1. \A b \in DOMAIN defs : MachineType(defs'[b])
        BY DEF ClassesInv, TypesInv
    <2> QED BY <2>1 DEF TypesInv, MachineType
<1>4. InheritInv'
    BY <1>1 DEF ClassesInv, InheritInv, SameMachine
<1> QED BY <1>1, <1>2, <1>3, <1>4 DEF ClassesInv

LEMMA ClassesInit == CInit => ClassesInv
<1> SUFFICES ASSUME CInit PROVE ClassesInv
    OBVIOUS
<1>1. DOMAIN defs = {}
    BY NoDefs DEF CInit
<1> QED BY <1>1, OrderInit DEF ClassesInv, TypesInv, InheritInv

LEMMA ClassesNext == PipelineInv /\ ClassesInv /\ [CNext]_vars => ClassesInv'
<1> SUFFICES ASSUME PipelineInv, ClassesInv, [CNext]_vars PROVE ClassesInv'
    OBVIOUS
<1>1. CASE OrderNext
    BY <1>1, ClassesOrder
<1>2. CASE BuildNext
    BY <1>2, ClassesBuild
<1>3. CASE Validate \/ LoadModel
    <2>1. UNCHANGED <<model, ordered, defs>> /\ stage = "written"
        BY <1>3 DEF Validate, LoadModel
    <2> QED BY <2>1, ClassesSame
<1>4. CASE GenerateNext \/ LoadBundle \/ CreateObject \/ Receive
    <2>1. UNCHANGED <<model, ordered, defs>> /\ stage' # "loaded"
        BY <1>4 DEF GenerateNext, LoadBundle, CreateObject, Receive
    <2> QED BY <2>1, ClassesSame
<1>5. CASE UNCHANGED vars
    <2>1. UNCHANGED <<model, ordered, defs, stage>>
        BY <1>5 DEF vars
    <2> QED BY <2>1, ClassesSame
<1> QED BY <1>1, <1>2, <1>3, <1>4, <1>5 DEF CNext

LEMMA ClassesHold == CSpec => []ClassesInv
BY ClassesInit, ClassesNext, PipelineHolds, PTL DEF CSpec

-----------------------------------------------------------------------------
(* The modules, and what an instance does with its table *)

LEMMA DefsAreClasses ==
    ASSUME ClassesInv
    PROVE  DOMAIN defs \subseteq model.classes
<1>1. /\ DOMAIN ordered = 1 .. Len(ordered) /\ Len(ordered) \in Nat
      /\ \A i \in 1 .. Len(ordered) : ordered[i] \in model.classes
    BY DEF ClassesInv, OrderInv
<1> DEFINE n == Cardinality(DOMAIN defs)
<1>2. n \in 0 .. Len(ordered) /\ DOMAIN defs = {ordered[i] : i \in 1 .. n}
    BY DEF ClassesInv, DefsInv
<1> HIDE DEF n
<1>3. \A i \in 1 .. n : i \in 1 .. Len(ordered)
    BY <1>1, <1>2
<1> QED BY <1>1, <1>2, <1>3

CellType == [next : Target, guard : Guard \cup {NoGuard}, action : Name \cup {NoState}]

LEMMA GeneratedType ==
    ASSUME NEW m, MachineType(m), NEW cell \in DOMAIN m.table,
           NEW i \in DOMAIN Generated(m)[cell]
    PROVE  Generated(m)[cell][i] \in CellType
<1> DEFINE es == m.table[cell]
           action == CellAction(es, m.acting)
<1>1. PICK k \in Nat : DOMAIN es = 1 .. k /\ \A j \in 1 .. k : es[j] \in EntryType
    BY DEF MachineType
<1>2. Generated(m)[cell] = [j \in DOMAIN es |->
          [next |-> es[j].next, guard |-> Compiled(GuardOf(es, j)), action |-> action]]
    BY DEF Generated
<1> HIDE DEF es, action
<1>3. i \in 1 .. k
    BY <1>1, <1>2
<1>4. Generated(m)[cell][i] =
          [next |-> es[i].next, guard |-> Compiled(es[i].guard), action |-> action]
    BY <1>1, <1>2, <1>3 DEF GuardOf
<1>5. es[i].next \in Target /\ es[i].guard \in Guard \cup {NoGuard, Malformed}
    BY <1>1, <1>3 DEF EntryType
<1>6. Compiled(es[i].guard) \in Guard \cup {NoGuard}
    <2>1. [names |-> TRUE, linear |-> TRUE, when |-> Value \X Value] \in Guard
        BY DEF Guard
    <2> QED BY <1>5, <2>1 DEF Compiled
<1>7. action \in Name \cup {NoState}
    <2> DEFINE is == {j \in DOMAIN es : es[j].next \in m.acting}
    <2>1. action = IF is = {} THEN NoState ELSE es[GreatestOf(is)].next
        BY DEF action, CellAction
    <2>2. CASE is # {}
        <3>1. is \subseteq Nat /\ is \subseteq 1 .. k
            BY <1>1
        <3>2. IsFiniteSet(is)
            BY <3>1, IntervalSize, FS_Subset
        <3>3. \A j \in is : es[j].next \in m.acting
            OBVIOUS
        <3> HIDE DEF is
        <3>4. \E x \in is : \A y \in is : y <= x
            BY <2>2, <3>1, <3>2, GreatestNumber
        <3>5. GreatestOf(is) \in is
            BY <3>4 DEF GreatestOf
        <3>6. es[GreatestOf(is)].next \in m.acting
            BY <3>3, <3>5
        <3>7. m.acting \subseteq Name
            BY DEF MachineType
        <3> QED BY <2>1, <2>2, <3>6, <3>7
    <2>3. CASE is = {}
        BY <2>1, <2>3
    <2> QED BY <2>2, <2>3
<1> QED BY <1>4, <1>5, <1>6, <1>7 DEF CellType

\* Modules are of classes, and a class is missing as long as they are made.
CodeInv ==
    /\ DOMAIN code \subseteq model.classes
    /\ stage = "built" => DOMAIN code # model.classes

\* What an instance is, and where.
ObjectInv ==
    /\ stage \in {"running", "deleted"} => object \in model.classes
    /\ current \in Target \cup {NoState}
    /\ ran \in Name \cup {NoState}

\* What the engine does with a cell that has an event.
LEMMA EngineType ==
    ASSUME PipelineInv, ClassesInv, InEngine, NEW c \in model.classes,
           NEW s, NEW e \in Signal, <<s, e>> \in DOMAIN tables[c]
    PROVE  LET es == tables[c][<<s, e>>]
           IN  /\ \E k \in Nat : DOMAIN es = 1 .. k
               /\ \A i \in DOMAIN es : es[i] \in CellType
<1> DEFINE key == <<s, e>>
           m == defs[c]
<1>1. key[2] # NoneText /\ key[2] # NoEvent
    BY NoEventIsCalledNone, MarksAreNoNames
<1>2. c \in DOMAIN defs /\ c \in DOMAIN code
    BY DEF PipelineInv, BuiltInv, Built, GeneratedInv, InEngine
<1>3. MachineType(m) /\ code[c] = Generated(m)
    BY <1>2 DEF ClassesInv, TypesInv, PipelineInv, GeneratedInv, Built
<1>4. /\ DOMAIN tables[c] = {Reread(cell) : cell \in DOMAIN m.table}
      /\ key \in DOMAIN code[c] => tables[c][key] = code[c][key]
    BY DEF PipelineInv, TablesInv
<1> HIDE DEF key, m
<1>5. PICK cell \in DOMAIN m.table : key = Reread(cell)
    BY <1>4 DEF key
<1>6. key = cell
    <2>1. cell[2] # NoEvent
        <3> SUFFICES ASSUME cell[2] = NoEvent PROVE FALSE
            OBVIOUS
        <3>1. key = <<cell[1], NoneText>>
            BY <1>5 DEF Reread
        <3> QED BY <1>1, <3>1
    <2> QED BY <1>5, <2>1 DEF Reread
<1>7. key \in DOMAIN m.table /\ key \in DOMAIN Generated(m)
    BY <1>6 DEF Generated
<1>8. tables[c][key] = Generated(m)[key]
    BY <1>3, <1>4, <1>7
<1>9. \E k \in Nat : DOMAIN Generated(m)[key] = 1 .. k
    <2>1. \E k \in Nat : DOMAIN m.table[key] = 1 .. k
        BY <1>3, <1>7 DEF MachineType
    <2>2. DOMAIN Generated(m)[key] = DOMAIN m.table[key]
        BY <1>7 DEF Generated
    <2> QED BY <2>1, <2>2
<1>10. \A i \in DOMAIN Generated(m)[key] : Generated(m)[key][i] \in CellType
    BY <1>3, <1>7, GeneratedType
<1> QED BY <1>8, <1>9, <1>10 DEF key

LEMMA ObjectInit == CInit => CodeInv /\ ObjectInv
<1> SUFFICES ASSUME CInit PROVE CodeInv /\ ObjectInv
    OBVIOUS
<1>1. DOMAIN code = {} /\ stage = "written" /\ current = NoState /\ ran = NoState
    BY NoDefs DEF CInit
<1> QED BY <1>1 DEF CodeInv, ObjectInv

LEMMA CodeNext == PipelineInv /\ ClassesInv /\ CodeInv /\ [CNext]_vars => CodeInv'
<1> SUFFICES ASSUME PipelineInv, ClassesInv, CodeInv, [CNext]_vars PROVE CodeInv'
    OBVIOUS
<1>1. CASE GenerateNext
    <2> DEFINE T == model.classes \ DOMAIN code
               c == LeastOf(T)
    <2>1. /\ UNCHANGED model /\ stage = "built" /\ code' = With(code, c, Generated(defs[c]))
          /\ stage' = IF DOMAIN code' = model.classes THEN "generated" ELSE "built"
        BY <1>1 DEF GenerateNext
    <2>2. T \subseteq Nat /\ T # {}
        BY <2>1 DEF CodeInv, PipelineInv, WrittenInv, WellFormed
    <2> HIDE DEF T
    <2>3. \E x \in T : \A y \in T : x <= y
        BY <2>2, LeastNumber
    <2>4. c \in T
        BY <2>3 DEF LeastOf
    <2> HIDE DEF c
    <2>5. DOMAIN code' = DOMAIN code \cup {c}
        BY <2>1 DEF With
    <2> QED BY <2>1, <2>4, <2>5 DEF CodeInv, T
<1>2. CASE BuildNext
    <2>1. UNCHANGED <<model, code>> /\ DOMAIN code = {} /\ model.classes # {}
        BY <1>2, NoDefs DEF BuildNext, PipelineInv, GeneratedInv, Built, WrittenInv, WellFormed
    <2> QED BY <2>1 DEF CodeInv
<1>3. CASE Validate \/ LoadModel \/ OrderNext \/ LoadBundle \/ CreateObject \/ Receive \/ UNCHANGED vars
    <2>1. UNCHANGED <<model, code>> /\ (stage' = "built" => stage = "built")
        BY <1>3 DEF Validate, LoadModel, OrderNext, LoadBundle, CreateObject, Receive, vars
    <2> QED BY <2>1 DEF CodeInv
<1> QED BY <1>1, <1>2, <1>3 DEF CNext

LEMMA ObjectNext == PipelineInv /\ ClassesInv /\ ObjectInv /\ [CNext]_vars => ObjectInv'
<1> SUFFICES ASSUME PipelineInv, ClassesInv, ObjectInv, [CNext]_vars PROVE ObjectInv'
    OBVIOUS
<1>1. CASE CreateObject
    <2>1. PICK c \in model.classes : object' = c /\ current' = defs[c].initial
        BY <1>1 DEF CreateObject
    <2>2. UNCHANGED <<model, ran>> /\ InEngine
        BY <1>1 DEF CreateObject, InEngine
    <2>3. c \in DOMAIN defs
        BY <2>2 DEF PipelineInv, BuiltInv, Built, InEngine
    <2>4. defs[c].initial \in Name \cup {NoState}
        BY <2>3 DEF ClassesInv, TypesInv, MachineType
    <2> QED BY <2>1, <2>2, <2>4 DEF ObjectInv, Target
<1>2. CASE Receive
    <2>1. PICK e \in Signal, v \in Value, w \in Value :
             /\ <<current, e>> \in DOMAIN tables[object]
             /\ LET es == tables[object][<<current, e>>]
                IN  \E i \in Choice(es, v, w) : current' = es[i].next /\ ran' = es[i].action
        BY <1>2 DEF Receive
    <2> DEFINE es == tables[object][<<current, e>>]
    <2>2. PICK i \in Choice(es, v, w) : current' = es[i].next /\ ran' = es[i].action
        BY <2>1
    <2>3. InEngine /\ object \in model.classes /\ UNCHANGED <<model, object>>
        BY <1>2 DEF Receive, InEngine, ObjectInv
    <2>4. (\E k \in Nat : DOMAIN es = 1 .. k) /\ \A j \in DOMAIN es : es[j] \in CellType
        BY <2>1, <2>3, EngineType
    <2> HIDE DEF es
    <2>5. i \in DOMAIN es
        BY <2>2, <2>4, ChoiceIsEntry
    <2>6. es[i].next \in Target /\ es[i].action \in Name \cup {NoState}
        BY <2>4, <2>5 DEF CellType
    <2> QED BY <2>2, <2>3, <2>6 DEF ObjectInv
<1>3. CASE Validate \/ LoadModel \/ OrderNext \/ BuildNext \/ GenerateNext \/ LoadBundle \/ UNCHANGED vars
    <2>1. /\ UNCHANGED <<model, object, current, ran>>
          /\ stage' \in {"running", "deleted"} => stage \in {"running", "deleted"}
        BY <1>3 DEF Validate, LoadModel, OrderNext, BuildNext, GenerateNext, LoadBundle, vars
    <2> QED BY <2>1 DEF ObjectInv
<1> QED BY <1>1, <1>2, <1>3 DEF CNext

LEMMA ObjectHolds == CSpec => [](CodeInv /\ ObjectInv)
BY ObjectInit, CodeNext, ObjectNext, PipelineHolds, ClassesHold, PTL DEF CSpec

\* Of what validation accepted: final states have no cell, and events lead to
\* states of the diagram.
LEMMA AcceptedTable ==
    ASSUME PipelineInv, InEngine, Accepted, NEW c \in model.active \cap DOMAIN model.diagrams,
           NEW cell \in DOMAIN tables[c]
    PROVE  /\ cell[1] \notin defs[c].final
           /\ cell[2] # NoneText =>
                 \A i \in DOMAIN tables[c][cell] : tables[c][cell][i].next \in defs[c].acting
<1> DEFINE d == model.diagrams[c]
<1>1. /\ d \in Diagram /\ SchemaOK(d) /\ UnknownTargets(d) = {}
    BY AcceptedDiagram
<1>2. c \in model.classes /\ c \in DOMAIN defs
    BY DEF PipelineInv, WrittenInv, WellFormed, BuiltInv, Built, InEngine
<1>3. OwnMachine(c, d)
    BY <1>2 DEF PipelineInv, BuiltInv
<1>4. /\ defs[c].final = FinalStates(d) /\ defs[c].acting = d.states
      /\ DOMAIN defs[c].table = Cells(d)
    BY <1>3 DEF OwnMachine
<1>5. DOMAIN tables[c] = {Reread(k) : k \in Cells(d)}
    BY <1>2, <1>4 DEF PipelineInv, TablesInv
<1>6. PICK k \in Cells(d) : cell = Reread(k)
    BY <1>5
<1>7. cell[1] = k[1]
    BY <1>6 DEF Reread
<1>8. PICK t \in Transitions(d) : k = <<t.from, t.event>>
    BY DEF Cells
<1>9. cell[1] \notin defs[c].final
    BY <1>4, <1>7, <1>8 DEF FinalStates
<1>10. ASSUME cell[2] # NoneText, NEW i \in DOMAIN tables[c][cell]
       PROVE  tables[c][cell][i].next \in defs[c].acting
    <2>1. cell \in Cells(d) /\ cell[2] # NoEvent
        BY <1>10, EngineTable
    <2> DEFINE ts == Siblings(d, cell)
               es == tables[c][cell]
    <2>2. /\ Len(ts) \in Nat /\ DOMAIN ts = 1 .. Len(ts) /\ DOMAIN es = 1 .. Len(ts)
          /\ \E h \in Bijection(1 .. Len(ts), 1 .. Len(ts)) :
                \A j \in 1 .. Len(ts) :
                   es[j].next = ts[h[j]].to /\ es[j].guard = Compiled(ts[h[j]].guard)
        BY <2>1, EngineCell
    <2>3. \A j \in DOMAIN ts : ts[j] \in Transitions(d) /\ ts[j].event = cell[2]
        BY <1>1, SiblingsType
    <2> HIDE DEF ts, es, d
    <2>4. PICK h \in [1 .. Len(ts) -> 1 .. Len(ts)] :
             \A j \in 1 .. Len(ts) : es[j].next = ts[h[j]].to
        BY <2>2 DEF Bijection, Injection
    <2> DEFINE u == ts[h[i]]
    <2>5. u \in Transitions(d) /\ u.event = cell[2] /\ es[i].next = u.to
        BY <1>10, <2>2, <2>3, <2>4 DEF es
    <2> HIDE DEF u
    <2>6. u.to # Terminal
        BY <1>1, <2>1, <2>5 DEF SchemaOK
    <2>7. u.to \in d.states
        BY <1>1, <2>5, <2>6 DEF UnknownTargets
    <2> QED BY <1>4, <2>5, <2>7 DEF es
<1> QED BY <1>9, <1>10

LEMMA TypesInvariant == PipelineInv /\ ClassesInv /\ CodeInv /\ ObjectInv => CompilerTypeOK
<1> SUFFICES ASSUME PipelineInv, ClassesInv, CodeInv, ObjectInv PROVE CompilerTypeOK
    OBVIOUS
<1>1. ordered \in Seq(model.classes)
    BY DEF ClassesInv, OrderInv
<1>2. DOMAIN defs \subseteq model.classes
    BY DefsAreClasses
<1>3. ASSUME NEW c \in DOMAIN code, NEW cell \in DOMAIN code[c], NEW i \in DOMAIN code[c][cell]
      PROVE  code[c][cell][i] \in CellType
    <2>1. code # Empty
        BY <1>3, NoDefs
    <2>2. code[c] = Generated(defs[c])
        BY DEF PipelineInv, GeneratedInv, Built
    <2>3. c \in DOMAIN defs
        <3>1. Built
            BY <2>1 DEF PipelineInv, WrittenInv, Stages, GeneratedInv, Built
        <3> QED BY <3>1 DEF PipelineInv, BuiltInv, CodeInv
    <2>4. MachineType(defs[c])
        BY <2>3 DEF ClassesInv, TypesInv
    <2>5. cell \in DOMAIN defs[c].table
        BY <1>3, <2>2 DEF Generated
    <2> QED BY <1>3, <2>2, <2>4, <2>5, GeneratedType
<1>4. ASSUME InEngine, Accepted, NEW c \in model.active \cap DOMAIN model.diagrams,
             NEW cell \in DOMAIN tables[c]
      PROVE  /\ cell[1] \notin defs[c].final
             /\ cell[2] # NoneText =>
                   \A i \in DOMAIN tables[c][cell] : tables[c][cell][i].next \in defs[c].acting
    BY <1>4, AcceptedTable
<1> QED BY <1>1, <1>2, <1>3, <1>4 DEF CompilerTypeOK, CodeInv, ObjectInv, CellType

\* What each stage of the compiler hands on has its type, whatever the model;
\* and the tables of diagrams that validation accepted are such as the engine
\* takes them to be.
THEOREM CompilerTypes == CSpec => []CompilerTypeOK
BY PipelineHolds, ClassesHold, ObjectHolds, TypesInvariant, PTL

-----------------------------------------------------------------------------
(* The machine of the nearest ancestor *)

\* A way up from c: each class is followed by its parent.
Line(s, c) ==
    /\ s \in Seq(model.classes) /\ Len(s) > 0 /\ s[1] = c
    /\ \A i \in 1 .. Len(s) - 1 : s[i + 1] = Parent(s[i])

Higher(s) == IF Parent(s[Len(s)]) = NoClass THEN s ELSE Append(s, Parent(s[Len(s)]))

LEMMA HigherType ==
    ASSUME WellFormed(model), NEW s \in Seq(model.classes)
    PROVE  Higher(s) \in Seq(model.classes)
<1> DEFINE p == Parent(s[Len(s)])
           C == model.classes
<1>1. p \in C \cup {NoClass} /\ s \in Seq(C) /\ Higher(s) = IF p = NoClass THEN s ELSE Append(s, p)
    BY ParentType DEF Higher
<1> HIDE DEF p, C
<1>2. Higher(s) \in Seq(C)
    BY <1>1
<1> QED BY <1>2 DEF C

LEMMA HigherLine ==
    ASSUME WellFormed(model), NEW c, NEW s, Line(s, c)
    PROVE  Line(Higher(s), c)
<1> DEFINE p == Parent(s[Len(s)])
           C == model.classes
           t == Higher(s)
           n == Len(s)
<1>1. CASE p = NoClass
    BY <1>1 DEF Higher
<1>2. CASE p # NoClass
    <2>1. p \in C /\ s \in Seq(C) /\ n \in Nat /\ n > 0 /\ s[1] = c /\ t = Append(s, p)
        BY <1>2, ParentType DEF Higher, Line
    <2>2. \A i \in 1 .. n - 1 : s[i + 1] = Parent(s[i])
        BY DEF Line
    <2> HIDE DEF C, t
    <2>3. t \in Seq(C) /\ Len(t) = n + 1 /\ t[n + 1] = p /\ \A i \in 1 .. n : t[i] = s[i]
        <3> HIDE DEF p
        <3> QED BY ONLY <2>1, OneAfter DEF n
    <2>4. ASSUME NEW i \in 1 .. n PROVE t[i + 1] = Parent(t[i])
        <3>1. CASE i = n
            BY <2>1, <2>3, <3>1
        <3>2. CASE i # n
            <4>1. i \in 1 .. n - 1 /\ i + 1 \in 1 .. n
                BY <2>1, <3>2
            <4> QED BY <2>2, <2>3, <4>1
        <3> QED BY <3>1, <3>2
    <2>5. Len(t) - 1 = n /\ Len(t) > 0 /\ 1 \in 1 .. n
        BY <2>1, <2>3
    <2>6. t[1] = c
        BY <2>1, <2>3, <2>5
    <2> QED BY <2>3, <2>4, <2>5, <2>6 DEF Line, C, t
<1> QED BY <1>1, <1>2

LEMMA AncestorsLine ==
    ASSUME WellFormed(model), NEW c \in model.classes
    PROVE  Line(Ancestors(c), c)
<1> DEFINE N == Cardinality(model.classes)
           T == Seq(model.classes)
           Body(f, n) == IF n = 0 THEN <<c>>
                         ELSE LET p == Parent(f[n - 1][Len(f[n - 1])])
                              IN  IF p = NoClass THEN f[n - 1] ELSE Append(f[n - 1], p)
           IsF(f) == f = [n \in 0 .. N |-> Body(f, n)]
           f == CHOOSE f : IsF(f)
           F == [n \in Nat |-> [s \in T |-> Higher(s)]]
<1>1. Ancestors(c) = f[N]
    BY DEF Ancestors
<1>2. N \in Nat /\ <<c>> \in T
    BY FS_CardinalityType, OneElement DEF WellFormed
<1>3. F \in StepFunctions(T)
    <2>1. \A s \in T : Higher(s) \in T
        BY HigherType
    <2> HIDE DEF T
    <2> QED BY <2>1 DEF StepFunctions
<1>4. \A g, n : Body(g, n) = IF n = 0 THEN <<c>> ELSE Higher(g[n - 1])
    BY DEF Higher
<1> HIDE DEF Body, N, T
<1>5. PICK g : Recursion(g, T, <<c>>, F, N)
    BY <1>2, <1>3, RecursionExists
<1>6. IsF(g)
    <2>1. g \in [0 .. N -> T] /\ g[0] = <<c>> /\ \A n \in 1 .. N : g[n] = F[n][g[n - 1]]
        BY <1>5 DEF Recursion
    <2>2. \A n \in 1 .. N : n \in Nat /\ n - 1 \in 0 .. N /\ n # 0
        BY <1>2
    <2>3. \A n \in 1 .. N : g[n] = Higher(g[n - 1])
        BY <2>1, <2>2
    <2>4. \A n \in 0 .. N : n = 0 \/ n \in 1 .. N
        BY <1>2
    <2>5. \A n \in 0 .. N : g[n] = Body(g, n)
        BY <1>4, <2>1, <2>2, <2>3, <2>4
    <2> QED BY <2>1, <2>5
<1>7. IsF(f)
    BY <1>6
<1> HIDE DEF f
<1>8. DOMAIN f = 0 .. N /\ \A n \in 0 .. N : f[n] = Body(f, n)
    BY <1>7
<1>9. 0 \in 0 .. N /\ \A n \in 1 .. N : n \in 0 .. N /\ n # 0
    BY <1>2
<1>10. f[0] = <<c>> /\ \A n \in 1 .. N : f[n] = Higher(f[n - 1])
    BY <1>4, <1>8, <1>9
<1> DEFINE Q == {n \in Nat : n <= N => Line(f[n], c)}
<1>11. 0 \in Q
    <2> DEFINE o == <<c>>
    <2>1. o \in Seq(model.classes) /\ Len(o) = 1 /\ o[1] = c
        BY OneElement
    <2> HIDE DEF o
    <2>2. \A i \in 1 .. Len(o) - 1 : FALSE
        BY <2>1
    <2>3. Line(o, c)
        BY <2>1, <2>2 DEF Line
    <2> QED BY <1>10, <2>3 DEF o
<1>12. ASSUME NEW n \in Nat, n \in Q PROVE n + 1 \in Q
    <2> SUFFICES ASSUME n + 1 <= N PROVE Line(f[n + 1], c)
        OBVIOUS
    <2>1. n + 1 \in 1 .. N /\ (n + 1) - 1 = n /\ n <= N
        BY <1>2
    <2>2. f[n + 1] = Higher(f[n]) /\ Line(f[n], c)
        BY <1>10, <1>12, <2>1
    <2> QED BY <2>2, HigherLine
<1> HIDE DEF Q
<1>13. N \in Q
    BY <1>2, <1>11, <1>12, Induction
<1> QED BY <1>1, <1>2, <1>13 DEF Q

LEMMA InheritedMachine ==
    ASSUME PipelineInv, ClassesInv, Built, Acyclic, NEW c \in model.classes,
           NEW up, Line(up, c), NEW k \in 1 .. Len(up), up[k] \in DOMAIN model.diagrams,
           \A j \in 1 .. k - 1 : up[j] \notin DOMAIN model.diagrams,
           Cells(model.diagrams[up[k]]) # {}
    PROVE  /\ SameMachine(defs[c], defs[up[k]])
           /\ defs[up[k]].initial = model.diagrams[up[k]].initial
<1>1. /\ Len(up) \in Nat /\ up[1] = c
      /\ \A i \in 1 .. Len(up) : up[i] \in model.classes
      /\ \A i \in 1 .. Len(up) - 1 : up[i + 1] = Parent(up[i])
    BY DEF Line
<1>2. DOMAIN defs = model.classes /\ NoClass \notin model.classes
    BY DEF PipelineInv, BuiltInv, WrittenInv, WellFormed
<1>3. up[k] \in DOMAIN defs
    BY <1>1, <1>2
<1>4. OwnMachine(up[k], model.diagrams[up[k]])
    BY <1>3 DEF PipelineInv, BuiltInv
<1>5. /\ DOMAIN defs[up[k]].table # {}
      /\ defs[up[k]].initial = model.diagrams[up[k]].initial
    BY <1>4 DEF OwnMachine
<1> DEFINE Q == {n \in Nat : n < k => SameMachine(defs[up[k - n]], defs[up[k]])}
<1>6. 0 \in Q
    <2>1. k - 0 = k
        BY <1>1
    <2> QED BY <2>1 DEF SameMachine
<1>7. ASSUME NEW n \in Nat, n \in Q PROVE n + 1 \in Q
    <2> DEFINE j == k - (n + 1)
    <2> SUFFICES ASSUME n + 1 < k PROVE SameMachine(defs[up[j]], defs[up[k]])
        OBVIOUS
    <2>1. /\ j \in 1 .. k - 1 /\ j \in 1 .. Len(up) - 1 /\ j \in 1 .. Len(up)
          /\ j + 1 \in 1 .. Len(up) /\ j + 1 = k - n /\ n < k
        BY <1>1
    <2>2. SameMachine(defs[up[j + 1]], defs[up[k]])
        BY <1>7, <2>1
    <2> HIDE DEF j, Q
    <2>3. up[j] \in DOMAIN defs /\ up[j] \notin DOMAIN model.diagrams
        BY <1>1, <1>2, <2>1
    <2>4. up[j + 1] = Parent(up[j]) /\ Parent(up[j]) # NoClass
        BY <1>1, <1>2, <2>1
    <2>5. DOMAIN defs[Parent(up[j])].table # {}
        BY <1>5, <2>2, <2>4 DEF SameMachine
    <2>6. SameMachine(defs[up[j]], defs[Parent(up[j])])
        BY <2>3, <2>4, <2>5 DEF ClassesInv, InheritInv
    <2> QED BY <2>2, <2>4, <2>6 DEF SameMachine
<1> HIDE DEF Q
<1>8. k - 1 \in Nat /\ k - 1 < k /\ k - (k - 1) = 1
    BY <1>1
<1>9. k - 1 \in Q
    BY <1>6, <1>7, <1>8, Induction
<1>10. SameMachine(defs[up[1]], defs[up[k]])
    BY <1>8, <1>9 DEF Q
<1> QED BY <1>1, <1>5, <1>10

LEMMA InheritInvariant == PipelineInv /\ ClassesInv => MachinesAreInherited
<1> SUFFICES ASSUME PipelineInv, ClassesInv, Built, Acyclic, NEW c \in model.classes,
                    {i \in DOMAIN Ancestors(c) : Ancestors(c)[i] \in DOMAIN model.diagrams} # {},
                    Cells(model.diagrams[Ancestors(c)[LeastOf(
                        {i \in DOMAIN Ancestors(c) : Ancestors(c)[i] \in DOMAIN model.diagrams})]]) # {}
             PROVE  LET up == Ancestors(c)
                        k == LeastOf({i \in DOMAIN up : up[i] \in DOMAIN model.diagrams})
                    IN  /\ defs[c].table = defs[up[k]].table
                        /\ defs[c].initial = model.diagrams[up[k]].initial
                        /\ defs[c].final = defs[up[k]].final
    BY DEF MachinesAreInherited, Built
<1> DEFINE up == Ancestors(c)
           own == {i \in DOMAIN up : up[i] \in DOMAIN model.diagrams}
           k == LeastOf(own)
<1>1. Line(up, c)
    BY AncestorsLine DEF PipelineInv, WrittenInv
<1> HIDE DEF up
<1>2. DOMAIN up = 1 .. Len(up) /\ Len(up) \in Nat
    BY <1>1 DEF Line
<1>3. own \subseteq Nat /\ own # {}
    BY <1>2 DEF up
<1>4. k \in own /\ \A j \in own : k <= j
    <2> HIDE DEF own
    <2>1. \E x \in own : \A y \in own : x <= y
        BY <1>3, LeastNumber
    <2> QED BY <2>1 DEF LeastOf
<1> HIDE DEF k
<1>5. k \in 1 .. Len(up) /\ up[k] \in DOMAIN model.diagrams
    BY <1>2, <1>4
<1>6. \A j \in 1 .. k - 1 : up[j] \notin DOMAIN model.diagrams
    <2> SUFFICES ASSUME NEW j \in 1 .. k - 1, up[j] \in DOMAIN model.diagrams PROVE FALSE
        OBVIOUS
    <2>1. j \in 1 .. Len(up) /\ ~ (k <= j)
        BY <1>2, <1>5
    <2> QED BY <1>2, <1>4, <2>1
<1>7. Cells(model.diagrams[up[k]]) # {}
    BY DEF up, k
<1>8. SameMachine(defs[c], defs[up[k]]) /\ defs[up[k]].initial = model.diagrams[up[k]].initial
    BY <1>1, <1>5, <1>6, <1>7, InheritedMachine
<1> QED BY <1>8 DEF SameMachine, up, k

\* A class without a diagram gets the machine of its nearest ancestor with
\* one, however many classes there are and in whatever order they are named
\* (manifest_builder.py:273).
THEOREM NearestMachineIsInherited == CSpec => []MachinesAreInherited
BY PipelineHolds, ClassesHold, InheritInvariant, PTL
=============================================================================
