--------------------------- MODULE DiagramProofs ----------------------------
(***************************************************************************)
(* Proofs about DiagramSync, for every file, every text and every number   *)
(* of edits.                                                               *)
(***************************************************************************)
EXTENDS DiagramSync, SelectionProofs

FileTransition == [from : Name, to : Target, event : Event \cup {NoEvent}, guard : Guard \cup {NoGuard}]

CellId == [from : Name, event : Event \cup {NoEvent}, idx : Nat]

-----------------------------------------------------------------------------
(* Sequences *)

LEMMA RemovedAt ==
    ASSUME NEW S, NEW s \in Seq(S), NEW i \in DOMAIN s
    PROVE  /\ RemoveAt(s, i) \in Seq(S)
           /\ DOMAIN RemoveAt(s, i) = 1 .. (Len(s) - 1)
           /\ \A j \in 1 .. (Len(s) - 1) :
                 RemoveAt(s, i)[j] = IF j < i THEN s[j] ELSE s[j + 1]
BY Removal DEF RemoveAt, LeavingOut

LEMMA ReplacedOne ==
    ASSUME NEW S, NEW s \in Seq(S), NEW i \in DOMAIN s, NEW v \in S
    PROVE  /\ [s EXCEPT ![i] = v] \in Seq(S)
           /\ Len([s EXCEPT ![i] = v]) = Len(s)
OBVIOUS

-----------------------------------------------------------------------------
(* Types of what is rendered *)

LEMMA ParamsType ==
    ASSUME NEW m \in File, NEW e \in Event \cup {NoEvent}
    PROVE  ParamsOf(m, e) \in Param \cup {NoParams}
<1>1. m.params \in [Event -> Param \cup {NoParams}]
    BY DEF File
<1> QED BY <1>1 DEF ParamsOf

LEMMA RenderedType ==
    ASSUME NEW m \in File
    PROVE  DrawingOf(m) \in Drawing
<1> DEFINE ss == m.states
           ts == m.transitions
           cs == StateCells(m)
           es == EdgeCells(m)
<1>1. ss \in Seq(StateDef) /\ ts \in Seq(FileTransition) /\ m.initial \in Name
    BY DEF File, FileTransition
<1>2. Len(ss) \in Nat /\ DOMAIN ss = 1 .. Len(ss) /\ Len(ts) \in Nat /\ DOMAIN ts = 1 .. Len(ts)
    BY <1>1
<1>3. cs \in Seq(StateCell)
    <2>1. cs = [i \in 1 .. Len(ss) |-> [name |-> ss[i].name, action |-> ss[i].action, plain |-> TRUE]]
        BY <1>2 DEF StateCells
    <2>2. ASSUME NEW i \in 1 .. Len(ss)
          PROVE  [name |-> ss[i].name, action |-> ss[i].action, plain |-> TRUE] \in StateCell
        <3>1. ss[i] \in StateDef
            BY <1>1
        <3> QED BY <3>1 DEF StateDef, StateCell
    <2>3. cs \in [1 .. Len(ss) -> StateCell]
        BY <2>1, <2>2
    <2> QED BY <1>2, <2>3
<1>4. es \in Seq(EdgeCell)
    <2> DEFINE cell(i) == LET t == ts[i]
                          IN  [id     |-> [from |-> t.from, event |-> t.event, idx |-> i - 1],
                               source |-> t.from, target |-> t.to, event |-> t.event,
                               params |-> ParamsOf(m, t.event),
                               guard  |-> IF t.event = NoEvent THEN NoGuard ELSE t.guard,
                               plain  |-> TRUE]
    <2>1. es = [i \in 1 .. Len(ts) |-> cell(i)]
        BY <1>2 DEF EdgeCells
    <2>2. ASSUME NEW i \in 1 .. Len(ts)
          PROVE  cell(i) \in EdgeCell
        <3> DEFINE t == ts[i]
        <3>1. t \in FileTransition
            BY <1>1
        <3>2. i - 1 \in Nat
            BY <1>2
        <3> HIDE DEF t
        <3>3. /\ t.from \in Name /\ t.to \in Target /\ t.event \in Event \cup {NoEvent}
              /\ t.guard \in Guard \cup {NoGuard}
            BY <3>1 DEF FileTransition
        <3>4. ParamsOf(m, t.event) \in Param \cup {NoParams}
            BY <3>3, ParamsType
        <3> QED BY <3>2, <3>3, <3>4 DEF EdgeCell, t
    <2> HIDE DEF cell
    <2>3. es \in [1 .. Len(ts) -> EdgeCell]
        BY <2>1, <2>2
    <2> QED BY <1>2, <2>3
<1>5. m.methods \in SUBSET Method
    BY DEF File
<1> HIDE DEF ss, ts, cs, es
<1>6. DrawingOf(m) = [states |-> cs, start |-> m.initial, edges |-> es, boxes |-> m.methods,
                      arranged |-> FALSE]
    BY DEF DrawingOf, cs, es
<1> QED BY <1>1, <1>3, <1>4, <1>5, <1>6 DEF Drawing

-----------------------------------------------------------------------------
(* Types of what is read *)

LEMMA ReadType ==
    ASSUME NEW m \in File, NEW c \in EdgeCell
    PROVE  Read(m, c) \in FileTransition
<1>1. StateNames(m) \subseteq Name
    <2>1. m.states \in Seq(StateDef)
        BY DEF File
    <2>2. \A s \in ToSet(m.states) : s \in StateDef
        BY <2>1 DEF ToSet
    <2> QED BY <2>2 DEF StateNames, StateDef
<1>2. /\ c.id.from \in Name /\ c.id.event \in Event \cup {NoEvent}
      /\ c.event \in Event \cup {NoEvent} /\ c.guard \in Guard \cup {NoGuard}
    BY DEF EdgeCell
<1>3. EndOr(m, c.source, c.id.from) \in Name
    BY <1>1, <1>2 DEF EndOr
<1>4. c.id.event # NoEvent => EndOr(m, c.target, c.id.event) \in Name \cup Event
    BY <1>1, <1>2 DEF EndOr
<1>5. c.guard # NoGuard => Stripped[c.guard] \in Guard
    BY <1>2, TextAssumption
<1>6. CASE c.id.event = NoEvent
    BY <1>3, <1>6 DEF Read, FileTransition, Target
<1>7. CASE c.id.event # NoEvent
    <2> DEFINE from == EndOr(m, c.source, c.id.from)
               to == EndOr(m, c.target, c.id.event)
               event == IF c.event = NoEvent THEN c.id.event ELSE c.event
               guard == IF c.event = NoEvent \/ c.guard = NoGuard THEN NoGuard ELSE Stripped[c.guard]
    <2>1. Read(m, c) = [from |-> from, to |-> to, event |-> event, guard |-> guard]
        BY <1>7 DEF Read
    <2>2. event \in Event /\ guard \in Guard \cup {NoGuard}
        BY <1>2, <1>5, <1>7
    <2>3. from \in Name /\ to \in Target
        BY <1>3, <1>4, <1>7 DEF Target
    <2> HIDE DEF from, to, event, guard
    <2> QED BY <2>1, <2>2, <2>3 DEF FileTransition
<1> QED BY <1>6, <1>7

-----------------------------------------------------------------------------
(* What filtering leaves *)

LEMMA FilteredSet ==
    ASSUME NEW E, NEW s \in Seq(E), NEW S, NEW p, p = Filtered(s, S)
    PROVE  p \in Seq(E) /\ ToSet(p) = {x \in ToSet(s) : x \in S}
<1>1. p \in Seq(E \cap S)
    BY FilteredIsSeq
<1>2. p \in Seq(E)
    BY <1>1
<1>3. \A x : (\E j \in DOMAIN p : p[j] = x) <=> x \in S /\ \E i \in DOMAIN s : s[i] = x
    BY FilteredElements
<1> QED BY <1>2, <1>3 DEF ToSet

LEMMA PlainCells ==
    ASSUME NEW d \in Drawing
    PROVE  /\ PlainStates(d) \in Seq(StateCell)
           /\ ToSet(PlainStates(d)) = {c \in ToSet(d.states) : c.plain}
           /\ PlainEdges(d) \in Seq(EdgeCell)
           /\ ToSet(PlainEdges(d)) = {c \in ToSet(d.edges) : c.plain}
<1>1. d.states \in Seq(StateCell) /\ d.edges \in Seq(EdgeCell)
    BY DEF Drawing
<1> DEFINE A == {c \in ToSet(d.states) : c.plain}
           B == {c \in ToSet(d.edges) : c.plain}
<1>2. PlainStates(d) = Filtered(d.states, A) /\ PlainEdges(d) = Filtered(d.edges, B)
    BY DEF PlainStates, PlainEdges
<1>3. A \subseteq ToSet(d.states) /\ B \subseteq ToSet(d.edges)
    OBVIOUS
<1> HIDE DEF A, B
<1>4. PlainStates(d) \in Seq(StateCell) /\ ToSet(PlainStates(d)) = {x \in ToSet(d.states) : x \in A}
    BY <1>1, <1>2, FilteredSet
<1>5. PlainEdges(d) \in Seq(EdgeCell) /\ ToSet(PlainEdges(d)) = {x \in ToSet(d.edges) : x \in B}
    BY <1>1, <1>2, FilteredSet
<1> QED BY <1>3, <1>4, <1>5 DEF A, B

\* Names that sync takes to be drawn, and the states that it adds.
PlainNames(d) == {c.name : c \in ToSet(PlainStates(d))}

Added(m, d) == {[name |-> x, action |-> NoAction] : x \in PlainNames(d) \ StateNames(m)}

LEMMA MergedElements ==
    ASSUME NEW m \in File, NEW d \in Drawing
    PROVE  /\ MergedStates(m, d) \in Seq(StateDef)
           /\ ToSet(MergedStates(m, d)) =
                 {s \in ToSet(m.states) \cup Added(m, d) :
                     PlainNames(d) = {} \/ s.name \in PlainNames(d)}
<1> DEFINE p == PlainStates(d)
           F == {c \in ToSet(d.states) : c.name \notin StateNames(m)}
           new == Filtered(p, F)
           added == [i \in DOMAIN new |-> [name |-> new[i].name, action |-> NoAction]]
           all == m.states \o added
           S == {s \in ToSet(all) : s.name \in PlainNames(d)}
<1>1. /\ p \in Seq(StateCell) /\ ToSet(p) \subseteq ToSet(d.states)
      /\ m.states \in Seq(StateDef)
    BY PlainCells DEF File
<1>2. MergedStates(m, d) = IF PlainNames(d) = {} THEN all ELSE Filtered(all, S)
    BY DEF MergedStates, PlainNames
<1>3. S \subseteq ToSet(all) /\ \A s \in ToSet(all) : s \in S <=> s.name \in PlainNames(d)
    OBVIOUS
<1>4. \A c \in ToSet(p) : c \in F <=> c.name \notin StateNames(m)
    BY <1>1
<1> HIDE DEF p, F, S
<1>5. new \in Seq(StateCell) /\ ToSet(new) = {c \in ToSet(p) : c \in F}
    BY <1>1, FilteredSet
<1> HIDE DEF new
<1>6. Len(new) \in Nat /\ DOMAIN new = 1 .. Len(new) /\ \A i \in 1 .. Len(new) : new[i].name \in Name
    <2>1. \A c \in StateCell : c.name \in Name
        BY DEF StateCell
    <2> QED BY ONLY <1>5, <2>1
<1>7. added \in Seq(StateDef)
    <2>1. added \in [1 .. Len(new) -> StateDef]
        BY <1>6 DEF StateDef
    <2> QED BY <1>6, <2>1
<1>8. ToSet(added) = Added(m, d)
    <2>1. ToSet(added) = {[name |-> new[i].name, action |-> NoAction] : i \in DOMAIN new}
        BY DEF ToSet
    <2>2. ToSet(added) = {[name |-> c.name, action |-> NoAction] : c \in ToSet(new)}
        BY <2>1 DEF ToSet
    <2>3. {c.name : c \in ToSet(new)} = PlainNames(d) \ StateNames(m)
        BY <1>4, <1>5 DEF PlainNames, p
    <2> QED BY <2>2, <2>3 DEF Added
<1> HIDE DEF added
<1>9. all \in Seq(StateDef) /\ ToSet(all) = ToSet(m.states) \cup Added(m, d)
    <2> DEFINE o == m.states
    <2>1. o \in Seq(StateDef) /\ added \in Seq(StateDef) /\ Joins(all, o, added)
        BY <1>1, <1>7 DEF Joins
    <2> HIDE DEF o, all
    <2>2. all \in Seq(StateDef) /\ Values(all) = Values(o) \cup Values(added)
        BY ONLY <2>1, JoinedElements
    <2> QED BY <1>8, <2>2 DEF Values, ToSet, o
<1> HIDE DEF all
<1>10. Filtered(all, S) \in Seq(StateDef) /\ ToSet(Filtered(all, S)) = {x \in ToSet(all) : x \in S}
    BY <1>9, FilteredSet
<1> QED BY <1>2, <1>3, <1>9, <1>10

LEMMA MergedType ==
    ASSUME NEW m \in File, NEW d \in Drawing
    PROVE  MergedTransitions(m, d) \in Seq(FileTransition)
<1> DEFINE ts == m.transitions
           drawn == {c.id : c \in ToSet(PlainEdges(d))}
           U == {c \in ToSet(d.edges) : c.id \notin Ids(m)}
           unknown == Filtered(PlainEdges(d), U)
           new == [i \in DOMAIN unknown |-> Read(m, unknown[i])]
           K == {i \in DOMAIN ts : drawn = {} \/ TransitionId(m, i) \in drawn}
           places == [i \in DOMAIN ts |-> i]
           kept == Filtered(places, K)
           old == [i \in DOMAIN kept |-> ts[kept[i]]]
<1>1. MergedTransitions(m, d) = old \o new
    BY DEF MergedTransitions
<1>2. ts \in Seq(FileTransition) /\ Len(ts) \in Nat /\ DOMAIN ts = 1 .. Len(ts)
    BY DEF File, FileTransition
<1>3. new \in Seq(FileTransition)
    <2> HIDE DEF U
    <2>1. unknown \in Seq(EdgeCell)
        BY PlainCells, FilteredSet
    <2> HIDE DEF unknown
    <2>2. Len(unknown) \in Nat /\ DOMAIN unknown = 1 .. Len(unknown)
          /\ \A i \in 1 .. Len(unknown) : unknown[i] \in EdgeCell
        BY <2>1
    <2>3. new \in [1 .. Len(unknown) -> FileTransition]
        BY <2>2, ReadType
    <2> QED BY <2>2, <2>3
<1>4. old \in Seq(FileTransition)
    <2>1. places \in Seq(1 .. Len(ts))
        BY <1>2
    <2> HIDE DEF places, K
    <2>2. kept \in Seq(1 .. Len(ts))
        BY <2>1, FilteredSet
    <2> HIDE DEF kept, ts
    <2>3. Len(kept) \in Nat /\ DOMAIN kept = 1 .. Len(kept)
          /\ \A i \in 1 .. Len(kept) : ts[kept[i]] \in FileTransition
        BY <1>2, <2>2
    <2>4. old \in [1 .. Len(kept) -> FileTransition]
        BY <2>3
    <2> QED BY <2>3, <2>4
<1> HIDE DEF old, new
<1>5. old \o new \in Seq(FileTransition)
    BY ONLY <1>3, <1>4
<1> QED BY <1>1, <1>5

-----------------------------------------------------------------------------
(* Types of what is edited *)

LEMMA WithEdges ==
    ASSUME NEW d \in Drawing, NEW es \in Seq(EdgeCell)
    PROVE  [d EXCEPT !.edges = es] \in Drawing
BY DEF Drawing

LEMMA WithStates ==
    ASSUME NEW d \in Drawing, NEW cs \in Seq(StateCell)
    PROVE  [d EXCEPT !.states = cs] \in Drawing
BY DEF Drawing

LEMMA LoosenedType ==
    ASSUME NEW c \in EdgeCell, NEW x
    PROVE  Loosened(c, x) \in EdgeCell
<1>1. Loose(c.source, x) \in Name \cup {Nowhere} /\ Loose(c.target, x) \in Target \cup {Nowhere}
    BY DEF Loose, EdgeCell
<1> QED BY <1>1 DEF Loosened, EdgeCell

LEMMA EraseStateType ==
    ASSUME drawing \in Drawing, NEW i \in DOMAIN drawing.states, EraseState(i)
    PROVE  drawing' \in Drawing
<1> DEFINE x == drawing.states[i].name
           es == drawing.edges
           away == {c \in ToSet(es) : x \notin {c.source, c.target}}
           loose == [j \in DOMAIN es |-> Loosened(es[j], x)]
           cs == Without(drawing.states, i)
           start == Loose(drawing.start, x)
<1>1. PICK edges \in {Filtered(es, away), loose} :
         drawing' = [drawing EXCEPT !.states = cs, !.start = start, !.edges = edges]
    BY DEF EraseState, Draw
<1>2. drawing.states \in Seq(StateCell) /\ es \in Seq(EdgeCell) /\ drawing.start \in Name \cup {Nowhere}
    BY DEF Drawing
<1>3. cs \in Seq(StateCell)
    BY <1>2, RemovedAt DEF Without
<1>4. start \in Name \cup {Nowhere}
    BY <1>2 DEF Loose
<1> HIDE DEF x, away, cs, start
<1>5. Filtered(es, away) \in Seq(EdgeCell)
    BY <1>2, FilteredSet
<1>6. loose \in Seq(EdgeCell)
    <2> HIDE DEF es
    <2>1. Len(es) \in Nat /\ DOMAIN es = 1 .. Len(es) /\ \A j \in 1 .. Len(es) : es[j] \in EdgeCell
        BY <1>2
    <2>2. loose \in [1 .. Len(es) -> EdgeCell]
        BY <2>1, LoosenedType
    <2> QED BY <2>1, <2>2
<1>7. edges \in Seq(EdgeCell)
    BY <1>5, <1>6
<1> QED BY <1>1, <1>3, <1>4, <1>7 DEF Drawing

LEMMA RestyleType ==
    ASSUME drawing \in Drawing, Restyle
    PROVE  drawing' \in Drawing
<1>1. drawing.states \in Seq(StateCell) /\ drawing.edges \in Seq(EdgeCell)
    BY DEF Drawing
<1>2. CASE \E i \in DOMAIN drawing.states : Draw([drawing EXCEPT !.states[i].plain = FALSE])
    <2>1. PICK i \in DOMAIN drawing.states : drawing' = [drawing EXCEPT !.states[i].plain = FALSE]
        BY <1>2 DEF Draw
    <2> DEFINE v == [drawing.states[i] EXCEPT !.plain = FALSE]
               cs == [drawing.states EXCEPT ![i] = v]
    <2>2. v \in StateCell
        <3>1. drawing.states[i] \in StateCell
            BY <1>1
        <3> QED BY <3>1 DEF StateCell
    <2>3. drawing' = [drawing EXCEPT !.states = cs]
        BY <2>1
    <2> HIDE DEF v
    <2>4. cs \in Seq(StateCell)
        BY <1>1, <2>2, ReplacedOne
    <2> QED BY <2>3, <2>4, WithStates
<1>3. CASE \E i \in DOMAIN drawing.edges : Draw([drawing EXCEPT !.edges[i].plain = FALSE])
    <2>1. PICK i \in DOMAIN drawing.edges : drawing' = [drawing EXCEPT !.edges[i].plain = FALSE]
        BY <1>3 DEF Draw
    <2> DEFINE v == [drawing.edges[i] EXCEPT !.plain = FALSE]
               es == [drawing.edges EXCEPT ![i] = v]
    <2>2. v \in EdgeCell
        <3>1. drawing.edges[i] \in EdgeCell
            BY <1>1
        <3> QED BY <3>1 DEF EdgeCell
    <2>3. drawing' = [drawing EXCEPT !.edges = es]
        BY <2>1
    <2> HIDE DEF v
    <2>4. es \in Seq(EdgeCell)
        BY <1>1, <2>2, ReplacedOne
    <2> QED BY <2>3, <2>4, WithEdges
<1> QED BY <1>2, <1>3 DEF Restyle

LEMMA ArrangeType ==
    ASSUME drawing \in Drawing, Arrange
    PROVE  drawing' \in Drawing
<1>1. drawing.edges \in Seq(EdgeCell)
    BY DEF Drawing
<1>2. CASE Draw([drawing EXCEPT !.arranged = TRUE])
    BY <1>2 DEF Draw, Drawing
<1>3. CASE \E i \in DOMAIN drawing.edges :
              Draw([drawing EXCEPT !.edges = Append(Without(@, i), @[i])])
    <2>1. PICK i \in DOMAIN drawing.edges :
             drawing' = [drawing EXCEPT !.edges = Append(Without(drawing.edges, i), drawing.edges[i])]
        BY <1>3 DEF Draw
    <2>2. Without(drawing.edges, i) \in Seq(EdgeCell) /\ drawing.edges[i] \in EdgeCell
        BY <1>1, RemovedAt DEF Without
    <2>3. Append(Without(drawing.edges, i), drawing.edges[i]) \in Seq(EdgeCell)
        BY <2>2
    <2> QED BY <2>1, <2>3, WithEdges
<1> QED BY <1>2, <1>3 DEF Arrange

LEMMA EditDrawingType ==
    ASSUME model \in File, drawing \in Drawing, EditDrawing
    PROVE  drawing' \in Drawing
<1>1. drawing.states \in Seq(StateCell) /\ drawing.edges \in Seq(EdgeCell)
    BY DEF Drawing
<1>2. DrawnNames \subseteq Name
    <2>1. \A c \in ToSet(drawing.states) : c \in StateCell
        BY <1>1 DEF ToSet
    <2> QED BY <2>1 DEF DrawnNames, StateCell
<1>3. ASSUME NEW i \in DOMAIN drawing.edges, EraseEdge(i)
      PROVE  drawing' \in Drawing
    <2>1. Without(drawing.edges, i) \in Seq(EdgeCell)
        BY <1>1, RemovedAt DEF Without
    <2>2. drawing' = [drawing EXCEPT !.edges = Without(drawing.edges, i)]
        BY <1>3 DEF EraseEdge, Draw
    <2> QED BY <2>1, <2>2, WithEdges
<1>4. ASSUME NEW x \in Name, AddState(x)
      PROVE  drawing' \in Drawing
    <2> DEFINE c == [name |-> x, action |-> NoAction, plain |-> TRUE]
    <2>1. drawing' = [drawing EXCEPT !.states = Append(drawing.states, c)]
        BY <1>4 DEF AddState, Draw
    <2>2. c \in StateCell
        BY DEF StateCell
    <2>3. Append(drawing.states, c) \in Seq(StateCell)
        BY <1>1, <2>2
    <2> QED BY <2>1, <2>3, WithStates
<1>5. ASSUME NEW x \in DrawnNames, NEW y \in DrawnNames \cup {Terminal}, NEW e \in Event \cup {NoEvent},
             NEW g \in Guard \cup {NoGuard}, NEW n \in 0 .. Len(drawing.edges), AddEdge(x, y, e, g, n)
      PROVE  drawing' \in Drawing
    <2> DEFINE c == [id |-> [from |-> x, event |-> e, idx |-> n], source |-> x, target |-> y,
                     event |-> e, params |-> ParamsOf(model, e), guard |-> g, plain |-> TRUE]
    <2>1. drawing' = [drawing EXCEPT !.edges = Append(drawing.edges, c)]
        BY <1>5 DEF AddEdge, Draw
    <2>2. n \in Nat /\ x \in Name /\ y \in Target /\ ParamsOf(model, e) \in Param \cup {NoParams}
        BY <1>1, <1>2, ParamsType DEF Target
    <2>3. c \in EdgeCell
        BY <2>2 DEF EdgeCell
    <2>4. Append(drawing.edges, c) \in Seq(EdgeCell)
        BY <1>1, <2>3
    <2> QED BY <2>1, <2>4, WithEdges
<1>6. ASSUME NEW i \in DOMAIN drawing.edges, NEW y \in DrawnNames, Retarget(i, y)
      PROVE  drawing' \in Drawing
    <2> DEFINE u == [drawing.edges[i] EXCEPT !.source = y]
               v == [drawing.edges[i] EXCEPT !.target = y]
               us == [drawing.edges EXCEPT ![i] = u]
               vs == [drawing.edges EXCEPT ![i] = v]
    <2>1. drawing' = [drawing EXCEPT !.edges = us] \/ drawing' = [drawing EXCEPT !.edges = vs]
        BY <1>6 DEF Retarget, Draw
    <2>2. u \in EdgeCell /\ v \in EdgeCell
        <3>1. drawing.edges[i] \in EdgeCell /\ y \in Name /\ y \in Target
            BY <1>1, <1>2 DEF Target
        <3> QED BY <3>1 DEF EdgeCell
    <2> HIDE DEF u, v
    <2>3. us \in Seq(EdgeCell) /\ vs \in Seq(EdgeCell)
        BY <1>1, <2>2, ReplacedOne
    <2> QED BY <2>1, <2>3, WithEdges
<1>7. ASSUME NEW i \in DOMAIN drawing.edges, NEW e \in Event, NEW p \in Param \cup {NoParams},
             NEW g \in Guard \cup {NoGuard}, Relabel(i, e, p, g)
      PROVE  drawing' \in Drawing
    <2> DEFINE v == [drawing.edges[i] EXCEPT !.event = e, !.params = p, !.guard = g]
               es == [drawing.edges EXCEPT ![i] = v]
    <2>1. drawing' = [drawing EXCEPT !.edges = es]
        BY <1>1, <1>7 DEF Relabel, Draw
    <2>2. v \in EdgeCell
        <3>1. drawing.edges[i] \in EdgeCell
            BY <1>1
        <3> QED BY <3>1 DEF EdgeCell
    <2> HIDE DEF v
    <2>3. es \in Seq(EdgeCell)
        BY <1>1, <2>2, ReplacedOne
    <2> QED BY <2>1, <2>3, WithEdges
<1>8. ASSUME EditBoxes PROVE drawing' \in Drawing
    BY <1>8 DEF EditBoxes, Draw, Drawing
<1> QED BY <1>3, <1>4, <1>5, <1>6, <1>7, <1>8, EraseStateType, RestyleType, ArrangeType DEF EditDrawing

LEMMA EditKeepsFile ==
    ASSUME EditDrawing
    PROVE  model' = model /\ edits < MaxEdits /\ edits' = edits + 1
<1>1. (\E i \in DOMAIN drawing.states : EraseState(i)) => model' = model /\ edits < MaxEdits /\ edits' = edits + 1
    BY DEF EraseState, MayEdit, Draw
<1>2. (\E i \in DOMAIN drawing.edges : EraseEdge(i)) => model' = model /\ edits < MaxEdits /\ edits' = edits + 1
    BY DEF EraseEdge, MayEdit, Draw
<1>3. (\E x \in Name : AddState(x)) => model' = model /\ edits < MaxEdits /\ edits' = edits + 1
    BY DEF AddState, MayEdit, Draw
<1>4. ASSUME NEW x, NEW y, NEW e, NEW g, NEW n, AddEdge(x, y, e, g, n)
      PROVE  model' = model /\ edits < MaxEdits /\ edits' = edits + 1
    BY <1>4 DEF AddEdge, MayEdit, Draw
<1>5. ASSUME NEW i, NEW y, Retarget(i, y)
      PROVE  model' = model /\ edits < MaxEdits /\ edits' = edits + 1
    BY <1>5 DEF Retarget, MayEdit, Draw
<1>6. ASSUME NEW i, NEW e, NEW p, NEW g, Relabel(i, e, p, g)
      PROVE  model' = model /\ edits < MaxEdits /\ edits' = edits + 1
    BY <1>6 DEF Relabel, MayEdit, Draw
<1>7. EditBoxes => model' = model /\ edits < MaxEdits /\ edits' = edits + 1
    BY DEF EditBoxes, MayEdit, Draw
<1>8. Restyle \/ Arrange => model' = model /\ edits < MaxEdits /\ edits' = edits + 1
    BY DEF Restyle, Arrange, MayEdit, Draw
<1> QED BY <1>1, <1>2, <1>3, <1>4, <1>5, <1>6, <1>7, <1>8 DEF EditDrawing

LEMMA EditCounts ==
    ASSUME edits \in 0 .. MaxEdits, EditDrawing \/ EditFile
    PROVE  edits' \in 0 .. MaxEdits
<1>1. edits < MaxEdits /\ edits' = edits + 1
    BY EditKeepsFile DEF EditFile, MayEdit
<1> QED BY <1>1, TextAssumption

LEMMA EditFileType ==
    ASSUME model \in File, EditFile
    PROVE  model' \in File
<1>1. model.states \in Seq(StateDef) /\ model.transitions \in Seq(FileTransition)
    BY DEF File, FileTransition
<1>2. ASSUME NEW i \in DOMAIN model.transitions,
             model' = [model EXCEPT !.transitions = Without(model.transitions, i)]
      PROVE  model' \in File
    <2>1. Without(model.transitions, i) \in Seq(FileTransition)
        BY <1>1, RemovedAt DEF Without
    <2> QED BY <1>2, <2>1 DEF File, FileTransition
<1>3. ASSUME NEW i \in DOMAIN model.states, NEW a \in Action,
             model' = [model EXCEPT !.states[i].action = a]
      PROVE  model' \in File
    <2> DEFINE v == [model.states[i] EXCEPT !.action = a]
               ss == [model.states EXCEPT ![i] = v]
    <2>1. v \in StateDef
        <3>1. model.states[i] \in StateDef
            BY <1>1
        <3> QED BY <3>1 DEF StateDef
    <2>2. model' = [model EXCEPT !.states = ss]
        BY <1>3
    <2> HIDE DEF v
    <2>3. ss \in Seq(StateDef)
        BY <1>1, <2>1, ReplacedOne
    <2> HIDE DEF ss
    <2> QED BY <2>2, <2>3 DEF File
<1>4. ASSUME NEW e \in Event, NEW p \in Param \cup {NoParams}, model' = [model EXCEPT !.params[e] = p]
      PROVE  model' \in File
    <2> DEFINE ps == [model.params EXCEPT ![e] = p]
    <2>1. model.params \in [Event -> Param \cup {NoParams}]
        BY DEF File
    <2>2. ps \in [Event -> Param \cup {NoParams}]
        BY <2>1
    <2>3. model' = [model EXCEPT !.params = ps]
        BY <1>4
    <2> HIDE DEF ps
    <2> QED BY <2>2, <2>3 DEF File
<1>5. ASSUME NEW methods \in SUBSET Method, model' = [model EXCEPT !.methods = methods]
      PROVE  model' \in File
    BY <1>5 DEF File
<1> QED BY <1>2, <1>3, <1>4, <1>5 DEF EditFile

LEMMA SyncType ==
    ASSUME model \in File, drawing \in Drawing, Sync
    PROVE  model' \in File
<1> DEFINE ss == MergedStates(model, drawing)
           ts == MergedTransitions(model, drawing)
<1>1. ss \in Seq(StateDef) /\ ts \in Seq(FileTransition)
    BY MergedElements, MergedType
<1>2. model' = [model EXCEPT !.states = ss, !.transitions = ts]
    BY DEF Sync, Synced
<1> HIDE DEF ss, ts
<1> QED BY <1>1, <1>2 DEF File, FileTransition

LEMMA DiagramStep == DiagramTypeOK /\ [DNext]_dVars => DiagramTypeOK'
<1> SUFFICES ASSUME DiagramTypeOK, [DNext]_dVars PROVE DiagramTypeOK'
    OBVIOUS
<1>1. model \in File /\ (Drawn => drawing \in Drawing) /\ edits \in 0 .. MaxEdits
    BY DEF DiagramTypeOK
<1>2. CASE \E force \in BOOLEAN : Render(force)
    <2>1. UNCHANGED <<model, edits>> /\ (drawing' = drawing \/ drawing' = DrawingOf(model))
        BY <1>2 DEF Render, Rendered
    <2> QED BY <1>1, <2>1, RenderedType DEF DiagramTypeOK, Drawn
<1>3. CASE Sync
    <2>1. Drawn /\ UNCHANGED <<drawing, edits>>
        BY <1>3 DEF Sync, Drawn
    <2> QED BY <1>1, <1>3, <2>1, SyncType DEF DiagramTypeOK, Drawn
<1>4. CASE EditDrawing
    <2>1. Drawn /\ model' = model
        BY <1>4, EditKeepsFile DEF EditDrawing
    <2> QED BY <1>1, <1>4, <2>1, EditDrawingType, EditCounts DEF DiagramTypeOK
<1>5. CASE EditFile
    <2>1. drawing' = drawing
        BY <1>5 DEF EditFile
    <2> QED BY <1>1, <1>5, <2>1, EditFileType, EditCounts DEF DiagramTypeOK, Drawn
<1>6. CASE UNCHANGED dVars
    BY <1>1, <1>6 DEF dVars, DiagramTypeOK, Drawn
<1> QED BY <1>2, <1>3, <1>4, <1>5, <1>6 DEF DNext

\* Whatever is rendered, read back, drawn, erased and edited, file and drawing
\* stay such as the functions take them to be; only that sync may write a
\* transition to a state that has the name of an event (drawio.py:3008).
THEOREM DiagramTypes == DSpec => []DiagramTypeOK
<1>1. DInit => DiagramTypeOK
    <2> SUFFICES ASSUME DInit PROVE DiagramTypeOK
        OBVIOUS
    <2>1. model \in [initial : Name, states : Seq(StateDef), transitions : Seq(Transition),
                     params : [Event -> Param \cup {NoParams}], methods : SUBSET Method]
        BY ModelAssumption DEF DInit
    <2>2. \A t \in Transition : t \in FileTransition
        BY DEF Transition, FileTransition, Target
    <2>3. model.transitions \in Seq(FileTransition)
        <3> DEFINE ts == model.transitions
        <3>1. ts \in Seq(Transition)
            BY <2>1
        <3> HIDE DEF ts
        <3>2. Len(ts) \in Nat /\ ts \in [1 .. Len(ts) -> FileTransition]
            BY <2>2, <3>1
        <3> QED BY <3>2 DEF ts
    <2>4. model \in File
        BY <2>1, <2>3 DEF File, FileTransition
    <2> QED BY <2>4, TextAssumption DEF DInit, DiagramTypeOK, Drawn
<1> QED BY <1>1, DiagramStep, PTL DEF DSpec

-----------------------------------------------------------------------------
(* Actions *)

LEMMA SyncKeeps ==
    ASSUME DiagramTypeOK, Sync
    PROVE  /\ \A s \in ToSet(model'.states) :
                 \/ s \in ToSet(model.states)
                 \/ s.name \notin StateNames(model) /\ s.action = NoAction
           /\ \A s \in ToSet(model.states) :
                 s.name \in PlainNames(drawing) => s \in ToSet(model'.states)
<1>1. model \in File /\ drawing \in Drawing
    BY DEF DiagramTypeOK, Sync, Drawn
<1>2. model'.states = MergedStates(model, drawing)
    BY <1>1 DEF Sync, Synced, File
<1>3. ToSet(model'.states) = {s \in ToSet(model.states) \cup Added(model, drawing) :
                                 PlainNames(drawing) = {} \/ s.name \in PlainNames(drawing)}
    BY <1>1, <1>2, MergedElements
<1>4. \A s \in Added(model, drawing) : s.name \notin StateNames(model) /\ s.action = NoAction
    BY DEF Added
<1> QED BY <1>3, <1>4

\* Sync loses no entry action and makes none up, whatever is drawn, in which
\* styles, and however old it is (drawio.py:2852).
THEOREM SyncLosesNoAction == DSpec => SyncKeepsActions
<1>1. ASSUME DiagramTypeOK, [DNext]_dVars
      PROVE  Sync =>
               /\ \A s \in ToSet(model'.states) :
                     \/ s \in ToSet(model.states)
                     \/ s.name \notin StateNames(model) /\ s.action = NoAction
               /\ \A s \in ToSet(model.states) :
                     s.name \in {c.name : c \in ToSet(PlainStates(drawing))} => s \in ToSet(model'.states)
    BY <1>1, SyncKeeps DEF PlainNames
<1> QED BY <1>1, DiagramTypes, PTL DEF DSpec, SyncKeepsActions

-----------------------------------------------------------------------------
(* Sequences with the same elements, each as often *)

Times(s, x) == Cardinality({i \in DOMAIN s : s[i] = x})

LEMMA BagOfTimes ==
    ASSUME NEW p, NEW s, Range(p) = Range(s), \A x \in Range(s) : Times(p, x) = Times(s, x)
    PROVE  ToBag(p) = ToBag(s)
<1>1. ToBag(p) = [x \in Range(s) |-> Times(p, x)]
    BY DEF ToBag, Times
<1>2. ToBag(s) = [x \in Range(s) |-> Times(s, x)]
    BY DEF ToBag, Times
<1> HIDE DEF ToBag, Times
<1>3. [x \in Range(s) |-> Times(p, x)] = [x \in Range(s) |-> Times(s, x)]
    OBVIOUS
<1> QED BY <1>1, <1>2, <1>3

LEMMA PlacesBag ==
    ASSUME NEW E, NEW p \in Seq(E), NEW s \in Seq(E), Places(p, s, 1 .. Len(s))
    PROVE  ToBag(p) = ToBag(s)
<1> DEFINE n == Len(s)
<1>0. n \in Nat /\ DOMAIN s = 1 .. n /\ Len(p) \in Nat /\ DOMAIN p = 1 .. Len(p)
    OBVIOUS
<1>1. PICK h \in Bijection(1 .. Len(p), 1 .. n) : \A j \in 1 .. Len(p) : p[j] = s[h[j]]
    BY DEF Places
<1>2. Len(p) = n
    <2>1. ExistsBijection(1 .. Len(p), 1 .. n)
        BY <1>1 DEF ExistsBijection
    <2>2. Cardinality(1 .. n) = Cardinality(1 .. Len(p))
        BY <1>0, <2>1, IntervalSize, FS_Bijection
    <2> QED BY <1>0, <2>2, IntervalSize
<1> HIDE DEF n
<1>3. /\ h \in Bijection(1 .. n, 1 .. n)
      /\ DOMAIN p = 1 .. n /\ \A j \in 1 .. n : p[j] = s[h[j]]
    BY <1>0, <1>1, <1>2
<1>4. /\ \A j \in 1 .. n : h[j] \in 1 .. n
      /\ \A i \in 1 .. n : \E j \in 1 .. n : h[j] = i
    BY <1>3 DEF Bijection, Injection, Surjection
<1>5. Range(p) = Range(s)
    <2>1. ASSUME NEW i \in 1 .. n PROVE \E j \in 1 .. n : p[j] = s[i]
        <3>1. PICK j \in 1 .. n : h[j] = i
            BY ONLY <1>4
        <3>2. p[j] = s[h[j]]
            BY ONLY <1>3
        <3> QED BY ONLY <3>1, <3>2
    <2>2. ASSUME NEW j \in 1 .. n PROVE \E i \in 1 .. n : s[i] = p[j]
        BY ONLY <1>3, <1>4
    <2>3. DOMAIN p = 1 .. n /\ DOMAIN s = 1 .. n
        BY <1>0, <1>3
    <2>4. Range(p) \subseteq Range(s)
        BY ONLY <2>2, <2>3 DEF Range
    <2>5. Range(s) \subseteq Range(p)
        BY ONLY <2>1, <2>3 DEF Range
    <2> QED BY ONLY <2>4, <2>5
<1>6. ASSUME NEW x PROVE Times(p, x) = Times(s, x)
    <2> DEFINE A == {i \in 1 .. n : s[i] = x}
    <2>1. Times(s, x) = Cardinality(A)
        BY <1>0 DEF Times
    <2>2. {j \in 1 .. n : h[j] \in A} = {j \in DOMAIN p : p[j] = x}
        BY <1>3, <1>4
    <2>3. A \subseteq 1 .. n
        OBVIOUS
    <2> HIDE DEF A
    <2>4. Cardinality({j \in 1 .. n : h[j] \in A}) = Cardinality(A)
        BY <1>0, <1>3, <2>3, SameNumber
    <2> QED BY <2>1, <2>2, <2>4 DEF Times
<1> QED BY <1>5, <1>6, BagOfTimes

\* Filtering keeps what is in the set as often as it was.
LEMMA FilteredTimes ==
    ASSUME NEW E, NEW s \in Seq(E), NEW S, NEW x \in S
    PROVE  Times(Filtered(s, S), x) = Times(s, x)
<1> DEFINE p == Filtered(s, S)
           I == {i \in 1 .. Len(s) : s[i] \in S}
           A == {j \in 1 .. Len(p) : p[j] = x}
           B == {i \in 1 .. Len(s) : s[i] = x}
<1>0. Places(p, s, I)
    BY FilteredPlaces
<1>2. p \in Seq(E \cap S)
    BY FilteredIsSeq
<1> HIDE DEF p
<1>1. PICK h \in Bijection(1 .. Len(p), I) : \A j \in 1 .. Len(p) : p[j] = s[h[j]]
    BY <1>0 DEF Places
<1>3. /\ Len(p) \in Nat /\ DOMAIN p = 1 .. Len(p) /\ DOMAIN s = 1 .. Len(s) /\ Len(s) \in Nat
    BY <1>2
<1>4. /\ \A j \in 1 .. Len(p) : h[j] \in I
      /\ \A i, j \in 1 .. Len(p) : h[i] = h[j] => i = j
      /\ \A i \in I : \E j \in 1 .. Len(p) : h[j] = i
    BY <1>1 DEF Bijection, Injection, Surjection, IsInjective
<1> DEFINE g == [j \in A |-> h[j]]
<1>5. g \in [A -> B]
    BY <1>1, <1>4
<1>6. \A i, j \in A : g[i] = g[j] => i = j
    BY <1>4
<1>7. \A i \in B : \E j \in A : g[j] = i
    <2> SUFFICES ASSUME NEW i \in B PROVE \E j \in A : g[j] = i
        OBVIOUS
    <2>1. i \in I
        OBVIOUS
    <2>2. PICK j \in 1 .. Len(p) : h[j] = i
        BY <1>4, <2>1
    <2>3. j \in A
        BY <1>1, <2>2
    <2> QED BY <2>2, <2>3
<1>8. A \subseteq 1 .. Len(p)
    OBVIOUS
<1>9. Times(p, x) = Cardinality(A) /\ Times(s, x) = Cardinality(B)
    BY <1>3 DEF Times
<1> HIDE DEF g, A, B
<1>10. ExistsBijection(A, B)
    <2>1. g \in Bijection(A, B)
        BY <1>5, <1>6, <1>7 DEF Bijection, Injection, Surjection, IsInjective
    <2> QED BY <2>1 DEF ExistsBijection
<1>11. IsFiniteSet(A)
    BY <1>3, <1>8, IntervalSize, FS_Subset
<1>12. Cardinality(B) = Cardinality(A)
    BY <1>10, <1>11, FS_Bijection
<1> QED BY <1>9, <1>12 DEF p

\* Of two sequences of one length, if each element of the first is in the
\* second as often as in the first, then there is nothing else in the second.
LEMMA SameTimes ==
    ASSUME NEW E, NEW s \in Seq(E), NEW u \in Seq(E), Len(s) = Len(u),
           \A x \in Range(s) : Times(s, x) = Times(u, x)
    PROVE  Places(s, u, 1 .. Len(u))
<1> DEFINE n == Len(s)
           At(x, r) == {i \in 1 .. n : r[i] = x}
<1>1. n \in Nat /\ DOMAIN s = 1 .. n /\ DOMAIN u = 1 .. n
    OBVIOUS
<1> HIDE DEF n
<1>2. ASSUME NEW x \in Range(s) PROVE \E k : k \in Bijection(At(x, s), At(x, u))
    <2>1. Cardinality(At(x, s)) = Cardinality(At(x, u))
        BY <1>1 DEF Times
    <2>2. At(x, s) \subseteq 1 .. n /\ At(x, u) \subseteq 1 .. n
        OBVIOUS
    <2> HIDE DEF At
    <2>3. IsFiniteSet(At(x, s)) /\ IsFiniteSet(At(x, u))
        BY <1>1, <2>2, IntervalSize, FS_Subset
    <2>4. ExistsBijection(At(x, s), At(x, u))
        BY <2>1, <2>3, FS_SameCardinalityBij
    <2> QED BY <2>4 DEF ExistsBijection
<1> DEFINE K(x) == CHOOSE k : k \in Bijection(At(x, s), At(x, u))
           h == [i \in 1 .. n |-> K(s[i])[i]]
<1>3. \A x \in Range(s) : K(x) \in Bijection(At(x, s), At(x, u))
    BY <1>2
<1> HIDE DEF K
<1>4. ASSUME NEW i \in 1 .. n PROVE h[i] \in 1 .. n /\ u[h[i]] = s[i]
    <2>1. s[i] \in Range(s) /\ i \in At(s[i], s)
        BY <1>1 DEF Range
    <2>2. K(s[i])[i] \in At(s[i], u)
        BY <1>3, <2>1 DEF Bijection, Injection
    <2> QED BY <2>2
<1>5. ASSUME NEW i \in 1 .. n, NEW j \in 1 .. n, h[i] = h[j] PROVE i = j
    <2>1. s[i] = s[j]
        BY <1>4, <1>5
    <2> DEFINE x == s[i]
    <2>2. x \in Range(s) /\ i \in At(x, s) /\ j \in At(x, s)
        BY <1>1, <2>1 DEF Range
    <2>3. K(x)[i] = K(x)[j]
        BY <1>5, <2>1
    <2>4. K(x) \in Bijection(At(x, s), At(x, u))
        BY <1>3, <2>2
    <2> HIDE DEF x, At, h
    <2> QED BY <2>2, <2>3, <2>4 DEF Bijection, Injection, IsInjective
<1> HIDE DEF At
<1>6. h \in [1 .. n -> 1 .. n]
    BY <1>4
<1>7. \A i \in 1 .. n : s[i] = u[h[i]]
    BY <1>4
<1> HIDE DEF h
<1>8. h \in Injection(1 .. n, 1 .. n)
    BY <1>5, <1>6 DEF Injection, IsInjective
<1>9. h \in Surjection(1 .. n, 1 .. n)
    BY <1>1, <1>8, IntervalSize, FS_Injection
<1>10. h \in Bijection(1 .. n, 1 .. n)
    BY <1>8, <1>9 DEF Bijection
<1> QED BY <1>7, <1>10 DEF Places, n

-----------------------------------------------------------------------------
(* What a drawing says *)

ArrowType == [from : Name \cup {Nowhere}, to : Target \cup {Nowhere}, event : Event \cup {NoEvent},
              guard : Guard \cup {NoGuard}]

LEMMA ArrowsType ==
    ASSUME NEW d \in Drawing
    PROVE  /\ DrawnArrows(d) \in Seq(ArrowType)
           /\ Len(DrawnArrows(d)) = Len(d.edges)
           /\ \A i \in 1 .. Len(d.edges) : DrawnArrows(d)[i] = EdgeArrow(d.edges[i])
<1> DEFINE es == d.edges
<1>1. es \in Seq(EdgeCell)
    BY DEF Drawing
<1>2. DrawnArrows(d) = [i \in DOMAIN es |-> EdgeArrow(es[i])]
    BY DEF DrawnArrows
<1>3. \A c \in EdgeCell : EdgeArrow(c) \in ArrowType
    BY DEF EdgeCell, EdgeArrow, Arrow, ArrowType
<1> HIDE DEF es
<1>4. Len(es) \in Nat /\ DOMAIN es = 1 .. Len(es) /\ \A i \in 1 .. Len(es) : es[i] \in EdgeCell
    BY <1>1
<1>5. DrawnArrows(d) \in [1 .. Len(es) -> ArrowType]
    BY <1>2, <1>3, <1>4
<1>6. \A i \in 1 .. Len(es) : DrawnArrows(d)[i] = EdgeArrow(es[i])
    BY <1>2, <1>4
<1> HIDE DEF DrawnArrows
<1> QED BY <1>4, <1>5, <1>6 DEF es

\* Lists that are sorted alike have the same transitions, each as often.
LEMMA SortedAlikePlaces ==
    ASSUME NEW E, NEW ts \in Seq(E), NEW us \in Seq(E), SortedAlike(ts, us)
    PROVE  Places(ts, us, 1 .. Len(us))
<1>1. Len(ts) = Len(us) /\ \A t \in ToSet(ts) : Siblings(t, ts) = Siblings(t, us)
    BY DEF SortedAlike
<1>2. ASSUME NEW t \in Range(ts) PROVE Times(ts, t) = Times(us, t)
    <2> DEFINE A == {u \in ToSet(ts) : Sibling(t, u)}
               B == {u \in ToSet(us) : Sibling(t, u)}
    <2>1. Filtered(ts, A) = Filtered(us, B)
        BY <1>1, <1>2 DEF Siblings, Range, ToSet
    <2>2. t \in A
        BY <1>2 DEF Sibling, Range, ToSet
    <2>3. PICK i \in DOMAIN ts : ts[i] = t
        BY <1>2 DEF Range
    <2>4. t \in B
        <3> HIDE DEF A, B
        <3>1. \E j \in DOMAIN Filtered(ts, A) : Filtered(ts, A)[j] = t
            BY <2>2, <2>3, FilteredElements
        <3>2. \E j \in DOMAIN Filtered(us, B) : Filtered(us, B)[j] = t
            BY <2>1, <3>1
        <3> QED BY <3>2, FilteredElements
    <2> HIDE DEF A, B
    <2>5. Times(Filtered(ts, A), t) = Times(ts, t)
        BY <2>2, FilteredTimes
    <2>6. Times(Filtered(us, B), t) = Times(us, t)
        BY <2>4, FilteredTimes
    <2> QED BY <2>1, <2>5, <2>6
<1> QED BY <1>1, <1>2, SameTimes

\* What is read from the label of an edge, or is in it.
Labelled == [from : Name \cup {Nowhere}, to : Target \cup {Nowhere}, event : Event \cup {NoEvent},
             params : Param \cup {NoParams}, guard : Guard \cup {NoGuard}]

LEMMA FileTransitionsType ==
    ASSUME NEW m \in File
    PROVE  /\ FileTransitions(m) \in Seq(Labelled)
           /\ DOMAIN FileTransitions(m) = DOMAIN m.transitions
<1> DEFINE ts == m.transitions
           said(t) == [from |-> t.from, to |-> t.to, event |-> t.event,
                       params |-> ParamsOf(m, t.event), guard |-> t.guard]
<1>1. ts \in Seq(FileTransition)
    BY DEF File, FileTransition
<1>2. ASSUME NEW t \in FileTransition PROVE said(t) \in Labelled
    <2>1. /\ t.from \in Name /\ t.to \in Target /\ t.event \in Event \cup {NoEvent}
          /\ t.guard \in Guard \cup {NoGuard}
        BY DEF FileTransition
    <2>2. ParamsOf(m, t.event) \in Param \cup {NoParams}
        BY <2>1, ParamsType
    <2> QED BY <2>1, <2>2 DEF Labelled
<1>3. FileTransitions(m) = [i \in DOMAIN ts |-> said(ts[i])]
    BY DEF FileTransitions
<1> HIDE DEF ts, said
<1>4. Len(ts) \in Nat /\ DOMAIN ts = 1 .. Len(ts) /\ \A i \in 1 .. Len(ts) : ts[i] \in FileTransition
    BY <1>1
<1>5. FileTransitions(m) \in [1 .. Len(ts) -> Labelled]
    BY <1>2, <1>3, <1>4
<1> QED BY <1>4, <1>5 DEF ts

\* Of what the tools read, a completion has no guard, and no guard is one that
\* they cannot read.
LEMMA DrawnType ==
    ASSUME NEW d \in Drawing
    PROVE  /\ DrawnTransitions(d) \in Seq(Labelled)
           /\ \A i \in DOMAIN DrawnTransitions(d) :
                 LET u == DrawnTransitions(d)[i]
                 IN  (u.event = NoEvent => u.guard = NoGuard) /\ u.guard \notin Unread
<1> DEFINE S == {c \in ToSet(d.edges) : /\ c.target # Nowhere
                                        /\ c.id.event # NoEvent => c.event # NoEvent}
           legible == Filtered(d.edges, S)
           read(c) == [from   |-> c.id.from,
                       to     |-> c.target,
                       event  |-> IF c.id.event = NoEvent THEN NoEvent ELSE c.event,
                       params |-> IF c.id.event = NoEvent THEN NoParams ELSE c.params,
                       guard  |-> IF c.id.event = NoEvent \/ c.guard \in Unread THEN NoGuard
                                  ELSE c.guard]
<1>1. d.edges \in Seq(EdgeCell)
    BY DEF Drawing
<1>2. ASSUME NEW c \in EdgeCell, c \in S
      PROVE  /\ read(c) \in Labelled
             /\ read(c).event = NoEvent => read(c).guard = NoGuard
             /\ read(c).guard \notin Unread
    <2>1. /\ c.id.from \in Name /\ c.id.event \in Event \cup {NoEvent} /\ c.target \in Target \cup {Nowhere}
          /\ c.event \in Event \cup {NoEvent} /\ c.params \in Param \cup {NoParams}
          /\ c.guard \in Guard \cup {NoGuard}
        BY DEF EdgeCell
    <2>2. c.id.event # NoEvent => c.event # NoEvent
        BY <1>2
    <2>3. NoGuard \notin Unread
        BY TextAssumption
    <2>4. read(c) \in Labelled
        BY <2>1 DEF Labelled
    <2>5. read(c).event = NoEvent => read(c).guard = NoGuard
        BY <2>2
    <2>6. read(c).guard \notin Unread
        BY <2>3
    <2> QED BY <2>4, <2>5, <2>6
<1>3. DrawnTransitions(d) = [i \in DOMAIN legible |-> read(legible[i])]
    BY DEF DrawnTransitions
<1> HIDE DEF S, read
<1>4. legible \in Seq(EdgeCell \cap S)
    BY <1>1, FilteredIsSeq
<1> HIDE DEF legible
<1>5. Len(legible) \in Nat /\ DOMAIN legible = 1 .. Len(legible)
      /\ \A i \in 1 .. Len(legible) : legible[i] \in EdgeCell /\ legible[i] \in S
    BY <1>4
<1>6. DrawnTransitions(d) \in [1 .. Len(legible) -> Labelled]
    BY <1>2, <1>3, <1>5
<1>7. ASSUME NEW i \in DOMAIN legible
      PROVE  LET u == DrawnTransitions(d)[i]
             IN  (u.event = NoEvent => u.guard = NoGuard) /\ u.guard \notin Unread
    <2>1. DrawnTransitions(d)[i] = read(legible[i])
        BY <1>3
    <2> QED BY <1>2, <1>5, <1>7, <2>1
<1>8. DOMAIN DrawnTransitions(d) = DOMAIN legible
    BY <1>3
<1> QED BY <1>5, <1>6, <1>7, <1>8

\* What a file says, as the tools read it in a drawing, and as it is seen there.
AsRead(m) == [i \in DOMAIN FileTransitions(m) |-> ReadBack(FileTransitions(m)[i])]

AsShown(m) == [i \in DOMAIN FileTransitions(m) |-> Shown(FileTransitions(m)[i])]

\* A drawing that is made anew shows every transition of the file in its place.
LEMMA RenderedTransitions ==
    ASSUME NEW m \in File
    PROVE  /\ SeenTransitions(DrawingOf(m)) = AsShown(m)
           /\ DrawnTransitions(DrawingOf(m)) = AsRead(m)
<1> DEFINE ts == m.transitions
           es == EdgeCells(m)
           fs == FileTransitions(m)
           S == {c \in ToSet(es) : /\ c.target # Nowhere
                                   /\ c.id.event # NoEvent => c.event # NoEvent}
           read(c) == [from   |-> c.id.from,
                       to     |-> c.target,
                       event  |-> IF c.id.event = NoEvent THEN NoEvent ELSE c.event,
                       params |-> IF c.id.event = NoEvent THEN NoParams ELSE c.params,
                       guard  |-> IF c.id.event = NoEvent \/ c.guard \in Unread THEN NoGuard
                                  ELSE c.guard]
           seen(c) == [from |-> c.source, to |-> c.target, event |-> c.event,
                       params |-> c.params, guard |-> c.guard]
<1>1. ts \in Seq(FileTransition)
    BY DEF File, FileTransition
<1>2. /\ DOMAIN es = DOMAIN ts /\ DOMAIN fs = DOMAIN ts
      /\ es \in Seq(EdgeCell)
    <2>1. DrawingOf(m).edges = es
        BY DEF DrawingOf
    <2> QED BY <2>1, RenderedType DEF Drawing, EdgeCells, FileTransitions
<1>3. ASSUME NEW i \in DOMAIN ts
      PROVE  /\ seen(es[i]) = Shown(fs[i])
             /\ read(es[i]) = ReadBack(fs[i])
             /\ es[i] \in S
    <2> DEFINE t == ts[i]
               g == IF t.event = NoEvent THEN NoGuard ELSE t.guard
               ps == ParamsOf(m, t.event)
    <2>1. /\ es[i].id.from = t.from /\ es[i].id.event = t.event
          /\ es[i].source = t.from /\ es[i].target = t.to /\ es[i].event = t.event
          /\ es[i].params = ps /\ es[i].guard = g
        BY DEF EdgeCells
    <2>2. fs[i] = [from |-> t.from, to |-> t.to, event |-> t.event, params |-> ps, guard |-> t.guard]
        BY DEF FileTransitions
    <2>3. t \in FileTransition
        BY <1>1
    <2>4. t.to # Nowhere
        BY <2>3, TextAssumption DEF FileTransition, Target
    <2>5. t.event = NoEvent => ps = NoParams
        BY DEF ParamsOf
    <2>6. es[i] \in ToSet(es)
        BY <1>2 DEF ToSet
    <2> HIDE DEF es, fs, ps, t
    <2>7. Shown(fs[i]) = [from |-> t.from, to |-> t.to, event |-> t.event, params |-> ps, guard |-> g]
        BY <2>2 DEF Shown
    <2>8. ReadBack(fs[i]) = [from |-> t.from, to |-> t.to, event |-> t.event, params |-> ps,
                             guard |-> IF t.event = NoEvent \/ t.guard \in Unread THEN NoGuard
                                       ELSE t.guard]
        BY <2>2 DEF ReadBack
    <2>9. read(es[i]) = [from |-> t.from, to |-> t.to, event |-> t.event, params |-> ps,
                         guard |-> IF t.event = NoEvent \/ t.guard \in Unread THEN NoGuard
                                   ELSE t.guard]
        BY <2>1, <2>5
    <2>10. seen(es[i]) = Shown(fs[i])
        BY <2>1, <2>7
    <2>11. es[i] \in S
        BY <2>1, <2>4, <2>6
    <2> QED BY <2>8, <2>9, <2>10, <2>11
<1>4. Filtered(es, S) = es
    <2> HIDE DEF S, es
    <2> QED BY <1>2, <1>3, FilteredAll
<1>5. DrawnTransitions(DrawingOf(m)) = [i \in DOMAIN es |-> read(es[i])]
    <2>1. DrawnTransitions(DrawingOf(m)) =
             [i \in DOMAIN Filtered(es, S) |-> read(Filtered(es, S)[i])]
        BY DEF DrawnTransitions, DrawingOf
    <2> HIDE DEF S, es, read
    <2> QED BY <1>4, <2>1
<1>6. SeenTransitions(DrawingOf(m)) = [i \in DOMAIN es |-> seen(es[i])]
    BY DEF SeenTransitions, DrawingOf
<1> HIDE DEF ts, es, fs, S, read, seen
<1>7. AsRead(m) = [i \in DOMAIN fs |-> ReadBack(fs[i])] /\ AsShown(m) = [i \in DOMAIN fs |-> Shown(fs[i])]
    BY DEF AsRead, AsShown, fs
<1> QED BY <1>2, <1>3, <1>5, <1>6, <1>7

\* If the tools find no difference, then the drawing has nothing that they
\* could not read, and says what the file says.
LEMMA MatchingSays ==
    ASSUME NEW m \in File, NEW d \in Drawing, Matches(m, d)
    PROVE  /\ Agree(m, d)
           /\ ToBag(DrawnTransitions(d)) = ToBag(AsRead(m))
           /\ ToBag(DrawnTransitions(d)) = ToBag(AsShown(m))
<1> DEFINE ts == FileTransitions(m)
           us == DrawnTransitions(d)
<1>1. ts \in Seq(Labelled) /\ us \in Seq(Labelled) /\ SortedAlike(ts, us)
    BY FileTransitionsType, DrawnType DEF Matches
<1>2. \A j \in DOMAIN us : (us[j].event = NoEvent => us[j].guard = NoGuard) /\ us[j].guard \notin Unread
    BY DrawnType
<1>3. AsRead(m) = [i \in DOMAIN ts |-> ReadBack(ts[i])] /\ AsShown(m) = [i \in DOMAIN ts |-> Shown(ts[i])]
    BY DEF AsRead, AsShown
<1> HIDE DEF ts, us
<1>4. Places(ts, us, 1 .. Len(us))
    BY <1>1, SortedAlikePlaces
<1>5. ToBag(ts) = ToBag(us)
    BY <1>1, <1>4, PlacesBag
<1>6. DOMAIN ts = 1 .. Len(ts) /\ DOMAIN us = 1 .. Len(us) /\ ts = [i \in DOMAIN ts |-> ts[i]]
    BY <1>1
<1>7. ASSUME NEW i \in DOMAIN ts PROVE ReadBack(ts[i]) = ts[i] /\ Shown(ts[i]) = ts[i]
    <2>1. PICK h \in Bijection(1 .. Len(ts), 1 .. Len(us)) : \A k \in 1 .. Len(ts) : ts[k] = us[h[k]]
        BY <1>4 DEF Places
    <2>2. h[i] \in DOMAIN us /\ ts[i] = us[h[i]]
        BY <1>6, <2>1 DEF Bijection, Injection
    <2> DEFINE t == ts[i]
    <2>3. t \in Labelled /\ (t.event = NoEvent => t.guard = NoGuard) /\ t.guard \notin Unread
        BY <1>1, <1>2, <2>2
    <2> HIDE DEF t
    <2>4. [t EXCEPT !.guard = t.guard] = t
        BY <2>3 DEF Labelled
    <2>5. ReadBack(t) = t /\ Shown(t) = t
        BY <2>3, <2>4 DEF ReadBack, Shown
    <2> QED BY <2>5 DEF t
<1>8. AsRead(m) = ts /\ AsShown(m) = ts
    BY <1>3, <1>6, <1>7
<1>9. Agree(m, d)
    BY DEF Matches, Agree
<1> QED BY <1>5, <1>8, <1>9 DEF us

LEMMA RenderedAgrees ==
    ASSUME NEW m \in File
    PROVE  Agree(m, DrawingOf(m))
<1> DEFINE d == DrawingOf(m)
           cs == StateCells(m)
           ss == m.states
<1>1. d.start = m.initial /\ d.states = cs /\ d.boxes = m.methods
    BY DEF DrawingOf
<1>2. /\ DOMAIN cs = DOMAIN ss
      /\ \A i \in DOMAIN ss : cs[i].name = ss[i].name /\ cs[i].action = ss[i].action
    BY DEF StateCells
<1> HIDE DEF cs, ss, d
<1>3. {<<c.name, c.action>> : c \in ToSet(cs)} = {<<s.name, s.action>> : s \in ToSet(ss)}
    BY <1>2 DEF ToSet
<1> QED BY <1>1, <1>3 DEF Agree, ss, d

\* A drawing that says what the file says in the same order is recognised.
LEMMA SameOrderMatches ==
    ASSUME NEW m \in File, NEW d \in Drawing, d # NoDrawing, DomainIsTitle,
           m.states # <<>>, d.start = m.initial, d.boxes = m.methods,
           [i \in DOMAIN d.states |-> [name |-> d.states[i].name, action |-> d.states[i].action]] = m.states,
           DrawnTransitions(d) = FileTransitions(m)
    PROVE  Matches(m, d)
<1> DEFINE cs == d.states
           ss == m.states
           both(c) == [name |-> c.name, action |-> c.action]
<1>1. cs \in Seq(StateCell) /\ ss \in Seq(StateDef)
    BY DEF Drawing, File
<1>2. ss = [i \in DOMAIN cs |-> both(cs[i])]
    OBVIOUS
<1>3. /\ DOMAIN ss = DOMAIN cs
      /\ \A i \in DOMAIN cs : ss[i].name = cs[i].name /\ ss[i].action = cs[i].action
    <2>1. \A c : both(c).name = c.name /\ both(c).action = c.action
        OBVIOUS
    <2> HIDE DEF cs, ss, both
    <2> QED BY <1>2, <2>1
<1>4. ss # <<>>
    OBVIOUS
<1> HIDE DEF cs, ss, both
<1>5. Len(cs) = Len(ss) /\ cs # <<>>
    <2>1. Len(cs) \in Nat /\ Len(ss) \in Nat /\ 1 .. Len(cs) = 1 .. Len(ss)
        BY <1>1, <1>3
    <2>2. Len(ss) \in 1 .. Len(ss)
        BY <1>1, <1>4, <2>1
    <2>3. Len(cs) = Len(ss)
        BY ONLY <2>1, <2>2
    <2> QED BY <1>1, <2>2, <2>3
<1>6. {<<c.name, c.action>> : c \in ToSet(cs)} = {<<s.name, s.action>> : s \in ToSet(ss)}
    BY <1>3 DEF ToSet
<1>7. SortedAlike(FileTransitions(m), DrawnTransitions(d))
    BY DEF SortedAlike
<1> QED BY <1>5, <1>6, <1>7 DEF Matches, cs, ss

LEMMA RenderSays == DiagramTypeOK => RenderShowsFile
<1> SUFFICES ASSUME DiagramTypeOK, NEW force \in BOOLEAN
             PROVE  LET after == Rendered(force)
                        ts == FileTransitions(model)
                        seen == Drawn => DrawnTransitions(drawing) = SeenTransitions(drawing)
                    IN  /\ Agree(model, after)
                        /\ ToBag(DrawnTransitions(after)) = ToBag(AsRead(model))
                        /\ force \/ seen => ToBag(SeenTransitions(after)) = ToBag(AsShown(model))
                        /\ Drawn /\ seen /\ ~force /\ DomainIsTitle /\ model.states # <<>>
                           /\ drawing.start = model.initial /\ drawing.boxes = model.methods
                           /\ [i \in DOMAIN drawing.states |->
                                 [name |-> drawing.states[i].name, action |-> drawing.states[i].action]]
                              = model.states
                           /\ SeenTransitions(drawing) = ts
                           => after = drawing
    BY DEF RenderShowsFile, AsRead, AsShown
<1> DEFINE after == Rendered(force)
<1>1. model \in File /\ (Drawn => drawing \in Drawing)
    BY DEF DiagramTypeOK
<1>2. after = IF ~force /\ Matches(model, drawing) THEN drawing ELSE DrawingOf(model)
    BY DEF Rendered
<1> HIDE DEF after
<1>3. CASE ~force /\ Matches(model, drawing)
    <2>1. Drawn /\ after = drawing
        BY <1>2, <1>3 DEF Matches, Drawn
    <2>2. /\ Agree(model, drawing)
          /\ ToBag(DrawnTransitions(drawing)) = ToBag(AsRead(model))
          /\ ToBag(DrawnTransitions(drawing)) = ToBag(AsShown(model))
        BY <1>1, <1>3, <2>1, MatchingSays
    <2> QED BY <1>3, <2>1, <2>2 DEF after
<1>4. CASE ~(~force /\ Matches(model, drawing))
    <2>1. after = DrawingOf(model)
        BY <1>2, <1>4
    <2>2. /\ Agree(model, after)
          /\ DrawnTransitions(after) = AsRead(model)
          /\ SeenTransitions(after) = AsShown(model)
        BY <1>1, <2>1, RenderedAgrees, RenderedTransitions
    <2>3. Drawn /\ DrawnTransitions(drawing) = FileTransitions(model)
          /\ DomainIsTitle /\ model.states # <<>>
          /\ drawing.start = model.initial /\ drawing.boxes = model.methods
          /\ [i \in DOMAIN drawing.states |->
                [name |-> drawing.states[i].name, action |-> drawing.states[i].action]]
             = model.states
          => Matches(model, drawing)
        BY <1>1, SameOrderMatches DEF Drawn
    <2> QED BY <1>4, <2>2, <2>3 DEF after
<1> QED BY <1>3, <1>4

\* After a render, whatever was done to file and drawing before, the tools read
\* in the drawing what the file says; so does who looks at it, if it was made
\* anew or if the tools had seen the old one as it was: without loose or moved
\* edges and without guards that they cannot read (drawio.py:1306, 1349). And
\* what was arranged by hand is only overwritten if it says something else, or
\* in another order (drawio.py:1316, 2233).
THEOREM RenderingShowsTheFile == DSpec => []RenderShowsFile
<1> QED BY RenderSays, DiagramTypes, PTL

-----------------------------------------------------------------------------
(* The ids in a drawing *)

Identified(es) == \A i, j \in DOMAIN es : es[i].id = es[j].id => i = j

\* No two edges of a drawing have the same id: sync takes them for one.
IdsDiffer == Drawn => Identified(drawing.edges)

LEMMA FilteredIds ==
    ASSUME NEW es \in Seq(EdgeCell), Identified(es), NEW S
    PROVE  Identified(Filtered(es, S))
<1> DEFINE p == Filtered(es, S)
           I == {i \in 1 .. Len(es) : es[i] \in S}
<1>1. p \in Seq(EdgeCell \cap S) /\ Places(p, es, I)
    BY FilteredIsSeq, FilteredPlaces
<1>2. DOMAIN p = 1 .. Len(p) /\ DOMAIN es = 1 .. Len(es)
    BY <1>1
<1> HIDE DEF p
<1>3. PICK h \in Bijection(1 .. Len(p), I) : \A j \in 1 .. Len(p) : p[j] = es[h[j]]
    BY <1>1 DEF Places
<1>4. /\ \A j \in 1 .. Len(p) : h[j] \in DOMAIN es
      /\ \A i, j \in 1 .. Len(p) : h[i] = h[j] => i = j
    BY <1>2, <1>3 DEF Bijection, Injection, IsInjective
<1>5. \A i, j \in 1 .. Len(p) : p[i].id = p[j].id => h[i] = h[j]
    BY <1>3, <1>4 DEF Identified
<1> QED BY <1>2, <1>4, <1>5 DEF Identified, p

LEMMA RemovedIds ==
    ASSUME NEW es \in Seq(EdgeCell), Identified(es), NEW k \in DOMAIN es
    PROVE  /\ Identified(RemoveAt(es, k))
           /\ \A j \in DOMAIN RemoveAt(es, k) : RemoveAt(es, k)[j].id # es[k].id
<1> DEFINE r == RemoveAt(es, k)
           n == Len(es)
           old(j) == IF j < k THEN j ELSE j + 1
<1>1. /\ DOMAIN r = 1 .. (n - 1) /\ n \in Nat /\ DOMAIN es = 1 .. n
      /\ \A j \in 1 .. (n - 1) : r[j] = IF j < k THEN es[j] ELSE es[j + 1]
    BY RemovedAt
<1> HIDE DEF r, n
<1>2. \A j \in 1 .. (n - 1) : r[j] = es[old(j)]
    BY <1>1
<1>3. \A j \in 1 .. (n - 1) : old(j) \in DOMAIN es /\ old(j) # k
    BY <1>1
<1>4. \A i, j \in 1 .. (n - 1) : old(i) = old(j) => i = j
    BY <1>1
<1> HIDE DEF old
<1> QED BY <1>1, <1>2, <1>3, <1>4 DEF Identified, r

LEMMA AppendedIds ==
    ASSUME NEW es \in Seq(EdgeCell), Identified(es), NEW c \in EdgeCell,
           \A j \in DOMAIN es : es[j].id # c.id
    PROVE  Identified(Append(es, c))
<1> DEFINE u == Append(es, c)
           n == Len(es)
<1>1. /\ DOMAIN u = 1 .. n + 1 /\ n \in Nat /\ DOMAIN es = 1 .. n
      /\ u[n + 1] = c /\ \A j \in 1 .. n : u[j] = es[j]
    OBVIOUS
<1> HIDE DEF u, n
<1>2. \A j \in 1 .. n + 1 : j = n + 1 \/ j \in 1 .. n
    BY <1>1
<1>3. \A j \in 1 .. n : u[j].id # u[n + 1].id
    BY <1>1
<1>4. \A i, j \in 1 .. n : u[i].id = u[j].id => i = j
    BY <1>1 DEF Identified
<1> HIDE <1>1
<1>5. \A i, j \in 1 .. n + 1 : u[i].id = u[j].id => i = j
    BY <1>2, <1>3, <1>4
<1> QED BY <1>1, <1>5 DEF Identified, u

\* Whatever else is changed in the cells, their ids stay.
LEMMA SameIds ==
    ASSUME NEW es, NEW us, Identified(es), DOMAIN us = DOMAIN es,
           \A j \in DOMAIN es : us[j].id = es[j].id
    PROVE  Identified(us)
BY DEF Identified

LEMMA ReplacedIds ==
    ASSUME NEW es \in Seq(EdgeCell), Identified(es), NEW i \in DOMAIN es, NEW v, v.id = es[i].id
    PROVE  Identified([es EXCEPT ![i] = v])
<1> DEFINE us == [es EXCEPT ![i] = v]
<1>1. DOMAIN us = DOMAIN es
    OBVIOUS
<1>2. \A j \in DOMAIN es : us[j] = IF j = i THEN v ELSE es[j]
    OBVIOUS
<1> HIDE DEF us
<1>3. \A j \in DOMAIN es : us[j].id = es[j].id
    BY <1>2
<1> QED BY <1>1, <1>3, SameIds DEF us

LEMMA RenderedIds ==
    ASSUME NEW m \in File
    PROVE  Identified(DrawingOf(m).edges)
<1> DEFINE ts == m.transitions
           es == EdgeCells(m)
<1>1. ts \in Seq(FileTransition)
    BY DEF File, FileTransition
<1>2. DOMAIN es = DOMAIN ts /\ DOMAIN ts \subseteq Nat
    BY <1>1 DEF EdgeCells
<1>3. \A i \in DOMAIN ts : es[i].id.idx = i - 1
    BY DEF EdgeCells
<1>4. DrawingOf(m).edges = es
    BY DEF DrawingOf
<1> HIDE DEF es, ts
<1>5. ASSUME NEW i \in DOMAIN es, NEW j \in DOMAIN es, es[i].id = es[j].id PROVE i = j
    <2>1. i - 1 = j - 1
        BY <1>2, <1>3, <1>5
    <2> QED BY <1>2, <2>1
<1> QED BY <1>4, <1>5 DEF Identified

LEMMA EraseStateIds ==
    ASSUME drawing \in Drawing, Identified(drawing.edges), NEW k \in DOMAIN drawing.states, EraseState(k)
    PROVE  Identified(drawing'.edges)
<1> DEFINE x == drawing.states[k].name
           es == drawing.edges
           away == {c \in ToSet(es) : x \notin {c.source, c.target}}
           loose == [j \in DOMAIN es |-> Loosened(es[j], x)]
           cs == Without(drawing.states, k)
           start == Loose(drawing.start, x)
<1>1. PICK edges \in {Filtered(es, away), loose} :
         drawing' = [drawing EXCEPT !.states = cs, !.start = start, !.edges = edges]
    BY DEF EraseState, Draw
<1>2. es \in Seq(EdgeCell)
    BY DEF Drawing
<1>3. drawing'.edges = edges
    <2> HIDE DEF cs, start, es, away, loose
    <2> QED BY <1>1 DEF Drawing
<1>4. Identified(Filtered(es, away))
    <2> HIDE DEF away
    <2> QED BY <1>2, FilteredIds
<1>5. Identified(loose)
    <2>1. DOMAIN loose = DOMAIN es
        OBVIOUS
    <2>2. ASSUME NEW j \in DOMAIN es PROVE loose[j].id = es[j].id
        <3>1. loose[j] = Loosened(es[j], x) /\ es[j] \in EdgeCell
            BY <1>2
        <3> HIDE DEF loose, es, x
        <3> QED BY <3>1 DEF Loosened, EdgeCell
    <2> HIDE DEF loose, es
    <2> QED BY <2>1, <2>2, SameIds DEF es
<1> QED BY <1>1, <1>3, <1>4, <1>5

LEMMA EditIds ==
    ASSUME model \in File, drawing \in Drawing, Identified(drawing.edges), EditDrawing
    PROVE  Identified(drawing'.edges)
<1> DEFINE es == drawing.edges
<1>1. es \in Seq(EdgeCell) /\ \A i \in DOMAIN es : es[i] \in EdgeCell
    BY DEF Drawing
<1>2. ASSUME NEW us, drawing' = [drawing EXCEPT !.edges = us], Identified(us)
      PROVE  Identified(drawing'.edges)
    BY <1>2 DEF Drawing
<1>3. ASSUME NEW i \in DOMAIN es, EraseEdge(i) PROVE Identified(drawing'.edges)
    <2>1. drawing' = [drawing EXCEPT !.edges = RemoveAt(es, i)]
        BY <1>3 DEF EraseEdge, Draw, Without
    <2>2. Identified(RemoveAt(es, i))
        BY <1>1, RemovedIds
    <2> QED BY <1>2, <2>1, <2>2
<1>4. ASSUME NEW x, AddState(x) PROVE Identified(drawing'.edges)
    BY <1>4 DEF AddState, Draw, Drawing
<1>5. ASSUME NEW x \in DrawnNames, NEW y \in DrawnNames \cup {Terminal}, NEW e \in Event \cup {NoEvent},
             NEW g \in Guard \cup {NoGuard}, NEW n \in 0 .. Len(drawing.edges), AddEdge(x, y, e, g, n)
      PROVE  Identified(drawing'.edges)
    <2> DEFINE c == [id |-> [from |-> x, event |-> e, idx |-> n], source |-> x, target |-> y,
                     event |-> e, params |-> ParamsOf(model, e), guard |-> g, plain |-> TRUE]
    <2>1. drawing' = [drawing EXCEPT !.edges = Append(es, c)] /\ c.id \notin {u.id : u \in ToSet(es)}
        BY <1>5 DEF AddEdge, Draw
    <2>2. \A j \in DOMAIN es : es[j].id # c.id
        BY <2>1 DEF ToSet
    <2>3. DrawnNames \subseteq Name
        <3>1. \A u \in ToSet(drawing.states) : u \in StateCell
            BY DEF Drawing, ToSet
        <3> QED BY <3>1 DEF DrawnNames, StateCell
    <2>4. n \in Nat /\ x \in Name /\ y \in Target /\ ParamsOf(model, e) \in Param \cup {NoParams}
        BY <2>3, ParamsType DEF Drawing, Target
    <2>5. c \in EdgeCell
        BY <2>4 DEF EdgeCell
    <2> HIDE DEF c, es
    <2>6. Identified(Append(es, c))
        BY <1>1, <2>2, <2>5, AppendedIds DEF es
    <2> QED BY <1>2, <2>1, <2>6
<1>6. ASSUME NEW i \in DOMAIN es, NEW y, Retarget(i, y) PROVE Identified(drawing'.edges)
    <2> DEFINE u == [es[i] EXCEPT !.source = y]
               v == [es[i] EXCEPT !.target = y]
    <2>1. \/ drawing' = [drawing EXCEPT !.edges = [es EXCEPT ![i] = u]]
          \/ drawing' = [drawing EXCEPT !.edges = [es EXCEPT ![i] = v]]
        BY <1>6 DEF Retarget, Draw
    <2>2. u.id = es[i].id /\ v.id = es[i].id
        BY <1>1 DEF EdgeCell
    <2> HIDE DEF u, v
    <2>3. Identified([es EXCEPT ![i] = u]) /\ Identified([es EXCEPT ![i] = v])
        BY <1>1, <2>2, ReplacedIds
    <2> QED BY <1>2, <2>1, <2>3
<1>7. ASSUME NEW i \in DOMAIN es, NEW e, NEW p, NEW g, Relabel(i, e, p, g)
      PROVE  Identified(drawing'.edges)
    <2> DEFINE v == [es[i] EXCEPT !.event = e, !.params = p, !.guard = g]
    <2>1. drawing' = [drawing EXCEPT !.edges = [es EXCEPT ![i] = v]]
        BY <1>1, <1>7 DEF Relabel, Draw
    <2>2. v.id = es[i].id
        BY <1>1 DEF EdgeCell
    <2> HIDE DEF v
    <2>3. Identified([es EXCEPT ![i] = v])
        BY <1>1, <2>2, ReplacedIds
    <2> QED BY <1>2, <2>1, <2>3
<1>8. ASSUME Restyle PROVE Identified(drawing'.edges)
    <2>1. CASE \E i \in DOMAIN drawing.states : Draw([drawing EXCEPT !.states[i].plain = FALSE])
        BY <2>1 DEF Draw, Drawing
    <2>2. CASE \E i \in DOMAIN es : Draw([drawing EXCEPT !.edges[i].plain = FALSE])
        <3>1. PICK i \in DOMAIN es : drawing' = [drawing EXCEPT !.edges[i].plain = FALSE]
            BY <2>2 DEF Draw
        <3> DEFINE v == [es[i] EXCEPT !.plain = FALSE]
        <3>2. drawing' = [drawing EXCEPT !.edges = [es EXCEPT ![i] = v]]
            BY <3>1
        <3>3. v.id = es[i].id
            BY <1>1 DEF EdgeCell
        <3> HIDE DEF v
        <3>4. Identified([es EXCEPT ![i] = v])
            BY <1>1, <3>3, ReplacedIds
        <3> QED BY <1>2, <3>2, <3>4
    <2> QED BY <1>8, <2>1, <2>2 DEF Restyle
<1>9. ASSUME Arrange PROVE Identified(drawing'.edges)
    <2>1. CASE Draw([drawing EXCEPT !.arranged = TRUE])
        BY <2>1 DEF Draw, Drawing
    <2>2. CASE \E i \in DOMAIN es : Draw([drawing EXCEPT !.edges = Append(Without(@, i), @[i])])
        <3>1. PICK i \in DOMAIN es : drawing' = [drawing EXCEPT !.edges = Append(RemoveAt(es, i), es[i])]
            BY <2>2 DEF Draw, Without
        <3>2. /\ RemoveAt(es, i) \in Seq(EdgeCell) /\ Identified(RemoveAt(es, i)) /\ es[i] \in EdgeCell
              /\ \A j \in DOMAIN RemoveAt(es, i) : RemoveAt(es, i)[j].id # es[i].id
            BY <1>1, RemovedAt, RemovedIds
        <3>3. Identified(Append(RemoveAt(es, i), es[i]))
            BY <3>2, AppendedIds
        <3> QED BY <1>2, <3>1, <3>3
    <2> QED BY <1>9, <2>1, <2>2 DEF Arrange
<1>10. ASSUME EditBoxes PROVE Identified(drawing'.edges)
    BY <1>10 DEF EditBoxes, Draw, Drawing
<1> QED BY <1>3, <1>4, <1>5, <1>6, <1>7, <1>8, <1>9, <1>10, EraseStateIds DEF EditDrawing

LEMMA IdsStep == DiagramTypeOK /\ IdsDiffer /\ [DNext]_dVars => IdsDiffer'
<1> SUFFICES ASSUME DiagramTypeOK, IdsDiffer, [DNext]_dVars, drawing' # NoDrawing
             PROVE  Identified(drawing'.edges)
    BY DEF IdsDiffer, Drawn, Identified
<1>1. model \in File /\ (Drawn => drawing \in Drawing /\ Identified(drawing.edges))
    BY DEF DiagramTypeOK, IdsDiffer
<1>2. CASE \E force \in BOOLEAN : Render(force)
    <2>1. drawing' = drawing \/ drawing' = DrawingOf(model)
        BY <1>2 DEF Render, Rendered
    <2> QED BY <1>1, <2>1, RenderedIds DEF Drawn
<1>3. CASE drawing' = drawing
    BY <1>1, <1>3 DEF Drawn
<1>4. CASE EditDrawing
    <2>1. Drawn
        BY <1>4 DEF EditDrawing
    <2> QED BY <1>1, <1>4, <2>1, EditIds
<1> QED BY <1>2, <1>3, <1>4 DEF DNext, Sync, EditFile, dVars

\* The ids that tie a drawing to its file stay distinct, in whatever order
\* cells are drawn, erased and rearranged (drawio_schema.py, drawio.py:2852).
THEOREM IdsStayDistinct == DSpec => []IdsDiffer
<1>1. DInit => IdsDiffer
    BY DEF DInit, IdsDiffer, Drawn
<1> QED BY <1>1, IdsStep, DiagramTypes, PTL DEF DSpec

-----------------------------------------------------------------------------
(* A drawing that sync understands *)

LEMMA AllPlain ==
    ASSUME NEW d \in Drawing, Valid(d)
    PROVE  PlainEdges(d) = d.edges /\ ToSet(PlainStates(d)) = ToSet(d.states)
<1>1. d.edges \in Seq(EdgeCell) /\ \A c \in ToSet(d.states) \cup ToSet(d.edges) : c.plain
    BY DEF Drawing, Valid
<1>2. ToSet(PlainStates(d)) = ToSet(d.states)
    BY <1>1, PlainCells
<1> DEFINE S == {c \in ToSet(d.edges) : c.plain}
<1>3. \A i \in DOMAIN d.edges : d.edges[i] \in S
    BY <1>1 DEF ToSet
<1> HIDE DEF S
<1>4. Filtered(d.edges, S) = d.edges
    BY <1>1, <1>3, FilteredAll
<1> QED BY <1>2, <1>4 DEF PlainEdges, S

\* An edge with an unknown id is read as it is drawn.
LEMMA LegibleIsRead ==
    ASSUME NEW m \in File, NEW d \in Drawing, Legible(m, d), NEW c \in ToSet(d.edges), c.id \notin Ids(m)
    PROVE  Read(m, c) = EdgeArrow(c)
<1>1. c \in EdgeCell
    BY DEF Drawing, ToSet
<1>2. /\ c.source \in StateNames(m)
      /\ IF c.id.event = NoEvent THEN c.target = Terminal /\ c.event = NoEvent
         ELSE c.target \in StateNames(m) /\ c.event # NoEvent
      /\ c.guard # NoGuard => c.event # NoEvent /\ Stripped[c.guard] = c.guard
    BY DEF Legible
<1>3. EndOr(m, c.source, c.id.from) = c.source
    BY <1>2 DEF EndOr
<1>4. CASE c.id.event = NoEvent
    BY <1>2, <1>3, <1>4 DEF Read, EdgeArrow, Arrow
<1>5. CASE c.id.event # NoEvent
    <2>1. EndOr(m, c.target, c.id.event) = c.target /\ c.event # NoEvent
        BY <1>2, <1>5 DEF EndOr
    <2>2. (IF c.event = NoEvent \/ c.guard = NoGuard THEN NoGuard ELSE Stripped[c.guard]) = c.guard
        BY <1>2, <2>1
    <2> QED BY <1>3, <1>5, <2>1, <2>2 DEF Read, EdgeArrow, Arrow
<1> QED BY <1>4, <1>5

LEMMA PlacesFrom ==
    ASSUME NEW p, NEW s, NEW J, NEW n, Len(p) = n,
           NEW h \in Bijection(1 .. n, J), \A i \in 1 .. n : p[i] = s[h[i]]
    PROVE  Places(p, s, J)
BY DEF Places

LEMMA SeqOfMapping ==
    ASSUME NEW S, NEW n \in Nat, NEW p \in [1 .. n -> S]
    PROVE  p \in Seq(S) /\ Len(p) = n
OBVIOUS

LEMMA ElementsOfSeq ==
    ASSUME NEW S, NEW p \in Seq(S)
    PROVE  Len(p) \in Nat /\ DOMAIN p = 1 .. Len(p) /\ \A i \in 1 .. Len(p) : p[i] \in S
OBVIOUS

\* The edges with unknown ids are the new transitions.
LEMMA NewPlaces ==
    ASSUME NEW m \in File, NEW d \in Drawing, Legible(m, d),
           NEW unknown, unknown = Filtered(d.edges, {c \in ToSet(d.edges) : c.id \notin Ids(m)}),
           NEW new, new = [i \in DOMAIN unknown |-> Read(m, unknown[i])]
    PROVE  /\ new \in Seq(FileTransition)
           /\ Places(new, DrawnArrows(d), {j \in 1 .. Len(d.edges) : d.edges[j].id \notin Ids(m)})
<1> DEFINE es == d.edges
           U == {c \in ToSet(es) : c.id \notin Ids(m)}
           J == {j \in 1 .. Len(es) : es[j] \in U}
<1>1. es \in Seq(EdgeCell) /\ Len(es) \in Nat /\ DOMAIN es = 1 .. Len(es)
    BY DEF Drawing
<1>2. unknown = Filtered(es, U)
    OBVIOUS
<1>3. \A c \in U : Read(m, c) = EdgeArrow(c)
    BY LegibleIsRead
<1>4. \A j \in DOMAIN es : es[j] \in ToSet(es)
    BY DEF ToSet
<1>5. J = {j \in 1 .. Len(d.edges) : d.edges[j].id \notin Ids(m)}
    BY <1>1, <1>4
<1>6. \A j \in 1 .. Len(es) : DrawnArrows(d)[j] = EdgeArrow(es[j])
    BY ArrowsType
<1> HIDE DEF U, es
<1>7. unknown \in Seq(EdgeCell \cap U) /\ Places(unknown, es, J)
    BY <1>1, <1>2, FilteredIsSeq, FilteredPlaces
<1>8. /\ Len(unknown) \in Nat /\ DOMAIN unknown = 1 .. Len(unknown)
      /\ \A i \in 1 .. Len(unknown) : unknown[i] \in EdgeCell /\ unknown[i] \in U
    <2>1. /\ Len(unknown) \in Nat /\ DOMAIN unknown = 1 .. Len(unknown)
          /\ \A i \in 1 .. Len(unknown) : unknown[i] \in EdgeCell \cap U
        BY ONLY <1>7, ElementsOfSeq
    <2> QED BY ONLY <2>1
<1>9. new \in [1 .. Len(unknown) -> FileTransition]
    BY <1>8, ReadType
<1>10. new \in Seq(FileTransition) /\ Len(new) = Len(unknown)
    BY <1>8, <1>9
<1>11. PICK h \in Bijection(1 .. Len(unknown), J) : \A i \in 1 .. Len(unknown) : unknown[i] = es[h[i]]
    BY <1>7 DEF Places
<1>12. ASSUME NEW i \in 1 .. Len(unknown) PROVE new[i] = DrawnArrows(d)[h[i]]
    <2>1. h[i] \in 1 .. Len(es) /\ unknown[i] = es[h[i]]
        BY <1>11 DEF Bijection, Injection
    <2>2. new[i] = Read(m, unknown[i]) /\ Read(m, unknown[i]) = EdgeArrow(unknown[i])
        BY <1>3, <1>8
    <2> QED BY <1>6, <2>1, <2>2
<1> HIDE DEF J
<1>13. Places(new, DrawnArrows(d), J)
    BY ONLY <1>10, <1>11, <1>12, PlacesFrom
<1> QED BY <1>5, <1>10, <1>13

\* The transitions that are kept are the edges with known ids.
LEMMA KeptPlaces ==
    ASSUME NEW m \in File, NEW d \in Drawing, Identified(d.edges), Legible(m, d),
           NEW K, K = {i \in DOMAIN m.transitions : TransitionId(m, i) \in {c.id : c \in ToSet(d.edges)}},
           NEW kept, kept = Filtered([i \in DOMAIN m.transitions |-> i], K),
           NEW old, old = [i \in DOMAIN kept |-> m.transitions[kept[i]]]
    PROVE  /\ old \in Seq(FileTransition)
           /\ Places(old, DrawnArrows(d), {j \in 1 .. Len(d.edges) : d.edges[j].id \in Ids(m)})
<1> DEFINE es == d.edges
           ts == m.transitions
           N == DOMAIN ts
           id(i) == TransitionId(m, i)
           J == {j \in 1 .. Len(es) : es[j].id \in Ids(m)}
           places == [i \in N |-> i]
<1>1. es \in Seq(EdgeCell) /\ Len(es) \in Nat /\ DOMAIN es = 1 .. Len(es)
    BY DEF Drawing
<1>2. ts \in Seq(FileTransition) /\ Len(ts) \in Nat /\ N = 1 .. Len(ts)
    BY DEF File, FileTransition
<1>3. \A i, j \in N : id(i) = id(j) => i = j
    <2> SUFFICES ASSUME NEW i \in N, NEW j \in N, id(i) = id(j) PROVE i = j
        OBVIOUS
    <2>1. id(i).idx = i - 1 /\ id(j).idx = j - 1
        BY DEF TransitionId
    <2>2. i - 1 = j - 1
        BY <2>1
    <2>3. i \in Nat /\ j \in Nat
        BY <1>2
    <2> QED BY ONLY <2>2, <2>3
<1>4. Ids(m) = {id(i) : i \in N}
    BY DEF Ids
<1>5. \A i \in N, j \in 1 .. Len(es) : es[j].id = id(i) => DrawnArrows(d)[j] = ts[i]
    <2>1. \A j \in 1 .. Len(es) : DrawnArrows(d)[j] = EdgeArrow(es[j]) /\ es[j] \in ToSet(es)
        BY <1>1, ArrowsType DEF ToSet
    <2> QED BY <2>1 DEF Legible
<1>6. {c.id : c \in ToSet(es)} = {es[j].id : j \in 1 .. Len(es)}
    BY <1>1 DEF ToSet
<1>7. K = {i \in N : \E j \in 1 .. Len(es) : es[j].id = id(i)}
    BY <1>6
<1>8. \A i, j \in 1 .. Len(es) : es[i].id = es[j].id => i = j
    BY <1>1 DEF Identified
<1> HIDE DEF id, es
<1>9. kept = Filtered(places, K) /\ places \in Seq(N) /\ Len(places) = Len(ts)
      /\ \A i \in N : places[i] = i
    BY <1>2
<1> HIDE DEF places
<1>10. K \subseteq N /\ {i \in 1 .. Len(places) : places[i] \in K} = K
    BY <1>2, <1>7, <1>9
<1> HIDE DEF ts, N
<1>11. kept \in Seq(N \cap K) /\ Places(kept, places, K)
    <2>1. Filtered(places, K) \in Seq(N \cap K)
        BY ONLY <1>9, FilteredIsSeq
    <2>2. Places(Filtered(places, K), places, {i \in 1 .. Len(places) : places[i] \in K})
        BY ONLY <1>9, FilteredPlaces
    <2>3. Places(Filtered(places, K), places, K)
        BY ONLY <1>10, <2>2, Zenon
    <2> QED BY ONLY <1>9, <2>1, <2>3, Zenon
<1> DEFINE n == Len(kept)
<1>12. n \in Nat /\ DOMAIN kept = 1 .. n /\ \A i \in 1 .. n : kept[i] \in K
    <2>1. n \in Nat /\ DOMAIN kept = 1 .. n /\ \A i \in 1 .. n : kept[i] \in N \cap K
        BY ONLY <1>11, ElementsOfSeq
    <2> QED BY ONLY <2>1
<1>13. PICK h \in Bijection(1 .. n, K) : \A i \in 1 .. n : kept[i] = places[h[i]]
    BY <1>11 DEF Places
<1> HIDE DEF n
<1>14. /\ \A i \in 1 .. n : kept[i] = h[i]
       /\ \A i, j \in 1 .. n : h[i] = h[j] => i = j
       /\ \A k \in K : \E i \in 1 .. n : h[i] = k
    BY <1>9, <1>10, <1>13 DEF Bijection, Injection, Surjection, IsInjective
<1> DEFINE edge(i) == CHOOSE j \in 1 .. Len(es) : es[j].id = id(i)
           g == [i \in 1 .. n |-> edge(kept[i])]
<1>15. \A i \in K : edge(i) \in 1 .. Len(es) /\ es[edge(i)].id = id(i)
    BY <1>7
<1> HIDE DEF edge
<1>16. ASSUME NEW i \in 1 .. n
       PROVE  g[i] \in J /\ es[g[i]].id = id(kept[i]) /\ kept[i] \in N
    <2>1. kept[i] \in K /\ kept[i] \in N
        BY ONLY <1>10, <1>12
    <2>2. edge(kept[i]) \in 1 .. Len(es) /\ es[edge(kept[i])].id = id(kept[i])
        BY ONLY <1>15, <2>1
    <2>3. g[i] = edge(kept[i])
        OBVIOUS
    <2>4. id(kept[i]) \in Ids(m)
        BY ONLY <1>4, <2>1
    <2> QED BY <2>1, <2>2, <2>3, <2>4
<1>17. ASSUME NEW i \in 1 .. n, NEW j \in 1 .. n, g[i] = g[j] PROVE i = j
    <2>1. id(kept[i]) = id(kept[j]) /\ kept[i] \in N /\ kept[j] \in N
        BY <1>16, <1>17
    <2>2. kept[i] = kept[j]
        BY <1>3, <2>1
    <2> QED BY <1>14, <2>2
<1>18. ASSUME NEW j \in J PROVE \E i \in 1 .. n : g[i] = j
    <2>1. PICK k \in N : es[j].id = id(k)
        BY <1>4
    <2>2. k \in K
        BY <1>7, <2>1
    <2>3. PICK i \in 1 .. n : kept[i] = k
        BY <1>14, <2>2
    <2>4. es[g[i]].id = es[j].id /\ g[i] \in 1 .. Len(es)
        BY <1>16, <2>1, <2>3
    <2> QED BY <1>8, <2>4
<1>19. g \in [1 .. n -> J]
    BY <1>16
<1>20. ASSUME NEW i \in 1 .. n PROVE ts[kept[i]] = DrawnArrows(d)[g[i]]
    BY <1>5, <1>16
<1> HIDE DEF g, J
<1>21. g \in Bijection(1 .. n, J)
    BY <1>17, <1>18, <1>19 DEF Bijection, Injection, Surjection, IsInjective
<1>22. old = [i \in 1 .. n |-> ts[kept[i]]]
    BY <1>12 DEF ts
<1>23. old \in [1 .. n -> FileTransition]
    <2>1. \A k \in N : ts[k] \in FileTransition
        BY <1>2 DEF N
    <2> QED BY <1>16, <1>22, <2>1
<1>24. old \in Seq(FileTransition) /\ Len(old) = n
    BY ONLY <1>12, <1>23, SeqOfMapping
<1>25. \A i \in 1 .. n : old[i] = DrawnArrows(d)[g[i]]
    BY <1>20, <1>22
<1>26. Places(old, DrawnArrows(d), J)
    BY <1>21, <1>24, <1>25 DEF Places
<1> QED BY <1>24, <1>26 DEF J, es

LEMMA MergedPlaces ==
    ASSUME NEW m \in File, NEW d \in Drawing, Identified(d.edges), Valid(d), Legible(m, d),
           d.edges = <<>> => m.transitions = <<>>
    PROVE  ToBag(MergedTransitions(m, d)) = ToBag(DrawnArrows(d))
<1> DEFINE es == d.edges
           ts == m.transitions
           drawn == {c.id : c \in ToSet(es)}
           unknown == Filtered(es, {c \in ToSet(es) : c.id \notin Ids(m)})
           new == [i \in DOMAIN unknown |-> Read(m, unknown[i])]
           K == {i \in DOMAIN ts : drawn = {} \/ TransitionId(m, i) \in drawn}
           L == {i \in DOMAIN ts : TransitionId(m, i) \in drawn}
           places == [i \in DOMAIN ts |-> i]
           kept == Filtered(places, L)
           old == [i \in DOMAIN kept |-> ts[kept[i]]]
           I == {j \in 1 .. Len(es) : es[j].id \in Ids(m)}
           J == {j \in 1 .. Len(es) : es[j].id \notin Ids(m)}
<1>1. K = L
    <2>1. CASE es = <<>>
        <3>1. DOMAIN ts = {}
            BY <2>1
        <3> QED BY <3>1
    <2>2. CASE es # <<>>
        <3>1. es \in Seq(EdgeCell)
            BY DEF Drawing
        <3>2. 1 \in DOMAIN es
            BY <2>2, <3>1
        <3>3. es[1].id \in drawn
            BY <3>2 DEF ToSet
        <3> QED BY <3>3
    <2> QED BY <2>1, <2>2
<1>2. MergedTransitions(m, d) = old \o new
    <2>1. PlainEdges(d) = es
        BY AllPlain
    <2>2. MergedTransitions(m, d) =
             [i \in DOMAIN Filtered(places, K) |-> ts[Filtered(places, K)[i]]] \o new
        BY <2>1 DEF MergedTransitions
    <2> HIDE DEF K, L, new
    <2> QED BY <1>1, <2>2
<1>3. new \in Seq(FileTransition) /\ Places(new, DrawnArrows(d), J)
    BY NewPlaces
<1>4. old \in Seq(FileTransition) /\ Places(old, DrawnArrows(d), I)
    BY KeptPlaces
<1>5. I \cap J = {} /\ I \cup J = 1 .. Len(es)
    OBVIOUS
<1> HIDE DEF old, new, I, J
<1>6. Places(old \o new, DrawnArrows(d), I \cup J)
    BY <1>3, <1>4, <1>5, PlacesConcat
<1>7. DrawnArrows(d) \in Seq(ArrowType) /\ Len(DrawnArrows(d)) = Len(es)
    BY ArrowsType
<1>8. old \o new \in Seq(ArrowType)
    <2>1. \A t \in FileTransition : t \in ArrowType
        BY DEF FileTransition, ArrowType
    <2>2. old \o new \in Seq(FileTransition)
        BY ONLY <1>3, <1>4
    <2> DEFINE u == old \o new
    <2> HIDE DEF u
    <2>3. u \in Seq(FileTransition)
        BY <2>2 DEF u
    <2>4. Len(u) \in Nat /\ u \in [1 .. Len(u) -> ArrowType]
        BY ONLY <2>1, <2>3
    <2>5. u \in Seq(ArrowType)
        BY ONLY <2>4
    <2> QED BY <2>5 DEF u
<1>9. Places(old \o new, DrawnArrows(d), 1 .. Len(DrawnArrows(d)))
    BY <1>5, <1>6, <1>7
<1>10. ToBag(old \o new) = ToBag(DrawnArrows(d))
    BY ONLY <1>7, <1>8, <1>9, PlacesBag
<1> QED BY <1>2, <1>10

LEMMA SyncFollows ==
    ASSUME DiagramTypeOK, IdsDiffer, Drawn, Valid(drawing), Legible(model, drawing),
           drawing.states # <<>>, drawing.edges = <<>> => model.transitions = <<>>
    PROVE  /\ StateNames(Synced) = DrawnNames
           /\ ToBag(Synced.transitions) = ToBag(DrawnArrows(drawing))
<1>1. model \in File /\ drawing \in Drawing /\ Identified(drawing.edges)
    BY DEF DiagramTypeOK, IdsDiffer, Drawn
<1>2. /\ Synced.states = MergedStates(model, drawing)
      /\ Synced.transitions = MergedTransitions(model, drawing)
    BY <1>1 DEF Synced, File
<1>3. ToBag(Synced.transitions) = ToBag(DrawnArrows(drawing))
    BY <1>1, <1>2, MergedPlaces
<1>4. PlainNames(drawing) = DrawnNames
    BY <1>1, AllPlain DEF PlainNames, DrawnNames
<1>5. DrawnNames # {}
    <2>1. drawing.states \in Seq(StateCell)
        BY <1>1 DEF Drawing
    <2>2. 1 \in DOMAIN drawing.states
        BY <2>1
    <2> QED BY <2>2 DEF DrawnNames, ToSet
<1>6. ToSet(Synced.states) = {s \in ToSet(model.states) \cup Added(model, drawing) : s.name \in DrawnNames}
    BY <1>1, <1>2, <1>4, <1>5, MergedElements
<1>7. {s.name : s \in Added(model, drawing)} = DrawnNames \ StateNames(model)
    <2> DEFINE new(x) == [name |-> x, action |-> NoAction]
               X == DrawnNames \ StateNames(model)
    <2>1. Added(model, drawing) = {new(x) : x \in X}
        BY <1>4 DEF Added
    <2>2. \A x \in X : new(x).name = x
        OBVIOUS
    <2> HIDE DEF new, X
    <2>3. {s.name : s \in {new(x) : x \in X}} = X
        BY ONLY <2>2
    <2> QED BY <2>1, <2>3 DEF X
<1>8. StateNames(Synced) = {s.name : s \in ToSet(Synced.states)}
    BY DEF StateNames
<1>9. StateNames(model) = {s.name : s \in ToSet(model.states)}
    BY DEF StateNames
<1>10. StateNames(Synced) = DrawnNames
    BY <1>6, <1>7, <1>8, <1>9
<1> QED BY <1>3, <1>10

\* Whatever was drawn, erased and moved about since the drawing was rendered,
\* sync makes the file say what a legible drawing says (drawio.py:2852).
THEOREM SyncMakesFileFollow == DSpec => []SyncFollowsDrawing
<1>1. DiagramTypeOK /\ IdsDiffer => SyncFollowsDrawing
    BY SyncFollows DEF SyncFollowsDrawing
<1> QED BY <1>1, DiagramTypes, IdsStayDistinct, PTL
=============================================================================
