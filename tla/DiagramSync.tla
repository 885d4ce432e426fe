---------------------------- MODULE DiagramSync ----------------------------
(***************************************************************************)
(* A state diagram and its drawing: render_to_drawio_state(), which writes *)
(* the drawing of a class from its YAML file, and sync_from_drawio(),      *)
(* which merges a drawing that was edited in Draw.io back into that file   *)
(* (src/tools/drawio.py). Nothing but the ids of the cells ties the two    *)
(* together (src/schema/drawio_schema.py): the id of a state has its name, *)
(* the id of a transition has the name of the state it leaves, its event,  *)
(* and its position in the list of the file.                               *)
(*                                                                         *)
(* A value of `model` is the file: the initial state, the list of states,  *)
(* the list of transitions, and the parameters of each event; and what the *)
(* class diagram says of the methods with a body. A value of `drawing` is  *)
(* the XML: the cells of the states, the target of the edge from the       *)
(* initial pseudostate, the cells of the transitions, the boxes of the     *)
(* methods, and whether somebody arranged them by hand. A cell is `plain`  *)
(* if its style is one that the tools write. A label is empty or has the   *)
(* form that the tools give it.                                            *)
(***************************************************************************)
EXTENDS SequencesExt, Selection

CONSTANTS
    Name,           \* names of states
    Event,          \* names of events
    Param,          \* texts of the parameters of an event
    Guard,          \* texts of guards
    Unread,         \* guards that are empty, or of several lines
    Action,         \* texts of entry actions, none of them empty
    Method,         \* what a box says of a method
    NoEvent, NoParams, NoGuard, NoAction,   \* None in the field of that name
    Terminal,       \* "__terminal__"
    Nowhere,        \* the end of an edge that is attached to no cell
    NoDrawing,      \* there is no file
    Stripped,       \* Stripped[g]: what _strip_html() leaves of the text g
    DomainIsTitle,  \* title() leaves the name of the domain as it is
    Models,         \* the files a behaviour may start from
    Edits,          \* kinds of edits made by hand
    MaxEdits        \* bound: edits in a behaviour

Transition == [from : Name, to : Name \cup {Terminal}, event : Event \cup {NoEvent},
               guard : Guard \cup {NoGuard}]

StateDef == [name : Name, action : Action \cup {NoAction}]

ASSUME ModelAssumption ==
    Models \subseteq [initial : Name, states : Seq(StateDef), transitions : Seq(Transition),
                      params : [Event -> Param \cup {NoParams}], methods : SUBSET Method]

ASSUME TextAssumption ==
    /\ Stripped \in [Guard -> Guard]
    /\ NoEvent \notin Event /\ NoGuard \notin Guard /\ NoAction \notin Action
    /\ Unread \subseteq Guard
    /\ Terminal \notin Name /\ Nowhere \notin Name \cup Event \cup {Terminal}
    /\ DomainIsTitle \in BOOLEAN
    /\ MaxEdits \in Nat

VARIABLES
    model,
    drawing,
    edits       \* edits made so far

dVars == <<model, drawing, edits>>

-----------------------------------------------------------------------------
(* Ids *)

StateNames(m) == {s.name : s \in ToSet(m.states)}

\* transition_id(): positions count from 0, and a completion has
\* "__completion__" for its event.
TransitionId(m, i) ==
    [from |-> m.transitions[i].from, event |-> m.transitions[i].event, idx |-> i - 1]

Ids(m) == {TransitionId(m, i) : i \in DOMAIN m.transitions}

-----------------------------------------------------------------------------
(* Rendering *)

\* A transition to the terminal has no event, every other one has; and of the
\* transitions of one state on one event all have guards or none: otherwise
\* StateDiagramFile does not accept the file.
Loadable(m) ==
    LET ts == ToSet(m.transitions)
    IN  /\ \A t \in ts : (t.to = Terminal) <=> (t.event = NoEvent)
        /\ \A t, u \in ts : t.from = u.from /\ t.event = u.event
                            => ((t.guard = NoGuard) <=> (u.guard = NoGuard))

StateCells(m) ==
    [i \in DOMAIN m.states |->
        [name |-> m.states[i].name, action |-> m.states[i].action, plain |-> TRUE]]

ParamsOf(m, e) == IF e = NoEvent THEN NoParams ELSE m.params[e]

\* The label of an edge is its id, event with parameters, and guard; that of a
\* completion is empty. The ends are named, whether or not there are such
\* states.
EdgeCells(m) ==
    [i \in DOMAIN m.transitions |->
        LET t == m.transitions[i]
        IN  [id     |-> [from |-> t.from, event |-> t.event, idx |-> i - 1],
             source |-> t.from,
             target |-> t.to,
             event  |-> t.event,
             params |-> ParamsOf(m, t.event),
             guard  |-> IF t.event = NoEvent THEN NoGuard ELSE t.guard,
             plain  |-> TRUE]]

\* _build_state_diagram_xml()
DrawingOf(m) ==
    [states |-> StateCells(m), start |-> m.initial, edges |-> EdgeCells(m),
     boxes |-> m.methods, arranged |-> FALSE]

(***************************************************************************)
(* _content_matches_state() writes both sides as text, states sorted by    *)
(* name and transitions by (from, event, to), and compares. Sorting keeps  *)
(* the order of transitions that agree in these: the texts are equal if    *)
(* for each key parameters and guards are the same in the same order.      *)
(***************************************************************************)
Sibling(t, u) == t.from = u.from /\ t.event = u.event /\ t.to = u.to

Siblings(t, ts) == Filtered(ts, {u \in ToSet(ts) : Sibling(t, u)})

\* Faulty: what the labels say of parameters and guards is not compared.
SortedAlike_Ends(ts, us) ==
    /\ Len(ts) = Len(us)
    /\ \A t \in ToSet(ts) : Len(Siblings(t, ts)) = Len(Siblings(t, us))

SortedAlike(ts, us) ==
    /\ Len(ts) = Len(us)
    /\ \A t \in ToSet(ts) : Siblings(t, ts) = Siblings(t, us)

\* _drawio_to_canonical_state(): the state that an edge leaves is read from its
\* id, the one it enters from its end, event and guard from its label, in which
\* some guards are not found. An edge with a loose end, or without a label
\* though its id has an event, is passed over.
DrawnTransitions(d) ==
    LET legible == Filtered(d.edges, {c \in ToSet(d.edges) :
                                        /\ c.target # Nowhere
                                        /\ c.id.event # NoEvent => c.event # NoEvent})
    IN  [i \in DOMAIN legible |->
            LET cell == legible[i]
                completes == cell.id.event = NoEvent
            IN  [from   |-> cell.id.from,
                 to     |-> cell.target,
                 event  |-> IF completes THEN NoEvent ELSE cell.event,
                 params |-> IF completes THEN NoParams ELSE cell.params,
                 guard  |-> IF completes \/ cell.guard \in Unread THEN NoGuard ELSE cell.guard]]

\* yaml_to_canonical_state()
FileTransitions(m) ==
    [i \in DOMAIN m.transitions |->
        LET t == m.transitions[i]
        IN  [from |-> t.from, to |-> t.to, event |-> t.event,
             params |-> ParamsOf(m, t.event), guard |-> t.guard]]

Matches(m, d) ==
    /\ d # NoDrawing
    /\ DomainIsTitle
    /\ d.states # <<>>
    /\ d.start = m.initial
    /\ Len(d.states) = Len(m.states)
    /\ {<<c.name, c.action>> : c \in ToSet(d.states)} = {<<s.name, s.action>> : s \in ToSet(m.states)}
    /\ d.boxes = m.methods
    /\ SortedAlike(FileTransitions(m), DrawnTransitions(d))

\* "skipped" if the drawing says the same and force is not given.
Rendered(force) ==
    IF ~force /\ Matches(model, drawing) THEN drawing ELSE DrawingOf(model)

\* render_to_drawio_state(): an error if the file does not load.
Render(force) ==
    /\ Loadable(model)
    /\ drawing' = Rendered(force)
    /\ UNCHANGED <<model, edits>>

-----------------------------------------------------------------------------
(* Synchronisation *)

\* _style_is_valid(): other cells are reported and passed over.
PlainStates(d) == Filtered(d.states, {c \in ToSet(d.states) : c.plain})
PlainEdges(d) == Filtered(d.edges, {c \in ToSet(d.edges) : c.plain})

\* Faulty: the end of the edge as it is, also when it is no state of the file.
EndOr_Raw(m, end, other) == end

\* A state of the file at the end of an edge, or else what is in the id.
EndOr(m, end, other) == IF end \in StateNames(m) THEN end ELSE other

\* The transition that is read from an edge with an unknown id. The fallback
\* for its target is parts[4] of the id: the event.
Read(m, c) ==
    IF c.id.event = NoEvent
    THEN [from |-> EndOr(m, c.source, c.id.from), to |-> Terminal,
          event |-> NoEvent, guard |-> NoGuard]
    ELSE [from  |-> EndOr(m, c.source, c.id.from),
          to    |-> EndOr(m, c.target, c.id.event),
          event |-> IF c.event = NoEvent THEN c.id.event ELSE c.event,
          guard |-> IF c.event = NoEvent \/ c.guard = NoGuard THEN NoGuard
                    ELSE Stripped[c.guard]]

\* Faulty: the list of states is written anew from the drawing.
MergedStates_Anew(m, d) ==
    [i \in DOMAIN PlainStates(d) |-> [name |-> PlainStates(d)[i].name, action |-> NoAction]]

\* New states come without an action. States that are not drawn are removed,
\* unless no state is drawn at all.
MergedStates(m, d) ==
    LET drawn == {c.name : c \in ToSet(PlainStates(d))}
        new == Filtered(PlainStates(d), {c \in ToSet(d.states) : c.name \notin StateNames(m)})
        all == m.states \o [i \in DOMAIN new |-> [name |-> new[i].name, action |-> NoAction]]
    IN  IF drawn = {} THEN all ELSE Filtered(all, {s \in ToSet(all) : s.name \in drawn})

\* Faulty: when a transition is deleted, the new ones are forgotten.
MergedTransitions_KeptOnly(m, d) ==
    LET drawn == {c.id : c \in ToSet(PlainEdges(d))}
        unknown == Filtered(PlainEdges(d), {c \in ToSet(d.edges) : c.id \notin Ids(m)})
        new == [i \in DOMAIN unknown |-> Read(m, unknown[i])]
        kept == Filtered([i \in DOMAIN m.transitions |-> i],
                         {i \in DOMAIN m.transitions : TransitionId(m, i) \in drawn})
    IN  IF drawn = {} \/ Ids(m) \subseteq drawn THEN m.transitions \o new
        ELSE [i \in DOMAIN kept |-> m.transitions[kept[i]]]

\* Edges with unknown ids become transitions, at the end of the list.
\* Transitions whose id is not drawn are removed, unless no edge is drawn. An
\* edge with a known id is left as the file has it.
MergedTransitions(m, d) ==
    LET drawn == {c.id : c \in ToSet(PlainEdges(d))}
        unknown == Filtered(PlainEdges(d), {c \in ToSet(d.edges) : c.id \notin Ids(m)})
        new == [i \in DOMAIN unknown |-> Read(m, unknown[i])]
        kept == Filtered([i \in DOMAIN m.transitions |-> i],
                         {i \in DOMAIN m.transitions : drawn = {} \/ TransitionId(m, i) \in drawn})
    IN  [i \in DOMAIN kept |-> m.transitions[kept[i]]] \o new

Synced == [model EXCEPT !.states = MergedStates(model, drawing),
                        !.transitions = MergedTransitions(model, drawing)]

\* sync_from_drawio(): neither the initial state nor the drawing is written.
Sync ==
    /\ drawing # NoDrawing
    /\ model' = Synced
    /\ UNCHANGED <<drawing, edits>>

-----------------------------------------------------------------------------
(* Edits by hand, of the drawing in Draw.io and of the file in an editor.  *)
(* A cell drawn by hand counts only if it is given an id of the same form: *)
(* other cells are seen by neither function.                               *)

MayEdit(kind) == kind \in Edits /\ edits < MaxEdits /\ edits' = edits + 1

Draw(d) == drawing' = d /\ UNCHANGED model

Without(s, i) == RemoveAt(s, i)

Drawn == drawing # NoDrawing

DrawnNames == {c.name : c \in ToSet(drawing.states)}

\* The ends of an edge at a state that is gone.
Loose(end, x) == IF end = x THEN Nowhere ELSE end

Loosened(c, x) == [c EXCEPT !.source = Loose(c.source, x), !.target = Loose(c.target, x)]

\* A state goes, with the edges at it or leaving them loose.
EraseState(i) ==
    LET x == drawing.states[i].name
        away == {c \in ToSet(drawing.edges) : x \notin {c.source, c.target}}
        loose == [j \in DOMAIN drawing.edges |-> Loosened(drawing.edges[j], x)]
    IN  /\ MayEdit("eraseState")
        /\ \E edges \in {Filtered(drawing.edges, away), loose} :
              Draw([drawing EXCEPT !.states = Without(drawing.states, i),
                                   !.start = Loose(drawing.start, x), !.edges = edges])

EraseEdge(i) ==
    /\ MayEdit("eraseEdge")
    /\ Draw([drawing EXCEPT !.edges = Without(@, i)])

AddState(x) ==
    /\ MayEdit("addState")
    /\ x \notin DrawnNames
    /\ Draw([drawing EXCEPT !.states = Append(@, [name |-> x, action |-> NoAction, plain |-> TRUE])])

\* A new edge gets an id that is not in use in the drawing, and a label with
\* the event's parameters as the file has them.
AddEdge(x, y, e, g, n) ==
    LET id == [from |-> x, event |-> e, idx |-> n]
    IN  /\ MayEdit("addEdge")
        /\ id \notin {c.id : c \in ToSet(drawing.edges)}
        /\ (e = NoEvent) <=> (y = Terminal)
        /\ e = NoEvent => g = NoGuard
        /\ Draw([drawing EXCEPT !.edges =
                    Append(@, [id |-> id, source |-> x, target |-> y,
                               event |-> e, params |-> ParamsOf(model, e), guard |-> g,
                               plain |-> TRUE])])

\* An end of an edge is attached elsewhere; its id stays.
Retarget(i, y) ==
    /\ MayEdit("retarget")
    /\ drawing.edges[i].event # NoEvent
    /\ \/ Draw([drawing EXCEPT !.edges[i].source = y])
       \/ Draw([drawing EXCEPT !.edges[i].target = y])

Relabel(i, e, p, g) ==
    /\ MayEdit("relabel")
    /\ drawing.edges[i].event # NoEvent
    /\ Draw([drawing EXCEPT !.edges[i].event = e, !.edges[i].params = p, !.edges[i].guard = g])

\* Boxes of methods are erased or written over.
EditBoxes ==
    /\ MayEdit("boxes")
    /\ \E boxes \in SUBSET Method : Draw([drawing EXCEPT !.boxes = boxes])

\* Another colour or line.
Restyle ==
    /\ MayEdit("restyle")
    /\ \/ \E i \in DOMAIN drawing.states : Draw([drawing EXCEPT !.states[i].plain = FALSE])
       \/ \E i \in DOMAIN drawing.edges : Draw([drawing EXCEPT !.edges[i].plain = FALSE])

\* Cells are moved; or one is brought to the front, which puts it last.
Arrange ==
    /\ MayEdit("arrange")
    /\ \/ Draw([drawing EXCEPT !.arranged = TRUE])
       \/ \E i \in DOMAIN drawing.edges :
             Draw([drawing EXCEPT !.edges = Append(Without(@, i), @[i])])

EditDrawing ==
    /\ Drawn
    /\ \/ \E i \in DOMAIN drawing.states : EraseState(i)
       \/ \E i \in DOMAIN drawing.edges : EraseEdge(i)
       \/ \E x \in Name : AddState(x)
       \/ \E x \in DrawnNames, y \in DrawnNames \cup {Terminal}, e \in Event \cup {NoEvent},
             g \in Guard \cup {NoGuard}, n \in 0 .. Len(drawing.edges) : AddEdge(x, y, e, g, n)
       \/ \E i \in DOMAIN drawing.edges, y \in DrawnNames : Retarget(i, y)
       \/ \E i \in DOMAIN drawing.edges, e \in Event, p \in Param \cup {NoParams},
             g \in Guard \cup {NoGuard} : Relabel(i, e, p, g)
       \/ EditBoxes
       \/ Restyle
       \/ Arrange

EditFile ==
    /\ MayEdit("file")
    /\ \/ \E i \in DOMAIN model.transitions :
             model' = [model EXCEPT !.transitions = Without(@, i)]
       \/ \E i \in DOMAIN model.states, a \in Action :
             model' = [model EXCEPT !.states[i].action = a]
       \/ \E e \in Event, p \in Param \cup {NoParams} : model' = [model EXCEPT !.params[e] = p]
       \/ \E methods \in SUBSET Method : model' = [model EXCEPT !.methods = methods]
    /\ UNCHANGED drawing

-----------------------------------------------------------------------------
DInit ==
    /\ model \in Models
    /\ drawing = NoDrawing
    /\ edits = 0

DNext ==
    \/ \E force \in BOOLEAN : Render(force)
    \/ Sync
    \/ EditDrawing
    \/ EditFile

DSpec == DInit /\ [][DNext]_dVars

-----------------------------------------------------------------------------
(* Properties *)

\* What a file and a drawing say, whatever the ids, the styles and the order.
Arrow(from, to, e, g) == [from |-> from, to |-> to, event |-> e, guard |-> g]

EdgeArrow(c) == Arrow(c.source, c.target, c.event, c.guard)

DrawnArrows(d) == [i \in DOMAIN d.edges |-> EdgeArrow(d.edges[i])]

\* validate_drawio() finds nothing: it looks at the styles and at nothing else.
Valid(d) == \A c \in ToSet(d.states) \cup ToSet(d.edges) : c.plain

\* What sync needs to understand a drawing: an edge with the id of a
\* transition shows that transition; a new one joins states of the file.
Legible(m, d) ==
    /\ \A i \in DOMAIN m.transitions : \A c \in ToSet(d.edges) :
          c.id = TransitionId(m, i) => EdgeArrow(c) = m.transitions[i]
    /\ \A c \in ToSet(d.edges) : c.id \notin Ids(m) =>
          /\ c.source \in StateNames(m)
          /\ IF c.id.event = NoEvent THEN c.target = Terminal /\ c.event = NoEvent
             ELSE c.target \in StateNames(m) /\ c.event # NoEvent
          /\ c.guard # NoGuard => c.event # NoEvent /\ Stripped[c.guard] = c.guard

\* What sync may write: a target may be the name of an event.
Target == Name \cup {Terminal} \cup Event

StateCell == [name : Name, action : Action \cup {NoAction}, plain : BOOLEAN]

EdgeCell == [id : [from : Name, event : Event \cup {NoEvent}, idx : Nat],
             source : Name \cup {Nowhere}, target : Target \cup {Nowhere},
             event : Event \cup {NoEvent}, params : Param \cup {NoParams},
             guard : Guard \cup {NoGuard}, plain : BOOLEAN]

File ==
    [initial : Name, states : Seq(StateDef),
     transitions : Seq([from : Name, to : Target, event : Event \cup {NoEvent},
                        guard : Guard \cup {NoGuard}]),
     params : [Event -> Param \cup {NoParams}], methods : SUBSET Method]

Drawing ==
    [states : Seq(StateCell), start : Name \cup {Nowhere}, edges : Seq(EdgeCell),
     boxes : SUBSET Method, arranged : BOOLEAN]

\* The contents of the variables.
DiagramTypeOK ==
    /\ model \in File
    /\ Drawn => drawing \in Drawing
    /\ edits \in 0 .. MaxEdits

\* Whatever was edited, a sync now makes the file say what a legible drawing
\* with styles of the tools says: its states and its edges, each as often as it
\* is drawn (drawio.py:2852). The drawing has a state, and an edge if the file
\* has one: otherwise sync deletes nothing.
SyncFollowsDrawing ==
    Drawn /\ Valid(drawing) /\ Legible(model, drawing)
    /\ drawing.states # <<>> /\ (drawing.edges = <<>> => model.transitions = <<>>)
    => /\ StateNames(Synced) = DrawnNames
       /\ ToBag(Synced.transitions) = ToBag(DrawnArrows(drawing))

\* Whatever drawing it reads, also one of other styles, with loose edges or
\* older than the file, sync gives no action to a new state, changes none of
\* an old one, and takes none away with a state that is drawn.
SyncKeepsActions ==
    [][Sync =>
       /\ \A s \in ToSet(model'.states) :
             \/ s \in ToSet(model.states)
             \/ s.name \notin StateNames(model) /\ s.action = NoAction
       /\ \A s \in ToSet(model.states) :
             s.name \in {c.name : c \in ToSet(PlainStates(drawing))} => s \in ToSet(model'.states)]_dVars

\* What somebody sees who looks at the edges, their ends and their labels.
SeenTransitions(d) ==
    [i \in DOMAIN d.edges |->
        LET cell == d.edges[i]
        IN  [from |-> cell.source, to |-> cell.target, event |-> cell.event,
             params |-> cell.params, guard |-> cell.guard]]

\* Of a transition of the file, a completion is drawn without its guard; and
\* some guards are drawn and not read back.
Shown(t) == IF t.event = NoEvent THEN [t EXCEPT !.guard = NoGuard] ELSE t

ReadBack(t) == IF t.event = NoEvent \/ t.guard \in Unread THEN [t EXCEPT !.guard = NoGuard] ELSE t

Agree(m, d) ==
    /\ d.start = m.initial
    /\ {<<c.name, c.action>> : c \in ToSet(d.states)} = {<<s.name, s.action>> : s \in ToSet(m.states)}
    /\ d.boxes = m.methods

\* Whatever was done to file or drawing before, after a render, which may write
\* nothing, the tools read in the drawing what the file says. What somebody
\* sees there is the same if the drawing was made anew, or if the tools saw the
\* old one as it was. They do not where the source of an edge was moved or is
\* loose, since they look for it in the id, nor where an edge has a guard that
\* they cannot read: such a drawing may be skipped and go on showing something
\* else (drawio.py:1306, 1349; drawio-sync.md:154 has it that the ends come
\* from `source` and `target`). A drawing that was seen as it was, and said the
\* same in the same order, is left as somebody arranged it.
RenderShowsFile ==
    Loadable(model) => \A force \in BOOLEAN :
        LET after == Rendered(force)
            ts == FileTransitions(model)
            seen == Drawn => DrawnTransitions(drawing) = SeenTransitions(drawing)
        IN  /\ Agree(model, after)
            /\ ToBag(DrawnTransitions(after)) = ToBag([i \in DOMAIN ts |-> ReadBack(ts[i])])
            /\ force \/ seen =>
                  ToBag(SeenTransitions(after)) = ToBag([i \in DOMAIN ts |-> Shown(ts[i])])
            /\ Drawn /\ seen /\ ~force /\ DomainIsTitle /\ model.states # <<>>
               /\ drawing.start = model.initial /\ drawing.boxes = model.methods
               /\ [i \in DOMAIN drawing.states |->
                     [name |-> drawing.states[i].name, action |-> drawing.states[i].action]]
                  = model.states
               /\ SeenTransitions(drawing) = ts
               => after = drawing

-----------------------------------------------------------------------------
(* What the documents say and the code does not do *)

\* sync "merges structural changes (add/remove states, transitions)" and
\* removes what is "not present in Draw.io" (drawio.py:2852, 3066): a
\* transition that the drawing shows is not removed.
DrawnStays ==
    [][Sync => \A c \in ToSet(PlainEdges(drawing)) :
           EdgeArrow(c) \in ToSet(model.transitions)
           => EdgeArrow(c) \in ToSet(model'.transitions)]_dVars
=============================================================================
