----------------------------- MODULE MCDiagram -----------------------------
(***************************************************************************)
(* Small files for TLC: a chain of guards on one event, which share ids up *)
(* to their position; a state that ends its instance; and a guard that the *)
(* tools cannot read back, next to a transition to the terminal with a     *)
(* guard, which nothing refuses and no drawing shows.                      *)
(***************************************************************************)
EXTENDS DiagramSync

CONSTANTS a, b, c, e, f, p, g, h, l, act, op

MCName == {a, b, c}
MCEvent == {e, f}
MCParam == {p}
MCGuard == {g, h, l}
MCUnread == {l}
MCAction == {act}
MCMethod == {op}
Same == [x \in MCGuard |-> x]

\* "x < y and z > y" without what is taken for a tag.
Mangled == [x \in MCGuard |-> IF x = l THEN l ELSE g]

St(x, y) == [name |-> x, action |-> y]
Tr(x, y, ev, gd) == [from |-> x, to |-> y, event |-> ev, guard |-> gd]

Guards ==
    [initial     |-> a,
     states      |-> <<St(a, act), St(b, NoAction)>>,
     transitions |-> <<Tr(a, b, e, g), Tr(a, a, e, h), Tr(a, b, e, h)>>,
     params      |-> [x \in MCEvent |-> IF x = e THEN p ELSE NoParams],
     methods     |-> {op}]

Ending ==
    [initial     |-> b,
     states      |-> <<St(b, NoAction), St(a, act)>>,
     transitions |-> <<Tr(b, a, f, NoGuard), Tr(a, Terminal, NoEvent, NoGuard)>>,
     params      |-> [x \in MCEvent |-> NoParams],
     methods     |-> {}]

Guarded ==
    [initial     |-> a,
     states      |-> <<St(a, NoAction)>>,
     transitions |-> <<Tr(a, Terminal, NoEvent, g), Tr(a, a, e, l)>>,
     params      |-> [x \in MCEvent |-> NoParams],
     methods     |-> {}]

MCModels == {Guards, Ending, Guarded}
LongChain == {Guards}
=============================================================================
