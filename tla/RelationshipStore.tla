------------------------- MODULE RelationshipStore -------------------------
(***************************************************************************)
(* The links between instances: RelationshipStore (src/engine/             *)
(* relationship.py) and the queries of SimulationContext that walk them    *)
(* (src/engine/ctx.py). The registry matters here only as the set of live  *)
(* instances: creating and deleting an instance leaves the links alone,    *)
(* relate() and unrelate() never ask whether an instance exists.           *)
(***************************************************************************)
EXTENDS SequencesExt, Selection

CONSTANTS
    Class, Key, \* as in Manifest
    Rel,        \* relationship ids
    EndA, EndB, \* class_a and class_b of a relationship
    MultAB,     \* mult_a_to_b: how many B's an A is related to
    MultBA,     \* mult_b_to_a: how many A's a B is related to
    MaxLinks    \* bound: links of one relationship

ASSUME EndAssumption == EndA \in [Rel -> Class] /\ EndB \in [Rel -> Class]

Multiplicity == {"1", "0..1", "1..*", "0..*"}

ASSUME MultAssumption == MultAB \in [Rel -> Multiplicity] /\ MultBA \in [Rel -> Multiplicity]

ASSUME MaxLinksAssumption == MaxLinks \in Nat

VARIABLES
    links,  \* _links: a list for each relationship
    alive   \* instances of the registry

rVars == <<links, alive>>

Addr == Class \X Key

Link == [a : Addr, b : Addr]

-----------------------------------------------------------------------------
(* relate and unrelate *)

\* Faulty: the arguments are stored as they come.
Normalized_AsGiven(r, x, y) ==
    IF {x[1], y[1]} = {EndA[r], EndB[r]} THEN {[a |-> x, b |-> y]} ELSE {}

\* _normalize_sides(): the link in the orientation of the association; none
\* if the classes are not exactly those of its ends.
Normalized(r, x, y) ==
    IF x[1] = EndA[r] /\ y[1] = EndB[r] THEN {[a |-> x, b |-> y]}
    ELSE IF x[1] = EndB[r] /\ y[1] = EndA[r] THEN {[a |-> y, b |-> x]}
    ELSE {}

IsOne(mult) == mult = "1"

CountA(r, x) == Cardinality({i \in DOMAIN links[r] : links[r][i].a = x})
CountB(r, y) == Cardinality({i \in DOMAIN links[r] : links[r][i].b = y})

\* Faulty: one link too many.
Full_OffByOne(r, l) ==
    \/ IsOne(MultBA[r]) /\ CountB(r, l.b) > 1
    \/ IsOne(MultAB[r]) /\ CountA(r, l.a) > 1

\* The multiplicity check of relate(): a B that may have one A has one, or
\* an A that may have one B.
Full(r, l) ==
    \/ IsOne(MultBA[r]) /\ CountB(r, l.b) >= 1
    \/ IsOne(MultAB[r]) /\ CountA(r, l.a) >= 1

\* A call that is refused returns an error step and changes nothing.
Relate(r, x, y) ==
    /\ Len(links[r]) < MaxLinks
    /\ \E l \in Normalized(r, x, y) :
          /\ ~Full(r, l)
          /\ links' = [links EXCEPT ![r] = Append(@, l)]
    /\ UNCHANGED alive

\* Faulty: every equal link goes.
Unrelate_All(r, x, y) ==
    /\ \E l \in Normalized(r, x, y) :
          /\ Contains(links[r], l)
          /\ links' = [links EXCEPT ![r] = SelectSeq(@, LAMBDA m : m # l)]
    /\ UNCHANGED alive

\* The first link that matches is taken out of the list.
Unrelate(r, x, y) ==
    /\ \E l \in Normalized(r, x, y), i \in DOMAIN links[r] :
          /\ links[r][i] = l
          /\ \A j \in 1 .. (i - 1) : links[r][j] # l
          /\ links' = [links EXCEPT ![r] = RemoveAt(@, i)]
    /\ UNCHANGED alive

\* registry: create_sync() (which replaces an instance) and delete_sync().
CreateInstance(x) ==
    /\ alive' = alive \cup {x}
    /\ UNCHANGED links

DeleteInstance(x) ==
    /\ x \in alive
    /\ alive' = alive \ {x}
    /\ UNCHANGED links

-----------------------------------------------------------------------------
(* Queries *)

\* Faulty: links are followed from their a side only.
Navigate_Forward(r, x) ==
    LET hits == Filtered(links[r], {l \in ToSet(links[r]) : l.a = x})
    IN  [i \in DOMAIN hits |-> hits[i].b]

\* navigate(): the other ends of the links of x, oldest link first. A link of
\* a reflexive association is followed from both of its ends.
Navigate(r, x) ==
    LET hits == Filtered(links[r], {l \in ToSet(links[r]) : x \in {l.a, l.b}})
    IN  [i \in DOMAIN hits |-> IF hits[i].a = x THEN hits[i].b ELSE hits[i].a]

\* The `seen` set: only the first occurrence of an instance is kept.
Distinct(s) ==
    LET kept[n \in 0 .. Len(s)] ==
          IF n = 0 THEN <<>>
          ELSE IF s[n] \in ToSet(kept[n - 1]) THEN kept[n - 1] ELSE Append(kept[n - 1], s[n])
    IN  kept[Len(s)]

\* A hop asks for a relationship, and for the class of the other end.
HopSet == [rel : Rel, to : SUBSET Class]

Hop(frontier, hop) ==
    LET found[n \in 0 .. Len(frontier)] ==
          IF n = 0 THEN <<>> ELSE found[n - 1] \o Navigate(hop.rel, frontier[n])
    IN  Distinct(Filtered(found[Len(frontier)], hop.to \X Key))

\* navigate_chain(): a chain of hops, each to one class. The registry is not
\* asked: instances that are gone are in the answer too.
NavigateChain(x, chain) ==
    LET frontier[n \in 0 .. Len(chain)] ==
          IF n = 0 THEN <<x>> ELSE Hop(frontier[n - 1], chain[n])
    IN  frontier[Len(chain)]

AnyClass(rels) == [n \in DOMAIN rels |-> [rel |-> rels[n], to |-> Class]]

\* traverse(): the same loop over relationship ids, whatever the classes, then
\* a lookup in the registry. Instances that are gone are dropped at the end of
\* the chain only.
Traverse(x, rels) == Filtered(NavigateChain(x, AnyClass(rels)), alive)

-----------------------------------------------------------------------------
RInit ==
    /\ links = [r \in Rel |-> <<>>]
    /\ alive = {}

RNext ==
    \/ \E r \in Rel, x, y \in Addr : Relate(r, x, y) \/ Unrelate(r, x, y)
    \/ \E x \in Addr : CreateInstance(x) \/ DeleteInstance(x)

RSpec == RInit /\ [][RNext]_rVars

-----------------------------------------------------------------------------
(* Properties *)

\* The type of the links: the ends of every link are instances of the classes
\* of the association, on the right sides, in whatever order relate() was
\* given them.
LinksTypeOK ==
    /\ links \in [Rel -> Seq(Link)]
    /\ alive \subseteq Addr
    /\ \A r \in Rel : \A i \in DOMAIN links[r] :
          links[r][i].a[1] = EndA[r] /\ links[r][i].b[1] = EndB[r]

\* D-08: an end of multiplicity "1" never gives an instance two partners,
\* after any sequence of relate, unrelate, create and delete.
AtMostOne ==
    \A r \in Rel : \A i, j \in DOMAIN links[r] : i # j =>
        /\ IsOne(MultAB[r]) => links[r][i].a # links[r][j].a
        /\ IsOne(MultBA[r]) => links[r][i].b # links[r][j].b

Forth == {<<l[1], l[2].a, l[2].b>> : l \in UNION {{r} \X ToSet(links[r]) : r \in Rel}}

Back == {<<w[1], w[3], w[2]>> : w \in Forth}

\* The instances that a link of a relationship joins, in either direction.
Lines == Forth \cup Back

\* Where a relationship leads. A link between two classes is walked from either
\* end; a link of a class with itself is a directed one, from its a side to its
\* b side (COMPILATION.md 5.3).
Arrows == Forth \cup {w \in Back : EndA[w[1]] # EndB[w[1]]}

At(path, x, n) == IF n = 0 THEN x ELSE path[n]

\* The instances at the end of the chain, one pair of `ways` to each hop.
Led(chain, x, ways) ==
    {At(path, x, Len(chain)) : path \in
        {p \in [1 .. Len(chain) -> Addr] : \A n \in 1 .. Len(chain) :
            /\ p[n][1] \in chain[n].to
            /\ <<chain[n].rel, At(p, x, n - 1), p[n]>> \in ways}}

\* An answer has every instance of S that the chain leads to from x, those
\* whose instances in between are gone included, each of them once
\* (ctx.py:373), and none that links of the chain do not join to x. Whether the
\* links of a class with itself are walked against their direction too is left
\* open: navigate() does, and COMPILATION.md:562-564 asks for a second
\* association.
IsExact(answer, chain, x, S) ==
    /\ IsInjective(answer)
    /\ S \cap Led(chain, x, Arrows) \subseteq ToSet(answer)
    /\ ToSet(answer) \subseteq S \cap Led(chain, x, Lines)

\* A hop of the store to one class, and queries of ctx by one relationship and
\* by two among the live instances, are exact.
ChainIsComposition ==
    \A x \in Addr :
        /\ \A h \in {hop \in HopSet : Cardinality(hop.to) = 1} :
              IsExact(NavigateChain(x, <<h>>), <<h>>, x, Addr)
        /\ \A rels \in {<<r>> : r \in Rel} \cup (Rel \X Rel) :
              IsExact(Traverse(x, rels), AnyClass(rels), x, alive)

\* A call makes or breaks one link: the others are neither lost nor put in
\* another order (`select any` keeps its answer), and every relationship but
\* one is left alone.
OneLinkAtATime ==
    [][(links' # links) =>
         \E r \in Rel :
            /\ \A q \in Rel \ {r} : links'[q] = links[q]
            /\ \/ links'[r] # <<>> /\ Front(links'[r]) = links[r]
               \/ \E i \in DOMAIN links[r] : links'[r] = RemoveAt(links[r], i)]_rVars
=============================================================================
