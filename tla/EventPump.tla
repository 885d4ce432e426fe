----------------------------- MODULE EventPump -----------------------------
(***************************************************************************)
(* What the instances of a domain may rely on, without the mechanism: two  *)
(* FIFO lines, one for what an instance tells itself and one for the rest, *)
(* a set of timers, and one event at a time. An event joins its line the   *)
(* moment it is posted, also while another one is being handled: there is  *)
(* no run-to-completion buffer here. (Rules 1-11 of simulation-engine-     *)
(* design.md, as scheduler.py realises them.)                              *)
(***************************************************************************)
EXTENDS Naturals, Sequences

CONSTANTS Lifecycle, NoEvent

VARIABLES urgent, ordinary, timers, clock, current

pumpVars == <<urgent, ordinary, timers, clock, current>>

Urgent(e) == e.sender = e.target /\ e.type \notin Lifecycle

Same(e, f) == e.type = f.type /\ e.sender = f.sender /\ e.target = f.target

Members(s) == {s[i] : i \in DOMAIN s}

PumpInit ==
    /\ urgent = <<>>
    /\ ordinary = <<>>
    /\ timers = {}
    /\ current = NoEvent
    /\ clock = 0

Joins(e) ==
    \/ Urgent(e) /\ urgent' = Append(urgent, e) /\ UNCHANGED ordinary
    \/ ~Urgent(e) /\ ordinary' = Append(ordinary, e) /\ UNCHANGED urgent

Post ==
    /\ \E e \in Members(urgent') \cup Members(ordinary') : Joins(e)
    /\ UNCHANGED <<timers, clock, current>>

\* A timer replaces the one of the same type, sender and target.
SetTimer ==
    /\ \E t \in timers' :
          /\ t.expiry > clock
          /\ timers' = {x \in timers : ~Same(x.ev, t.ev)} \cup {t}
    /\ UNCHANGED <<urgent, ordinary, clock, current>>

ClearTimer ==
    /\ \E t \in timers : timers' = timers \ {t}
    /\ UNCHANGED <<urgent, ordinary, clock, current>>

\* Timers that are due go off between two events, earliest first.
GoOff ==
    /\ current = NoEvent
    /\ \E t \in timers, e \in Members(urgent') \cup Members(ordinary') :
          /\ t.expiry <= clock
          /\ \A x \in timers : x.expiry >= t.expiry
          /\ timers' = timers \ {t}
          /\ Same(e, t.ev)
          /\ Joins(e)
    /\ UNCHANGED <<clock, current>>

Deliver ==
    /\ current = NoEvent
    /\ \/ /\ urgent # <<>>
          /\ current' = Head(urgent)
          /\ urgent' = Tail(urgent)
          /\ UNCHANGED ordinary
       \/ /\ urgent = <<>>
          /\ ordinary # <<>>
          /\ current' = Head(ordinary)
          /\ ordinary' = Tail(ordinary)
          /\ UNCHANGED urgent
    /\ UNCHANGED <<timers, clock>>

Finish ==
    /\ current # NoEvent
    /\ current' = NoEvent
    /\ UNCHANGED <<urgent, ordinary, timers, clock>>

PassTime ==
    /\ clock' > clock
    /\ UNCHANGED <<urgent, ordinary, timers, current>>

PumpNext ==
    \/ Post \/ SetTimer \/ ClearTimer \/ GoOff \/ Deliver \/ Finish \/ PassTime

PumpSpec == PumpInit /\ [][PumpNext]_pumpVars
=============================================================================
