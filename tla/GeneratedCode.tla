--------------------------- MODULE GeneratedCode ---------------------------
(***************************************************************************)
(* The scheduler driven by compiled actions. compiler/transformer.py turns *)
(* the statements of an action into calls ctx.generate("E", target=key)    *)
(* and ctx.cancel("E", sender=a, target=b); this module follows them       *)
(* through SimulationContext (src/engine/ctx.py) down to the scheduler.    *)
(* The events that start the run come from a scenario, with explicit       *)
(* senders and targets.                                                    *)
(***************************************************************************)
EXTENDS SchedulerProps

CONSTANT
    Statement   \* pairs <<signal, instance>>: what generate statements name

\* Without a sender keyword the sender is ctx._current_instance, which no
\* code sets while an action runs, and then the target.
ImplicitSender(target) == target

\* generate E to x; and generate E to x delay d;
GenerateStmt(type, x, d) ==
    /\ pc = "acting"
    /\ WithinBudget
    /\ Live(x)
    /\ \E c \in Class :
          /\ OwnerOfKey(x[2], c)
          /\ LET target == <<c, x[2]>>
             IN  Enqueue(NewEvent(type, ImplicitSender(target), target, Unset), d)
    /\ UNCHANGED <<registry, now, pc, frameVars>>

\* cancel E from a to b; with a and b variables of the action.
CancelStmt(type, a, b) ==
    /\ pc = "acting"
    /\ conc \notin {a, b}
    /\ \E x \in delay :
          /\ x.ev.type = type /\ x.ev.sender = a /\ x.ev.target = b
          /\ delay' = delay \ {x}
    /\ UNCHANGED <<priority, standard, seq, pending, inFlight, registry, now, pc,
                   frameVars, nextStamp>>

\* cancel E from self to b; compiles to sender=self, but the function's
\* parameter is self_dict: Python raises NameError and the run ends.
CancelSelfStmt ==
    /\ pc = "acting"
    /\ closing' = TRUE
    /\ BeginFlush
    /\ UNCHANGED <<priority, standard, delay, seq, pending, registry, now,
                   hand, conc, from, cand, chosen, nextStamp>>

GNext ==
    \/ Engine \/ Start \/ ContextCall
    \/ \E s \in Statement, d \in Delay : GenerateStmt(s[1], s[2], d)
    \/ \E s \in Statement, a \in Addr : CancelStmt(s[1], a, s[2])
    \/ CancelSelfStmt

GSpec == Init /\ [][GNext]_vars

-----------------------------------------------------------------------------
(* What comments and documents of the repository say of compiled actions   *)

\* ctx.py: _current_instance is "set by scheduler before invoking action_fn.
\* Generated code uses this as implicit sender": an event that an action
\* generates comes from the instance that acts.
SenderIsActor ==
    [][pc = "acting" =>
         \A e \in (Elements(pending') \ Elements(pending)) : e.sender = conc]_vars
=============================================================================
