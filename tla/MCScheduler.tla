---------------------------- MODULE MCScheduler ----------------------------
(***************************************************************************)
(* Small domains for TLC. "V" is an abstract supertype of "C"; the class   *)
(* "C" has the states "a", "b" and the final state "z"; "P" is a passive   *)
(* class, without a state machine.                                         *)
(***************************************************************************)
EXTENDS SchedulerProps

CONSTANTS k1, k2

MCKey == {k1, k2}
MCClass == {"V", "C", "P"}
MCClassOrder == <<"C", "P", "V">>
MCState == {"a", "b", "z"}
MCSignal == {"go", "stop"}
MCAbstract == {"V"}
MCSubtypes == [c \in MCClass |-> IF c = "V" THEN <<"C">> ELSE <<>>]
MCInitial == [c \in MCClass |-> IF c = "C" THEN "a" ELSE Unset]
MCFinal == [c \in MCClass |-> IF c = "C" THEN {"z"} ELSE {}]

Goes(guarded, next, acts) == [guarded |-> guarded, next |-> next, acts |-> acts]
Ignore == Goes(FALSE, Unset, FALSE)

(***************************************************************************)
(* "go" has a guard chain with its fallback first in "a" and is ignored in *)
(* "b"; "stop" has a guarded entry that stays in the state and an          *)
(* alternative in "a", and leads from "b" to the final state.              *)
(***************************************************************************)
MCCell(c, s, e) ==
    IF c # "C" THEN CantHappen
    ELSE IF s = "a" /\ e = "go"
         THEN <<Goes(FALSE, "b", FALSE), Goes(TRUE, "a", TRUE)>>
    ELSE IF s = "a" /\ e = "stop" THEN <<Goes(TRUE, Unset, FALSE), Goes(TRUE, "b", TRUE)>>
    ELSE IF s = "b" /\ e = "go" THEN <<Ignore>>
    ELSE IF s = "b" /\ e = "stop" THEN <<Goes(FALSE, "z", TRUE)>>
    ELSE CantHappen

MCTable == [x \in MCClass \X (MCState \cup {Unset}) \X MCSignal |-> MCCell(x[1], x[2], x[3])]

C1 == <<"C", k1>>
P1 == <<"P", k1>>
C2 == <<"C", k2>>
V1 == <<"V", k1>>

\* C1 sends to itself, to C2 and to itself under the supertype's name.
QueueCast == {C1, C2}
QueueRoute == {<<"go", C1, C1>>, <<"stop", C1, C2>>, <<"go", C2, V1>>}

\* A scenario with one instance of "C", that others address and replace.
LifeCast == {C1}
LifeRoute == {<<"stop", C1, C1>>, <<"stop", P1, C1>>}
=============================================================================
