---------------------------- MODULE MCGenerated ----------------------------
(***************************************************************************)
(* Two sibling classes, "C" and "D", that share their identifiers, like    *)
(* CarDoor and ShaftDoor of the elevator example, which both inherit       *)
(* door_id from Door.                                                      *)
(***************************************************************************)
EXTENDS GeneratedCode

CONSTANTS k1, k2

MCKey == {k1, k2}
GenClass == {"V", "C", "D"}
MCState == {"a", "b"}
MCSignal == {"go", "stop"}
MCAbstract == {"V"}
GenSubtypes == [c \in GenClass |-> IF c = "V" THEN <<"C", "D">> ELSE <<>>]
GenInitial == [c \in GenClass |-> IF c = "V" THEN Unset ELSE "a"]
GenFinal == [c \in GenClass |-> {}]
GenTable ==
    [x \in GenClass \X (MCState \cup {Unset}) \X MCSignal |->
        IF x[1] # "V" /\ x[2] = "a"
        THEN <<[guarded |-> FALSE, next |-> "a", acts |-> TRUE]>>
        ELSE CantHappen]

GenCast == {<<"C", k1>>, <<"C", k2>>, <<"D", k1>>}
GenClassOrder == <<"C", "D", "V">>
GenRoute == {<<"go", <<"D", k1>>, <<"C", k2>>>>}
GenStatement == {<<"go", <<"C", k1>>>>, <<"stop", <<"D", k1>>>>}
=============================================================================
