-------------------------- MODULE MCRelationships --------------------------
(***************************************************************************)
(* Three relationships for TLC, after the elevator's: R1 one to one, R2    *)
(* one to many, R9 reflexive and optional at both ends.                    *)
(***************************************************************************)
EXTENDS RelationshipStore

CONSTANTS k1, k2

MCKey == {k1, k2}
MCClass == {"A", "B"}

MCRel == {"R1", "R2", "R9"}
MCEndA == [r \in MCRel |-> IF r = "R9" THEN "B" ELSE "A"]
MCEndB == [r \in MCRel |-> "B"]
MCMultAB == [r \in MCRel |-> CASE r = "R1" -> "1" [] r = "R2" -> "0..*" [] r = "R9" -> "0..1"]
MCMultBA == [r \in MCRel |-> CASE r = "R1" -> "1" [] r = "R2" -> "1" [] r = "R9" -> "0..1"]
=============================================================================
