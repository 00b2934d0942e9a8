---- MODULE MCOwnerJourney ----
(* Two owners, each in a tab of their own, two operations between them:    *)
(* conflicts between the owners, and a second change after an uncertain    *)
(* one.                                                                    *)
EXTENDS OwnerJourney
CONSTANTS p1, p2
OwnActor == [p \in Portals |-> p]
====
