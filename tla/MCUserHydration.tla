---------------------------- MODULE MCUserHydration ----------------------------
(* A browser for TLC: in one page calls overtake one another, in the other *)
(* they do not.                                                            *)
EXTENDS UserHydration

CONSTANTS a, b

CallsOfTab == [t \in Tabs |-> IF t = a THEN 2 ELSE 1]
=============================================================================
