------------------------------ MODULE MCLuxStore ------------------------------
(* Small instances of LuxStore for TLC: a page with two listeners, and one *)
(* with none that shares its localStorage.                                 *)
EXTENDS LuxStore

CONSTANTS a, b, l1, l2

InitialCount == [f \in {"count"} |-> 0]

ListenersOfTab == [t \in Tabs |-> IF t = a THEN {l1, l2} ELSE {}]
=============================================================================
