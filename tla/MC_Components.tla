---------------------------- MODULE MC_Components ----------------------------
(* Model values for Components.                                              *)
EXTENDS Components

CONSTANTS c1, i1, i2, p1, p2

OneType  == {c1}
Two      == {i1, i2}
OfOneTwo == [i \in Two |-> c1]
Both     == {p1, p2}
AnyTime  == 0 .. MaxTime

=============================================================================
