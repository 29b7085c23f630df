---------------------------- MODULE MC_PeerCache -----------------------------
(* Model values for PeerCache.                                               *)
EXTENDS PeerCache

CONSTANTS a, b, c1, v1, p1, p2, e1, e2, e3, e4

OnePlayer  == {a}
TwoPlayers == {a, b}
OneType    == {c1}
OneSource  == {v1}
Single     == [t \in Types |-> <<v1>>]
TwoCallers == {p1, p2}
TwoEntries == {e1, e2}
FourEntries == {e1, e2, e3, e4}
JustA      == [p \in Callers |-> {a}]
JustListA  == [p \in Callers |-> {<<a>>}]
AThenB     == [p \in Callers |-> {<<a, b>>}]
AnyOrder   == [p \in Callers |-> {<<a, b>>, <<b, a>>}]
NoOne      == [p \in Callers |-> {}]
(* One world resolves slices of peers only, the other single ones as well.   *)
BOfOne     == [p \in Callers |-> IF p = p1 THEN {} ELSE {b}]
Errors     == {"error"}
NoSubs     == {"error", "nosub"}
NoFaults   == {}

Symmetry == Permutations(Callers) \cup Permutations(Entries)

=============================================================================
