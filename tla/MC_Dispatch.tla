----------------------------- MODULE MC_Dispatch -----------------------------
(* Model values for Dispatch: two handlers, a global one, a loop and a task  *)
(* of two sessions.                                                          *)
EXTENDS Dispatch

CONSTANTS s1, s2, g1, g2, e1, e2, A, B, R

F(k, c, o) == [kind |-> k, comp |-> c, opt |-> o]

TwoSessions == {s1, s2}
TwoExecs    == {g1, g2}
TwoEvents   == {e1, e2}
TwoComps    == {A, B}
OneLinked   == {A}
OneResource == {R}

SomeFields == [
  hurt  |-> <<F("session", NoSystem, FALSE), F("component", A, FALSE), F("relation", B, TRUE),
              F("payload", NoSystem, FALSE)>>,
  team  |-> <<F("without", B, FALSE), F("component", A, FALSE), F("relations", A, FALSE)>>,
  audit |-> <<F("resource", R, FALSE), F("payload", NoSystem, FALSE)>>,
  tick  |-> <<F("component", A, TRUE), F("relations", B, FALSE), F("remote", B, FALSE)>>,
  trade |-> <<F("session", NoSystem, FALSE), F("component", A, FALSE), F("relation", B, FALSE),
              F("session", NoSystem, FALSE), F("relation", B, TRUE)>> ]

InOrder  == <<"hurt", "audit", "team">>
OneLoop  == {"tick"}
SomeParties == {<<s1, s2>>, <<s2, s1>>, <<s1>>}
NoneOrOne   == {{}, {s1}}
OneTask  == {"trade"}
Same     == Permutations(TwoExecs) \cup Permutations(TwoEvents)

-----------------------------------------------------------------------------
(* Sessions have the component that is required somewhere, and relations     *)
(* point from the first to the second.                                       *)
SceneInit ==
  /\ Init
  /\ comps = [s \in Sessions |-> IF s = s1 THEN {A} ELSE {A, B}]
  /\ targets = [s \in Sessions |-> [c \in Linked |-> IF s = s1 THEN {s2} ELSE {}]]

SceneSpec == SceneInit /\ [][Next]_vars

=============================================================================
