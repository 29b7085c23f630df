--------------------------- MODULE MC_SharedCache ----------------------------
(* Model values for SharedCache.                                             *)
EXTENDS SharedCache

CONSTANTS a, b, p1, p2, e1, e2

TwoEntities  == {a, b}
TwoCallers   == {p1, p2}
TwoEntries   == {e1, e2}
AnyFault     == {"error", "nosub"}

(* One world resolves a Shared field and a slice of two, the other slices.   *)
FirstOne    == [p \in Callers |-> IF p = p1 THEN {a} ELSE {}]
ManyOfBoth  == [p \in Callers |-> IF p = p1 THEN {<<a, b>>} ELSE {<<a>>, <<a, b>>}]

-----------------------------------------------------------------------------
(* A behaviour shows one of three scenes, as the states of all together are  *)
(* too many: cleanup; stop, with time passing; a batch of two entities. What *)
(* needs a later clock in the others (an error tried again) happens through  *)
(* errors that have no time.                                                 *)
VARIABLE scene

SceneInit == Init /\ scene \in {"cleanup", "stop", "batch"}

Batch == \E p \in Callers : Len(job'[p].ids) > 1

SceneNext ==
  /\ Next /\ UNCHANGED scene
  /\ scene # "cleanup" => closer'["cleanup"] = Resting
  /\ scene # "stop" => ~cancelled' /\ now' = now
  /\ scene # "batch" => ~Batch /\ \A id \in SharedIds \ {a} : truth'[id] = truth[id]

SceneSpec == SceneInit /\ [][SceneNext]_<<vars, scene>> /\ Fairness

=============================================================================
