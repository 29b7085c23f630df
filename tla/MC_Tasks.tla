------------------------------ MODULE MC_Tasks -------------------------------
(* Model values for Tasks. Sessions are alike, and so are task identities;   *)
(* worlds are not, one of them being the default world.                      *)
EXTENDS Tasks

CONSTANTS s1, s2, w1, w2, t1, t2, h1

TwoSessions == {s1, s2}
OneSession  == {s1}
TwoWorlds   == {w1, w2}
OneWorld    == {w1}
TwoTasks    == {t1, t2}
OneTask     == {t1}
NoHandles   == {}
OneHandle   == {h1}
NoTasks     == {}
NoSessions  == {}
OneByOne    == {{s} : s \in Sessions}
UpToTwo     == {ss \in SUBSET Sessions : Cardinality(ss) <= 2}
Once        == {1}
Twice       == {2}
OnceForever == {1, -1}

TaskSymmetry == Permutations(Tasks)

=============================================================================
