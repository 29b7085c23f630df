----------------------------- MODULE MC_Sessions -----------------------------
(* Model values for Sessions. Worlds are alike.                              *)
EXTENDS Sessions, TLC

CONSTANTS s1, s2, s3, w1, w2, k1, k2

ThreeSessions == {s1, s2, s3}
TwoWorlds    == {w1, w2}
AllIndexes   == {"uuid", "name", "xuid", "fake"}
TheFake      == {s2}
TwoKeys      == {k1, k2}

(* s1 and s3 the same player, one after the other; s2 a fake player with     *)
(* keys of its own.                                                          *)
PlayerAndFake ==
  [i \in Indexes |-> [s \in Sessions |->
     IF s # s2 THEN (IF i = "fake" THEN NoKey ELSE k1) ELSE (IF i = "xuid" THEN NoKey ELSE k2)]]

OptionalNeeded == <<FALSE, TRUE>>

(* Bound: two of the sessions join, the player and the fake player or the    *)
(* player twice.                                                             *)
TwoJoin == \E pair \in {{s1, s2}, {s1, s3}} : \A s \in Sessions \ pair : jpc[s] = "new"

PairSpec == Init /\ [][Next /\ TwoJoin']_vars

WorldSymmetry == Permutations(Worlds)

=============================================================================
