------------------------------ MODULE MC_Loops -------------------------------
(* Model values for Loops.                                                   *)
EXTENDS Loops, TLC

CONSTANTS l1, l2, l3, w1, w2, s1, s2

OneLoop     == {l1}
ThreeLoops  == {l1, l2, l3}
EveryThree  == [l \in Loops |-> 3]
EveryThreeOrTick == [l \in Loops |-> IF l = l2 THEN 0 ELSE 3]
TwoWorlds   == {w1, w2}
OneInit     == <<w1>>
TwoInit     == <<w1, w2>>
TwoSessions == {s1, s2}

OneBatch    == [s \in 1 .. Stages |-> <<{l1}>>]
TwoStages   == [s \in 1 .. Stages |-> IF s = 1 THEN <<{l1}>> ELSE <<{l2}>>]
GlobalThird == [s \in 1 .. Stages |-> IF s = 1 THEN <<{l3}>> ELSE <<>>]
Empty       == [s \in 1 .. Stages |-> <<>>]

SessionSymmetry == Permutations(Sessions)

=============================================================================
