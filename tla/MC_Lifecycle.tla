---------------------------- MODULE MC_Lifecycle -----------------------------
(* Model values for Lifecycle.                                               *)
EXTENDS Lifecycle

CONSTANTS c1, c2, pn, w1, w2, x, y

TwoCallers == {c1, c2}
TwoWorkers == {w1, w2}
TwoWorlds  == {x, y}

=============================================================================
