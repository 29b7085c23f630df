---------------------------- MODULE MC_Structures ----------------------------
(* The data structures and algorithms the other modules take for granted:    *)
(* batching, the heap of tasks, sets of references, component IDs and masks. *)
(* They share nothing, so a behaviour moves one of them: the product of      *)
(* their states would show nothing more.                                     *)
EXTENDS Batching, TaskHeap, RefSets, Registry, Bitmasks

VARIABLE part  \* the one that moves

batchVars == vars
allVars == <<part, batchVars, heapVars, refVars, regVars, maskVars>>

AllInit ==
  /\ part \in {"batches", "heap", "refs", "registry", "masks"}
  /\ Init /\ HeapInit /\ RefInit /\ RegInit /\ MaskInit

AllNext ==
  \/ part = "batches" /\ Next /\ UNCHANGED <<part, heapVars, refVars, regVars, maskVars>>
  \/ part = "heap" /\ HeapNext /\ UNCHANGED <<part, batchVars, refVars, regVars, maskVars>>
  \/ part = "refs" /\ RefNext /\ UNCHANGED <<part, batchVars, heapVars, regVars, maskVars>>
  \/ part = "registry" /\ RegNext /\ UNCHANGED <<part, batchVars, heapVars, refVars, maskVars>>
  \/ part = "masks" /\ MaskNext /\ UNCHANGED <<part, batchVars, heapVars, refVars, regVars>>

AllSpec == AllInit /\ [][AllNext]_allVars

-----------------------------------------------------------------------------
CONSTANTS a, b, u1, u2, g1, g2, c1, c2, c3

F(k, t, m) == [kind |-> k, type |-> t, mut |-> m]

AnyLoop   == {1, 2, 3, 4}
OneName   == [l \in AnyLoop |-> IF l = 4 THEN 3 ELSE l]
TypeNames == {"A", "B"}

ManyFields == {
  {F("component", "A", FALSE)}, {F("component", "A", TRUE)},
  {F("component", "B", TRUE)},
  {F("component", "A", FALSE), F("relation", "B", TRUE)},
  {F("session", "A", FALSE), F("resource", "A", FALSE)},
  {F("resource", "A", TRUE)}, {F("resource", "A", FALSE)} }

ThreeTimes == 1 .. 3
TwoIds     == {a, b}
TwoUsers   == {u1, u2}
IdLists    == {<<a, b>>, <<b>>}
TwoRoutines == {g1, g2}
ThreeTypes == {c1, c2, c3}

=============================================================================
