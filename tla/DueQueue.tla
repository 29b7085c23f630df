------------------------------ MODULE DueQueue -------------------------------
(****************************************************************************)
(* What the task queue promises, without a heap: a set of tasks that wait,  *)
(* from which those that are due are given out one by one, the earliest     *)
(* first, and a cancelled one never. TaskHeap implements it.                *)
(****************************************************************************)
EXTENDS Integers, Sequences

CONSTANTS Times, NoTime

VARIABLES
  known,    \* how many tasks were ever added; a task is its number
  waiting,  \* tasks and their times
  until,    \* the time up to which tasks are being given out, or NoTime
  given     \* those given out since that was asked

Init == known = 0 /\ waiting = {} /\ until = NoTime /\ given = <<>>

Due == {x \in waiting : x.at <= until}

Add(time) ==
  /\ until = NoTime /\ known' = known + 1
  /\ waiting' = waiting \cup {[task |-> known', at |-> time]}
  /\ UNCHANGED <<until, given>>

Cancel(t) ==
  /\ waiting' = {x \in waiting : x.task # t}
  /\ UNCHANGED <<known, until, given>>

Ask(time) ==
  /\ until = NoTime /\ until' = time
  /\ UNCHANGED <<known, waiting, given>>

Give(x) ==
  /\ until # NoTime /\ x \in Due /\ \A y \in waiting : x.at <= y.at
  /\ waiting' = waiting \ {x} /\ given' = Append(given, x.task)
  /\ UNCHANGED <<known, until>>

Answer ==
  /\ until # NoTime /\ Due = {}
  /\ until' = NoTime /\ given' = <<>>
  /\ UNCHANGED <<known, waiting>>

Next ==
  \/ \E time \in Times : Add(time)
  \/ \E t \in 1 .. known : Cancel(t)
  \/ \E time \in Times : Ask(time)
  \/ \E x \in waiting : Give(x)
  \/ Answer

Spec == Init /\ [][Next]_<<known, waiting, until, given>>

=============================================================================
