------------------------------ MODULE TaskHeap -------------------------------
(****************************************************************************)
(* The binary heap behind taskQueue: push, pop, up, down, compactHeap, and  *)
(* the two operations of the queue that use them, Push and PopDue. Tasks    *)
(* takes the queue for a set whose earliest members are taken first; this   *)
(* module shows that the heap is one, with tasks cancelled at any moment    *)
(* and thrown out late.                                                     *)
(*                                                                          *)
(* A task is cancelled without the queue's lock, so each round of a loop    *)
(* and each look at a cancelled flag is a step. Positions start at one.     *)
(* scheduledTask.index is written by the code and never read; it is left    *)
(* out.                                                                     *)
(****************************************************************************)
EXTENDS Integers, Sequences

CONSTANTS
  MaxPushed,     \* bound on the calls of Push; a task is the number of its call
  HeapTimes,     \* bound: values of executeAt and of now
  CompactEvery,  \* the 100 of Push
  CompactAfter,  \* the 50 of PopDue
  NoPop

ASSUME CompactAssumption ==
  CompactEvery \in Nat \ {0} /\ CompactAfter \in Nat /\ MaxPushed \in Nat
ASSUME HeapTimesAssumption == HeapTimes \subseteq Int /\ NoPop \notin Int

VARIABLES
  heap,     \* taskQueue.heap: tasks with their executeAt
  pushed,   \* how many tasks have been pushed
  off,      \* tasks whose cancelled flag is set
  doing,    \* where the holder of the lock is, "free" without one
  coming,   \* the executeAt of the task that Push is given
  popTime,  \* the now of a PopDue under way, NoPop without one
  due,      \* its result so far
  skipped,  \* its cancelledCount
  hand,     \* the task it has popped and not yet looked at
  kept,     \* compactHeap: the part of the heap that is written
  root,     \* compactHeap: the next i that is handed to down
  pos       \* the i of up and down, the read of compactHeap

popVars == <<popTime, due, skipped, hand>>
heapVars == <<heap, pushed, off, doing, coming, popVars, kept, root, pos>>

HeapInit ==
  /\ heap = <<>> /\ pushed = 0 /\ off = {} /\ doing = "free" /\ coming = NoPop
  /\ popTime = NoPop /\ due = <<>> /\ skipped = 0 /\ hand = {}
  /\ kept = <<>> /\ root = 0 /\ pos = 0

Swapped(h, i, j) == [h EXCEPT ![i] = h[j], ![j] = h[i]]

-----------------------------------------------------------------------------
(* compactHeap: the tasks that are not cancelled move to the front, then     *)
(* every parent sinks, the last one first.                                   *)
Compact == doing' = "keep" /\ pos' = 1

Kept(x) == IF x.task \in off THEN kept ELSE Append(kept, x)

Keep ==
  /\ doing = "keep" /\ pos <= Len(heap)
  /\ kept' = Kept(heap[pos]) /\ pos' = pos + 1
  /\ UNCHANGED <<heap, pushed, off, doing, coming, popVars, root>>

(* Mutant: the first parent from the end is passed over.                     *)
LastParentButOne(h) == Len(h) \div 2 - 1

LastParent(h) == Len(h) \div 2

Truncate ==
  /\ doing = "keep" /\ pos > Len(heap)
  /\ heap' = kept /\ kept' = <<>> /\ root' = LastParent(kept) /\ pos' = 0 /\ doing' = "rebuild"
  /\ UNCHANGED <<pushed, off, coming, popVars>>

SinkNext ==
  /\ doing = "rebuild" /\ root > 0 /\ pos' = root /\ root' = root - 1 /\ doing' = "down"
  /\ UNCHANGED <<heap, pushed, off, coming, popVars, kept>>

(* PopDue returns.                                                           *)
PopReturn == doing' = "free" /\ popTime' = NoPop /\ due' = <<>> /\ skipped' = 0

(* The heap is in order: Push goes on, PopDue ends.                          *)
Rebuilt ==
  /\ doing = "rebuild" /\ root <= 0
  /\ IF popTime = NoPop THEN doing' = "append" /\ UNCHANGED <<popTime, due, skipped>> ELSE PopReturn
  /\ UNCHANGED <<heap, pushed, off, coming, hand, kept, root, pos>>

-----------------------------------------------------------------------------
(* Push compacts at every multiple of CompactEvery but the first.            *)
Crowded == Len(heap) > CompactEvery /\ Len(heap) % CompactEvery = 0

Push(time) ==
  /\ doing = "free" /\ pushed < MaxPushed /\ coming' = time
  /\ IF Crowded THEN Compact ELSE doing' = "append" /\ UNCHANGED pos
  /\ UNCHANGED <<heap, pushed, off, popVars, kept, root>>

PushAppend ==
  /\ doing = "append" /\ pushed' = pushed + 1
  /\ heap' = Append(heap, [task |-> pushed', at |-> coming])
  /\ coming' = NoPop /\ pos' = Len(heap) + 1 /\ doing' = "up"
  /\ UNCHANGED <<off, popVars, kept, root>>

Rises == pos > 1 /\ heap[pos].at < heap[pos \div 2].at

Up ==
  /\ doing = "up"
  /\ IF Rises
     THEN heap' = Swapped(heap, pos, pos \div 2) /\ pos' = pos \div 2 /\ UNCHANGED doing
     ELSE doing' = "free" /\ pos' = 0 /\ UNCHANGED heap
  /\ UNCHANGED <<pushed, off, coming, popVars, kept, root>>

(* The earlier of the children of i.                                         *)
Child(h, i) ==
  IF 2 * i + 1 <= Len(h) /\ h[2 * i + 1].at < h[2 * i].at THEN 2 * i + 1 ELSE 2 * i

Sinks(j) == 2 * pos <= Len(heap) /\ heap[j].at < heap[pos].at

Down ==
  /\ doing = "down"
  /\ LET j == Child(heap, pos) IN
     IF Sinks(j)
     THEN heap' = Swapped(heap, pos, j) /\ pos' = j /\ UNCHANGED doing
     ELSE doing' = (IF hand = {} THEN "rebuild" ELSE "check") /\ pos' = 0 /\ UNCHANGED heap
  /\ UNCHANGED <<pushed, off, coming, popVars, kept, root>>

-----------------------------------------------------------------------------
(* TaskHandle.Cancel, taskQueue.Remove and close set the flag, no more.      *)
CancelTask(t) ==
  /\ t \in (1 .. pushed) \ off /\ off' = off \cup {t}
  /\ UNCHANGED <<heap, pushed, doing, coming, popVars, kept, root, pos>>

PopBegin(time) ==
  /\ doing = "free" /\ popTime' = time /\ doing' = "pop"
  /\ UNCHANGED <<heap, pushed, off, coming, due, skipped, hand, kept, root, pos>>

TopIsDue == heap # <<>> /\ heap[1].at <= popTime

(* pop: the last takes the place of the first, which is taken off, and       *)
(* sinks.                                                                    *)
WithoutTop(h) == SubSeq(Swapped(h, 1, Len(h)), 1, Len(h) - 1)

Pop ==
  /\ doing = "pop" /\ TopIsDue
  /\ hand' = {heap[1]} /\ heap' = WithoutTop(heap) /\ pos' = 1 /\ doing' = "down"
  /\ UNCHANGED <<pushed, off, coming, popTime, due, skipped, kept, root>>

Popped(x) ==
  /\ doing = "check" /\ x \in hand /\ hand' = {} /\ doing' = "pop"
  /\ IF x.task \in off
     THEN skipped' = skipped + 1 /\ UNCHANGED due
     ELSE due' = Append(due, x.task) /\ UNCHANGED skipped
  /\ UNCHANGED <<heap, pushed, off, coming, popTime, kept, root, pos>>

(* The rest of the heap is compacted when enough cancelled tasks were met.   *)
PopEnd ==
  /\ doing = "pop" /\ ~TopIsDue
  /\ IF skipped > CompactAfter /\ heap # <<>>
     THEN Compact /\ UNCHANGED <<popTime, due, skipped>>
     ELSE PopReturn /\ UNCHANGED pos
  /\ UNCHANGED <<heap, pushed, off, coming, hand, kept, root>>

HeapNext ==
  \/ \E time \in HeapTimes : Push(time) \/ PopBegin(time)
  \/ PushAppend \/ Up
  \/ Keep \/ Truncate \/ SinkNext \/ Rebuilt \/ Down
  \/ Pop \/ PopEnd
  \/ \E x \in hand : Popped(x)
  \/ \E t \in 1 .. MaxPushed : CancelTask(t)

HeapSpec == HeapInit /\ [][HeapNext]_heapVars

-----------------------------------------------------------------------------
(* Properties.                                                               *)

InHeap == {heap[i] : i \in DOMAIN heap}

Live == {x \in InHeap \cup hand : x.task \notin off}

Queue == INSTANCE DueQueue WITH
  Times <- HeapTimes, NoTime <- NoPop,
  known <- pushed, waiting <- Live, until <- popTime, given <- due

(* The heap implements the abstract queue: PopDue gives the due tasks that   *)
(* are not cancelled, the earliest first, none twice, and leaves none; when  *)
(* and whether the heap is compacted cannot be told from outside, although   *)
(* tasks are cancelled while it is.                                          *)
QueueImplemented == Queue!Spec

=============================================================================
