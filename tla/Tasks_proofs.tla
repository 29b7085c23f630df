---------------------------- MODULE Tasks_proofs -----------------------------
(****************************************************************************)
(* Proofs about Tasks for every set of sessions, worlds and tasks, every    *)
(* number of stages and every bound: types, no lost wakeup, no task of a    *)
(* closed session on its way to a run, no task taken up twice, tasks in the *)
(* order of processTasks, a session's tasks in one world at a time, and no  *)
(* more repetitions than asked for.                                         *)
(****************************************************************************)
EXTENDS Tasks, FiniteSetTheorems, TLAPS

USE DEF Times, Stages, Phases, Final, clockVars, fieldVars, queueVars, schedVars, worldVars,
        sessionVars, moveVars, repeatVars, schedRest, worldRest, closeRest, moveRest

-----------------------------------------------------------------------------
(* What the operators on sequences return.                                   *)
LEMMA AppendType ==
  ASSUME NEW S, NEW q \in Seq(S), NEW e \in S
  PROVE  Append(q, e) \in Seq(S)
  OBVIOUS

LEMMA AppendRange ==
  ASSUME NEW S, NEW q \in Seq(S), NEW e \in S
  PROVE  ToSet(Append(q, e)) = ToSet(q) \cup {e}
<1>1. Len(Append(q, e)) = Len(q) + 1 /\ Append(q, e)[Len(q) + 1] = e
  OBVIOUS
<1>2. \A i \in 1 .. Len(q) : Append(q, e)[i] = q[i]
  OBVIOUS
<1>3. DOMAIN Append(q, e) = 1 .. Len(q) + 1 /\ DOMAIN q = 1 .. Len(q)
  BY <1>1, AppendType
<1>4. Len(q) \in Nat
  OBVIOUS
<1>5. 1 .. Len(q) + 1 = (1 .. Len(q)) \cup {Len(q) + 1}
  BY <1>4
<1> QED
  BY <1>1, <1>2, <1>3, <1>5 DEF ToSet

LEMMA HeadTail ==
  ASSUME NEW S, NEW q \in Seq(S), q # <<>>
  PROVE  Head(q) \in S /\ Tail(q) \in Seq(S)
  OBVIOUS

(* The first state has every variable in its type.                           *)
LEMMA TypeInit == Init => TypeOK
<1> SUFFICES ASSUME Init PROVE TypeOK
  OBVIOUS
<1>1. TaskTypes
  BY StagesAssumption, TimeAssumption DEF Init, TaskTypes
<1>2. QueueTypes
  <2>1. now \in Times /\ tickC \in Times \cup {NoTick}
    BY TimeAssumption DEF Init
  <2>2. heap \in SUBSET Tasks /\ notif \in BOOLEAN /\ prompt \in SUBSET Tasks
    BY DEF Init
  <2>3. pops \in Nat /\ batch \in [Tasks -> Nat]
    BY DEF Init
  <2> QED BY <2>1, <2>2, <2>3 DEF QueueTypes
<1>3. SchedTypes
  BY StagesAssumption, TimeAssumption DEF Init, SchedTypes
<1>4. WorldTypes
  BY DEF Init, WorldTypes
<1>5. SessionTypes
  <2>1. /\ pendingTasks \in [Sessions -> SUBSET Tasks]
        /\ closing \in [Sessions -> {"open", "swapped", "taken", "done"}]
        /\ toCancel \in [Sessions -> SUBSET Tasks]
    BY DEF Init
  <2>2. entityWorld \in [Sessions -> Worlds \cup {NoWorld}]
    BY DEF Init
  <2>3. worldCache \in [Sessions -> Worlds \cup {NoWorld}] /\ moves \in 0 .. MaxMoves
    BY MovesAssumption DEF Init
  <2>4. times \in [Handles -> Int] /\ remaining \in [Handles -> Int]
    BY DEF Init
  <2>5. handleCancelled \in SUBSET Handles /\ crashed \in BOOLEAN
    BY DEF Init
  <2> QED BY <2>1, <2>2, <2>3, <2>4, <2>5 DEF SessionTypes
<1> QED
  BY <1>1, <1>2, <1>3, <1>4, <1>5 DEF TypeOK

(* Every step keeps every variable in its type.                              *)
LEMMA TypeNext == TypeOK /\ [Next]_vars => TypeOK'
<1> SUFFICES ASSUME TypeOK, [Next]_vars PROVE TypeOK'
  OBVIOUS
<1> USE DEF TypeOK, TaskTypes, QueueTypes, SchedTypes, WorldTypes, SessionTypes
<1>1. ASSUME ClockStep PROVE TypeOK'
  <2>1. now' \in Times /\ tickC' \in Times \cup {NoTick}
    BY <1>1, TimeAssumption DEF ClockStep
  <2> QED BY <1>1, <2>1 DEF ClockStep
<1>2. ASSUME RecvTick PROVE TypeOK'
  BY <1>2 DEF RecvTick
<1>3. ASSUME RecvNotify PROVE TypeOK'
  BY <1>3 DEF RecvNotify
<1>4. ASSUME ReadClock PROVE TypeOK'
  BY <1>4 DEF ReadClock, WakeTime
<1>5. ASSUME PopDue PROVE TypeOK'
  <2>1. phase' \in [Tasks -> Phases]
    BY <1>5 DEF PopDue
  <2>2. pops' \in Nat /\ heap' \in SUBSET Tasks
    BY <1>5 DEF PopDue, HeapAfter
  <2>3. due' \in SUBSET Tasks
    BY <1>5 DEF PopDue, DueAt
  <2>4. batch' \in [Tasks -> Nat]
    BY <1>5, <2>2 DEF PopDue
  <2>5. TaskTypes'
    BY <1>5, <2>1 DEF PopDue
  <2>6. QueueTypes'
    BY <1>5, <2>2, <2>4 DEF PopDue
  <2>7. SchedTypes'
    <3>1. curStage' \in Stages /\ spc' \in {"select", "grouping"}
      BY <1>5, StagesAssumption DEF PopDue
    <3>2. UNCHANGED <<stamp, chk, chkLeft, chkWorld, groups, globals>>
      BY <1>5 DEF PopDue
    <3> QED BY <2>3, <3>1, <3>2
  <2>8. WorldTypes' /\ SessionTypes'
    BY <1>5 DEF PopDue
  <2> QED BY <2>5, <2>6, <2>7, <2>8
<1>6. ASSUME NEW t \in Tasks, GroupTask(t) PROVE TypeOK'
  <2>1. globals' \in Seq(Tasks)
    <3>1. globals' = globals \/ globals' = Append(globals, t)
      BY <1>6 DEF GroupTask
    <3>2. Append(globals, t) \in Seq(Tasks)
      BY AppendType
    <3> QED BY <3>1, <3>2
  <2>2. chk' \in Tasks \cup {NoTask} /\ chkLeft' \in SUBSET Sessions
    BY <1>6 DEF GroupTask
  <2>3. phase' \in [Tasks -> Phases]
    BY <1>6 DEF GroupTask
  <2> QED BY <1>6, <2>1, <2>2, <2>3 DEF GroupTask
<1>7. ASSUME NEW s \in Sessions, CheckSession(s) PROVE TypeOK'
  <2>1. chk \in Tasks
    BY <1>7 DEF CheckSession
  <2>2. groups' \in [Worlds -> Seq(Tasks)]
    <3>1. CASE groups' = groups
      BY <3>1
    <3>2. CASE groups' # groups
      <4>1. PICK w : w \in Worlds /\ groups' = [groups EXCEPT ![w] = Append(@, chk)]
        BY <1>7, <3>2 DEF CheckSession, Good, SameWorld
      <4>2. Append(groups[w], chk) \in Seq(Tasks)
        BY <2>1, <4>1, AppendType
      <4> QED BY <4>1, <4>2
    <3> QED BY <3>1, <3>2
  <2>3. phase' \in [Tasks -> Phases]
    BY <1>7, <2>1 DEF CheckSession
  <2> QED BY <1>7, <2>2, <2>3 DEF CheckSession
<1>8. ASSUME NEW w \in Worlds, DispatchWorld(w) PROVE TypeOK'
  <2>1. groups' \in [Worlds -> Seq(Tasks)]
    <3>1. <<>> \in Seq(Tasks)
      OBVIOUS
    <3>2. groups' = [groups EXCEPT ![w] = <<>>]
      BY <1>8 DEF DispatchWorld
    <3> QED BY <3>1, <3>2
  <2>2. worldQ' \in [Worlds -> Seq(Seq(Tasks))]
    <3>1. Append(worldQ[w], groups[w]) \in Seq(Seq(Tasks))
      BY AppendType
    <3>2. worldQ' = [worldQ EXCEPT ![w] = Append(worldQ[w], groups[w])]
      BY <1>8 DEF DispatchWorld
    <3> QED BY <3>1, <3>2
  <2>3. phase' \in [Tasks -> Phases]
    BY <1>8 DEF DispatchWorld
  <2> QED BY <1>8, <2>1, <2>2, <2>3 DEF DispatchWorld
<1>9. ASSUME DispatchGlobals PROVE TypeOK'
  <2>1. worldQ' \in [Worlds -> Seq(Seq(Tasks))]
    <3>1. CASE DefaultWorld # NoWorld
      <4>1. worldQ' = [worldQ EXCEPT ![DefaultWorld] = Append(@, globals)]
        BY <1>9, <3>1 DEF DispatchGlobals
      <4>2. DefaultWorld \in Worlds
        BY <3>1, WorldAssumption
      <4> QED BY <4>1, <4>2
    <3>2. CASE DefaultWorld = NoWorld
      BY <1>9, <3>2 DEF DispatchGlobals
    <3> QED BY <3>1, <3>2
  <2>2. phase' \in [Tasks -> Phases]
    <3>1. PICK l \in {"dispatched", "dropped"} :
            phase' = [t \in Tasks |-> IF t \in ToSet(globals) THEN l ELSE phase[t]]
      BY <1>9 DEF DispatchGlobals
    <3>2. l \in Phases
      OBVIOUS
    <3> HIDE DEF Phases
    <3> QED BY <3>1, <3>2
  <2>3. globals' \in Seq(Tasks)
    BY <1>9 DEF DispatchGlobals
  <2>4. TaskTypes'
    BY <1>9, <2>2 DEF DispatchGlobals
  <2>5. QueueTypes' /\ SessionTypes'
    BY <1>9 DEF DispatchGlobals
  <2>6. SchedTypes'
    BY <1>9, <2>3 DEF DispatchGlobals
  <2>7. WorldTypes'
    BY <1>9, <2>1 DEF DispatchGlobals
  <2> QED BY <2>4, <2>5, <2>6, <2>7
<1>10. ASSUME NextStage PROVE TypeOK'
  <2>1. curStage' \in Stages /\ spc' \in {"select", "woken", "popping", "grouping"}
    <3>1. curStage \in Stages /\ spc \in {"select", "woken", "popping", "grouping"}
      OBVIOUS
    <3> HIDE DEF TypeOK
    <3> QED BY <1>10, <3>1, StagesAssumption DEF NextStage, LastStage
  <2>2. TaskTypes' /\ QueueTypes' /\ WorldTypes' /\ SessionTypes'
    BY <1>10 DEF NextStage
  <2>3. SchedTypes'
    BY <1>10, <2>1 DEF NextStage
  <2> QED BY <2>2, <2>3
<1>11. ASSUME NEW w \in Worlds, BeginTx(w) PROVE TypeOK'
  <2>1. Head(worldQ[w]) \in Seq(Tasks) /\ Tail(worldQ[w]) \in Seq(Seq(Tasks))
    BY <1>11, HeadTail DEF BeginTx
  <2> QED BY <1>11, <2>1 DEF BeginTx
<1>12. ASSUME NEW w \in Worlds, PickTask(w) PROVE TypeOK'
  <2>1. Head(tx[w]) \in Tasks /\ Tail(tx[w]) \in Seq(Tasks)
    BY <1>12, HeadTail DEF PickTask
  <2>2. tx' \in [Worlds -> Seq(Tasks)]
    BY <1>12, <2>1 DEF PickTask
  <2>3. phase' \in [Tasks -> Phases]
    <3>1. PICK l \in {"discarded", "picked"} : phase' = [phase EXCEPT ![Head(tx[w])] = l]
      BY <1>12 DEF PickTask
    <3> QED BY <2>1, <3>1
  <2>4. TaskTypes'
    BY <1>12, <2>3 DEF PickTask
  <2>5. QueueTypes' /\ SchedTypes' /\ SessionTypes'
    BY <1>12 DEF PickTask
  <2>6. WorldTypes'
    BY <1>12, <2>2 DEF PickTask
  <2> QED BY <2>4, <2>5, <2>6
<1>13. ASSUME NEW w \in Worlds, StartTask(w) PROVE TypeOK'
  <2>1. Head(tx[w]) \in Tasks /\ Tail(tx[w]) \in Seq(Tasks)
    BY <1>13, HeadTail DEF StartTask
  <2>2. tx' \in [Worlds -> Seq(Tasks)]
    BY <1>13, <2>1 DEF StartTask
  <2>3. phase' \in [Tasks -> Phases]
    <3>1. PICK l \in {"dropped", "leaving", "running"} : phase' = [phase EXCEPT ![Head(tx[w])] = l]
      BY <1>13 DEF StartTask
    <3> QED BY <2>1, <3>1
  <2>4. crashed' \in BOOLEAN /\ payload' \in SUBSET Tasks
    BY <1>13 DEF StartTask
  <2> QED BY <1>13, <2>2, <2>3, <2>4 DEF StartTask
<1>14. ASSUME NEW w \in Worlds, EndTask(w) PROVE TypeOK'
  BY <1>14 DEF EndTask
<1>15. ASSUME NEW w \in Worlds, RemoveTask(w) PROVE TypeOK'
  <2>1. Head(tx[w]) \in Tasks /\ Tail(tx[w]) \in Seq(Tasks)
    BY <1>15, HeadTail DEF RemoveTask
  <2>2. phase' \in [Tasks -> Phases] /\ pendingTasks' \in [Sessions -> SUBSET Tasks]
    BY <1>15, <2>1 DEF RemoveTask
  <2> QED BY <1>15, <2>1, <2>2 DEF RemoveTask
<1>16. ASSUME NEW w \in Worlds, NEW u \in Tasks, NEW at \in Times, EndRepeating(w, u, at) PROVE TypeOK'
  <2> DEFINE t == Head(tx[w])
  <2>1. t \in Tasks
    BY <1>16, HeadTail DEF EndRepeating
  <2> HIDE DEF t
  <2>2. phase' \in [Tasks -> Phases]
    <3>1. phase' = [phase EXCEPT ![t] = "returning"] \/ phase' = [phase EXCEPT ![t] = "returning", ![u] = "adding"]
      BY <1>16, Zenon DEF EndRepeating, t
    <3> QED BY <1>16, <2>1, <3>1
  <2>3. child' \in [Worlds -> Tasks \cup {NoTask}]
    <3>1. child' = child \/ child' = [child EXCEPT ![w] = u]
      BY <1>16, Zenon DEF EndRepeating, t
    <3> QED BY <1>16, <2>1, <3>1
  <2>4. executeAt' \in [Tasks -> Times]
    <3>1. executeAt' = executeAt \/ executeAt' = [executeAt EXCEPT ![u] = at]
      BY <1>16, Zenon DEF EndRepeating, t
    <3> QED BY <1>16, <2>1, <3>1
  <2>5. sessions' \in [Tasks -> SUBSET Sessions]
    <3>1. sessions' = sessions \/ sessions' = [sessions EXCEPT ![u] = sessions[t]]
      BY <1>16, Zenon DEF EndRepeating, t
    <3> QED BY <1>16, <2>1, <3>1
  <2>6. stage' \in [Tasks -> Stages]
    <3>1. stage' = stage \/ stage' = [stage EXCEPT ![u] = stage[t]]
      BY <1>16, Zenon DEF EndRepeating, t
    <3> QED BY <1>16, <2>1, <3>1
  <2>7. wrapper' \in [Tasks -> Handles \cup {NoHandle}]
    <3>1. wrapper' = wrapper \/ wrapper' = [wrapper EXCEPT ![u] = wrapper[t]]
      BY <1>16, Zenon DEF EndRepeating, t
    <3> QED BY <1>16, <2>1, <3>1
  <2>8. toAdd' \in [Tasks -> SUBSET Sessions]
    <3>1. toAdd' = toAdd \/ toAdd' = [toAdd EXCEPT ![u] = sessions[t]]
      BY <1>16, Zenon DEF EndRepeating, t
    <3> QED BY <1>16, <2>1, <3>1
  <2>9. remaining' \in [Handles -> Int]
    <3>1. PICK h : /\ h \in Handles
                   /\ remaining' = [remaining EXCEPT ![h] =
                                      IF h \notin handleCancelled /\ @ > 0 THEN @ - 1 ELSE @]
      BY <1>16, Zenon DEF EndRepeating, t
    <3>2. remaining[h] - 1 \in Int
      BY <3>1
    <3> QED BY <3>1, <3>2
  <2> QED BY <1>16, <2>2, <2>3, <2>4, <2>5, <2>6, <2>7, <2>8, <2>9 DEF EndRepeating
<1>17. ASSUME NEW t \in Tasks, NEW s \in Sessions, AddTask(t, s) PROVE TypeOK'
  BY <1>17 DEF AddTask
<1>18. ASSUME NEW t \in Tasks, Push(t) PROVE TypeOK'
  BY <1>18 DEF Push
<1>19. ASSUME NEW t \in Tasks, PushNotify(t) PROVE TypeOK'
  BY <1>19 DEF PushNotify
<1>20. ASSUME NEW t \in Tasks, Cancel(t) PROVE TypeOK'
  BY <1>20 DEF Cancel
<1>21. ASSUME NEW t \in Tasks, NEW ss \in SUBSET Sessions, NEW at \in Times, NEW st \in Stages, Schedule(t, ss, at, st) PROVE TypeOK'
  BY <1>21 DEF Schedule, Create
<1>22. ASSUME NEW t \in Tasks, NEW h \in Handles, NEW s \in Sessions, NEW at \in Times, NEW st \in Stages, NEW n \in RepeatTimes, ScheduleRepeating(t, h, s, at, st, n)
      PROVE TypeOK'
  BY <1>22, RepeatAssumption DEF ScheduleRepeating, Create
<1>23. ASSUME NEW h \in Handles, CancelRepeating(h) PROVE TypeOK'
  BY <1>23 DEF CancelRepeating
<1>24. ASSUME NEW s \in Sessions, CloseSwap(s) PROVE TypeOK'
  BY <1>24 DEF CloseSwap
<1>25. ASSUME NEW s \in Sessions, CloseTake(s) PROVE TypeOK'
  BY <1>25 DEF CloseTake
<1>26. ASSUME NEW s \in Sessions, CloseDone(s) PROVE TypeOK'
  BY <1>26 DEF CloseDone
<1>27. ASSUME NEW s \in Sessions, NEW t \in Tasks, CloseCancel(s, t) PROVE TypeOK'
  BY <1>27 DEF CloseCancel
<1>28. ASSUME NEW s \in Sessions, LeaveWorld(s) PROVE TypeOK'
  <2>1. moves' \in 0 .. MaxMoves
    BY <1>28, MovesAssumption DEF LeaveWorld
  <2>2. entityWorld' \in [Sessions -> Worlds \cup {NoWorld}]
    BY <1>28 DEF LeaveWorld
  <2>3. TaskTypes' /\ QueueTypes' /\ SchedTypes' /\ WorldTypes'
    BY <1>28 DEF LeaveWorld
  <2>4. SessionTypes'
    BY <1>28, <2>1, <2>2 DEF LeaveWorld
  <2> QED BY <2>3, <2>4
<1>29. ASSUME NEW s \in Sessions, UpdateWorldCache(s) PROVE TypeOK'
  BY <1>29 DEF UpdateWorldCache
<1>30. ASSUME NEW s \in Sessions, NEW w \in Worlds, EnterWorld(s, w) PROVE TypeOK'
  BY <1>30 DEF EnterWorld
<1>31. CASE UNCHANGED vars
  BY <1>31 DEF vars
<1> QED
  BY <1>1, <1>2, <1>3, <1>4, <1>5, <1>6, <1>7, <1>8, <1>9, <1>10, <1>11, <1>12, <1>13, <1>14, <1>15, <1>16, <1>17, <1>18, <1>19, <1>20, <1>21, <1>22, <1>23, <1>24, <1>25, <1>26, <1>27, <1>28, <1>29, <1>30, <1>31, BoundAssumption, TargetAssumption
  DEF Next, SchedulerStep, WorldStep, CallerStep, EnvStep, CloseStep

-----------------------------------------------------------------------------
(* Where the scheduler keeps a task agrees with how far the task has come.   *)
PlacesOK ==
  /\ \A t \in heap : phase[t] = "queued"
  /\ \A t \in due : phase[t] = "due"
  /\ \A t \in Tasks : phase[t] = "checking" => t = chk
  /\ chk # NoTask => phase[chk] = "checking" /\ sessions[chk] # {}
  /\ \A t \in ToSet(globals) : phase[t] = "grouped" /\ sessions[t] = {}
  /\ \A w \in Worlds : \A t \in ToSet(groups[w]) : phase[t] = "grouped" /\ sessions[t] # {}
  /\ \A v, w \in Worlds : v # w => ToSet(groups[v]) \cap ToSet(groups[w]) = {}

(* A task that was due when it was pushed stays due, and is not missed.      *)
PromptOK ==
  /\ \A t \in prompt : phase[t] # "unused" /\ executeAt[t] <= now
  /\ NoLostWakeup

(* The sessions of a task that has been added to their lists.                *)
AddedTo(t, s) ==
  /\ s \in sessions[t]
  /\ \/ phase[t] = "adding" /\ s \notin toAdd[t]
     \/ phase[t] \in {"queued", "due", "checking", "grouped", "dispatched"}

(* s has been checked for task t, and no transaction has taken t up yet.     *)
CheckedFor(t, s) ==
  /\ s \in sessions[t]
  /\ \/ phase[t] \in {"grouped", "dispatched"}
     \/ phase[t] = "checking" /\ s \notin chkLeft

(* close finds every such task, and reaches those already checked.           *)
ClosingOK ==
  \A s \in Sessions, t \in Tasks :
     /\ AddedTo(t, s) /\ closing[s] \in {"open", "swapped"} => t \in pendingTasks[s]
     /\ CheckedFor(t, s) /\ closing[s] = "taken" => t \in toCancel[s] \/ cancelled[t]
     /\ CheckedFor(t, s) /\ closing[s] = "done" => cancelled[t]

IInv == TypeOK /\ PlacesOK /\ PromptOK /\ ClosingOK

LEMMA RangeType ==
  ASSUME NEW S, NEW q \in Seq(S)
  PROVE  ToSet(q) \subseteq S
  BY DEF ToSet

LEMMA RangeEmpty == ToSet(<<>>) = {}
  BY DEF ToSet

(* A step that leaves the scheduler's places alone, and the tasks in them,   *)
(* keeps PlacesOK.                                                           *)
LEMMA PlacesElsewhere ==
  ASSUME TypeOK, PlacesOK,
         UNCHANGED <<heap, due, chk, globals, groups>>,
         \A t \in Tasks : phase[t] \in {"queued", "due", "checking", "grouped"} =>
                            phase'[t] = phase[t] /\ sessions'[t] = sessions[t],
         \A t \in Tasks : phase'[t] = "checking" => phase[t] = "checking"
  PROVE  PlacesOK'
<1> USE DEF TypeOK, QueueTypes, SchedTypes
<1>1. \A t \in heap : phase'[t] = "queued"
  BY DEF PlacesOK
<1>2. \A t \in due : phase'[t] = "due"
  BY DEF PlacesOK
<1>3. \A t \in Tasks : phase'[t] = "checking" => t = chk
  BY DEF PlacesOK
<1>4. chk # NoTask => phase'[chk] = "checking" /\ sessions'[chk] # {}
  BY DEF PlacesOK
<1>5. \A t \in ToSet(globals) : phase'[t] = "grouped" /\ sessions'[t] = {}
  BY RangeType DEF PlacesOK
<1>6. \A w \in Worlds : \A t \in ToSet(groups[w]) : phase'[t] = "grouped" /\ sessions'[t] # {}
  BY RangeType DEF PlacesOK
<1> QED
  BY <1>1, <1>2, <1>3, <1>4, <1>5, <1>6 DEF PlacesOK

LEMMA PlacesInit == Init => PlacesOK
  BY RangeEmpty DEF Init, PlacesOK

(* Every step keeps the places of the scheduler and the phases together.     *)
LEMMA PlacesNext == TypeOK /\ PlacesOK /\ [Next]_vars => PlacesOK'
<1> SUFFICES ASSUME TypeOK, PlacesOK, [Next]_vars PROVE PlacesOK'
  OBVIOUS
<1>1. CASE UNCHANGED <<phase, sessions, heap, due, chk, globals, groups>>
  BY <1>1, PlacesElsewhere
<1>2. ASSUME PopDue PROVE PlacesOK'
  <2>1. /\ heap' = heap \ DueAt(stamp) /\ due' = {t \in DueAt(stamp) : ~cancelled[t]}
        /\ phase' = [t \in Tasks |-> IF t \notin DueAt(stamp) THEN phase[t]
                                     ELSE IF cancelled[t] THEN "discarded" ELSE "due"]
        /\ UNCHANGED <<sessions, chk, globals, groups>>
    BY <1>2 DEF PopDue, HeapAfter
  <2>2. DueAt(stamp) \subseteq heap
    BY DEF DueAt
  <2>3. ToSet(globals) \subseteq Tasks /\ \A v \in Worlds : ToSet(groups[v]) \subseteq Tasks
    BY RangeType DEF TypeOK, SchedTypes
  <2> HIDE DEF DueAt
  <2> QED
    BY <2>1, <2>2, <2>3 DEF PlacesOK, TypeOK, TaskTypes, QueueTypes, SchedTypes
<1>3. ASSUME NEW t \in Tasks, GroupTask(t) PROVE PlacesOK'
  <2>1. phase[t] = "due" /\ due' = due \ {t} /\ chk = NoTask
    BY <1>3 DEF GroupTask, StageTasks, PlacesOK
  <2>2. UNCHANGED <<sessions, heap, groups>>
    BY <1>3 DEF GroupTask
  <2>3. ToSet(globals) \subseteq Tasks /\ \A v \in Worlds : ToSet(groups[v]) \subseteq Tasks
    BY RangeType DEF TypeOK, SchedTypes
  <2>4. CASE cancelled[t]
    <3>1. phase' = [phase EXCEPT ![t] = "discarded"] /\ UNCHANGED <<chk, globals>>
      BY <1>3, <2>4 DEF GroupTask
    <3> QED
      BY <2>1, <2>2, <2>3, <3>1 DEF PlacesOK, TypeOK, TaskTypes, QueueTypes, SchedTypes
  <2>5. CASE ~cancelled[t] /\ sessions[t] = {}
    <3>1. phase' = [phase EXCEPT ![t] = "grouped"] /\ globals' = Append(globals, t) /\ UNCHANGED chk
      BY <1>3, <2>5 DEF GroupTask
    <3>2. ToSet(globals') = ToSet(globals) \cup {t}
      BY <3>1, AppendRange DEF TypeOK, SchedTypes
    <3> QED
      BY <2>1, <2>2, <2>3, <2>5, <3>1, <3>2 DEF PlacesOK, TypeOK, TaskTypes, QueueTypes, SchedTypes
  <2>6. CASE ~cancelled[t] /\ sessions[t] # {}
    <3>1. phase' = [phase EXCEPT ![t] = "checking"] /\ chk' = t /\ UNCHANGED globals
      BY <1>3, <2>6 DEF GroupTask
    <3> QED
      BY <2>1, <2>2, <2>3, <2>6, <3>1, TaskAssumption
      DEF PlacesOK, TypeOK, TaskTypes, QueueTypes, SchedTypes
  <2> QED
    BY <2>4, <2>5, <2>6
<1>4. ASSUME NEW s \in Sessions, CheckSession(s) PROVE PlacesOK'
  <2>1. chk \in Tasks /\ phase[chk] = "checking" /\ sessions[chk] # {}
    BY <1>4 DEF CheckSession, PlacesOK, TypeOK, SchedTypes
  <2>2. UNCHANGED <<sessions, heap, due, globals>>
    BY <1>4 DEF CheckSession
  <2>3. ToSet(globals) \subseteq Tasks /\ \A v \in Worlds : ToSet(groups[v]) \subseteq Tasks
    BY RangeType DEF TypeOK, SchedTypes
  <2>4. CASE ~Good(s)
    <3>1. phase' = [phase EXCEPT ![chk] = "dropped"] /\ chk' = NoTask /\ UNCHANGED groups
      BY <1>4, <2>4 DEF CheckSession
    <3> QED
      BY <2>1, <2>2, <2>3, <3>1, TaskAssumption DEF PlacesOK, TypeOK, TaskTypes, QueueTypes, SchedTypes
  <2>5. CASE Good(s) /\ chkLeft # {s}
    <3>1. UNCHANGED <<phase, chk, groups>>
      BY <1>4, <2>1, <2>5 DEF CheckSession, TypeOK, TaskTypes
    <3> QED
      BY <2>2, <3>1, PlacesElsewhere
  <2>6. CASE Good(s) /\ chkLeft = {s}
    <3>1. worldCache[s] \in Worlds
      BY <1>4, <2>6 DEF Good, SameWorld, TypeOK, SessionTypes
    <3>2. /\ phase' = [phase EXCEPT ![chk] = "grouped"] /\ chk' = NoTask
          /\ groups' = [groups EXCEPT ![worldCache[s]] = Append(@, chk)]
      BY <1>4, <2>6 DEF CheckSession
    <3>3. \A v \in Worlds : ToSet(groups'[v]) = IF v = worldCache[s] THEN ToSet(groups[v]) \cup {chk}
                                                 ELSE ToSet(groups[v])
      <4>1. ToSet(Append(groups[worldCache[s]], chk)) = ToSet(groups[worldCache[s]]) \cup {chk}
        BY <2>1, <3>1, AppendRange DEF TypeOK, SchedTypes
      <4>2. \A v \in Worlds : groups'[v] = IF v = worldCache[s] THEN Append(groups[v], chk) ELSE groups[v]
        BY <3>1, <3>2 DEF TypeOK, SchedTypes
      <4> QED
        BY <4>1, <4>2
    <3>4. \A v \in Worlds : chk \notin ToSet(groups[v])
      BY <2>1 DEF PlacesOK
    <3>5. \A v \in Tasks : phase'[v] = IF v = chk THEN "grouped" ELSE phase[v]
      BY <2>1, <3>2 DEF TypeOK, TaskTypes
    <3>6. \A v \in Tasks : phase'[v] # "checking"
      BY <3>5 DEF PlacesOK
    <3>7. \A v \in heap' : phase'[v] = "queued"
      BY <2>1, <2>2, <3>5 DEF PlacesOK, TypeOK, QueueTypes
    <3>8. \A v \in due' : phase'[v] = "due"
      BY <2>1, <2>2, <3>5 DEF PlacesOK, TypeOK, SchedTypes
    <3>9. \A v \in ToSet(globals') : phase'[v] = "grouped" /\ sessions'[v] = {}
      BY <2>1, <2>2, <2>3, <3>5 DEF PlacesOK
    <3>10. \A w \in Worlds : \A v \in ToSet(groups'[w]) : phase'[v] = "grouped" /\ sessions'[v] # {}
      <4>1. \A v \in Tasks : v # chk => phase'[v] = phase[v] /\ sessions'[v] = sessions[v]
        BY <2>2, <3>5
      <4>2. phase'[chk] = "grouped" /\ sessions'[chk] # {}
        BY <2>1, <2>2, <3>5
      <4>3. \A w \in Worlds : ToSet(groups'[w]) \subseteq ToSet(groups[w]) \cup {chk}
        BY <3>3
      <4> QED
        BY <2>3, <4>1, <4>2, <4>3 DEF PlacesOK
    <3>11. \A v, w \in Worlds : v # w => ToSet(groups'[v]) \cap ToSet(groups'[w]) = {}
      <4>1. ASSUME NEW v \in Worlds, NEW w \in Worlds, v # w
            PROVE  ToSet(groups'[v]) \cap ToSet(groups'[w]) = {}
        <5>1. ToSet(groups[v]) \cap ToSet(groups[w]) = {}
          BY <4>1 DEF PlacesOK
        <5>2. CASE v = worldCache[s]
          BY <4>1, <5>1, <5>2, <3>3, <3>4
        <5>3. CASE v # worldCache[s]
          BY <4>1, <5>1, <5>3, <3>3, <3>4
        <5> QED
          BY <5>2, <5>3
      <4> QED
        BY <4>1
    <3> QED
      BY <3>2, <3>6, <3>7, <3>8, <3>9, <3>10, <3>11 DEF PlacesOK
  <2> QED
    BY <2>4, <2>5, <2>6
<1>5. ASSUME NEW w \in Worlds, DispatchWorld(w) PROVE PlacesOK'
  <2>1. phase' = [t \in Tasks |-> IF t \in ToSet(groups[w]) THEN "dispatched" ELSE phase[t]]
    BY <1>5 DEF DispatchWorld
  <2>2. UNCHANGED <<sessions, heap, due, chk, globals>>
    BY <1>5 DEF DispatchWorld
  <2>3. \A v \in Worlds : ToSet(groups'[v]) = IF v = w THEN {} ELSE ToSet(groups[v])
    BY <1>5, RangeEmpty DEF DispatchWorld, TypeOK, SchedTypes
  <2>4. \A v \in Worlds : ToSet(groups[v]) \subseteq Tasks
    BY RangeType DEF TypeOK, SchedTypes
  <2>5. ToSet(globals) \subseteq Tasks /\ ToSet(globals) \cap ToSet(groups[w]) = {}
    BY RangeType DEF PlacesOK, TypeOK, SchedTypes
  <2> QED
    BY <2>1, <2>2, <2>3, <2>4, <2>5 DEF PlacesOK, TypeOK, QueueTypes, SchedTypes, TaskTypes
<1>6. ASSUME DispatchGlobals PROVE PlacesOK'
  <2>1. \E x \in {"dispatched", "dropped"} :
          phase' = [t \in Tasks |-> IF t \in ToSet(globals) THEN x ELSE phase[t]]
    BY <1>6 DEF DispatchGlobals
  <2>2. UNCHANGED <<sessions, heap, due, chk, groups>> /\ globals' = <<>>
    BY <1>6 DEF DispatchGlobals
  <2>3. \A w \in Worlds : ToSet(groups[w]) \subseteq Tasks /\ ToSet(groups[w]) \cap ToSet(globals) = {}
    BY RangeType DEF PlacesOK, TypeOK, SchedTypes
  <2>4. ToSet(globals') = {}
    BY <2>2, RangeEmpty
  <2> QED
    BY <2>1, <2>2, <2>3, <2>4 DEF PlacesOK, TypeOK, QueueTypes, SchedTypes, TaskTypes
<1>7. ASSUME NEW w \in Worlds, PickTask(w) PROVE PlacesOK'
  <2> DEFINE t == Head(tx[w])
  <2>1. t \in Tasks
    BY <1>7, HeadTail DEF PickTask, TypeOK, WorldTypes
  <2>2. phase[t] \in {"dispatched"} /\ \E x \in {"discarded", "picked"} : phase' = [phase EXCEPT ![t] = x]
    BY <1>7 DEF PickTask
  <2>3. UNCHANGED <<sessions, heap, due, chk, globals, groups>>
    BY <1>7 DEF PickTask
  <2> HIDE DEF t
  <2> QED
    BY <2>1, <2>2, <2>3, PlacesElsewhere DEF TypeOK, TaskTypes
<1>8. ASSUME NEW w \in Worlds, StartTask(w) PROVE PlacesOK'
  <2> DEFINE t == Head(tx[w])
  <2>1. t \in Tasks
    BY <1>8, HeadTail DEF StartTask, TypeOK, WorldTypes
  <2>2. phase[t] \in {"picked"} /\ \E x \in {"dropped", "leaving", "running"} : phase' = [phase EXCEPT ![t] = x]
    BY <1>8 DEF StartTask
  <2>3. UNCHANGED <<sessions, heap, due, chk, globals, groups>>
    BY <1>8 DEF StartTask
  <2> HIDE DEF t
  <2> QED
    BY <2>1, <2>2, <2>3, PlacesElsewhere DEF TypeOK, TaskTypes
<1>9. ASSUME NEW w \in Worlds, EndTask(w) PROVE PlacesOK'
  <2> DEFINE t == Head(tx[w])
  <2>1. t \in Tasks
    BY <1>9, HeadTail DEF EndTask, TypeOK, WorldTypes
  <2>2. phase[t] \in {"running"} /\ \E x \in {"returning"} : phase' = [phase EXCEPT ![t] = x]
    BY <1>9 DEF EndTask
  <2>3. UNCHANGED <<sessions, heap, due, chk, globals, groups>>
    BY <1>9 DEF EndTask
  <2> HIDE DEF t
  <2> QED
    BY <2>1, <2>2, <2>3, PlacesElsewhere DEF TypeOK, TaskTypes
<1>10. ASSUME NEW w \in Worlds, RemoveTask(w) PROVE PlacesOK'
  <2> DEFINE t == Head(tx[w])
  <2>1. t \in Tasks
    BY <1>10, HeadTail DEF RemoveTask, TypeOK, WorldTypes
  <2>2. phase[t] \in {"returning", "leaving"} /\ \E x \in {"ran", "skipped"} : phase' = [phase EXCEPT ![t] = x]
    BY <1>10 DEF RemoveTask
  <2>3. UNCHANGED <<sessions, heap, due, chk, globals, groups>>
    BY <1>10 DEF RemoveTask
  <2> HIDE DEF t
  <2> QED
    BY <2>1, <2>2, <2>3, PlacesElsewhere DEF TypeOK, TaskTypes
<1>11. ASSUME NEW w \in Worlds, NEW u \in Tasks, NEW at \in Times, EndRepeating(w, u, at)
       PROVE PlacesOK'
  <2> DEFINE t == Head(tx[w])
  <2>1. t \in Tasks
    BY <1>11, HeadTail DEF EndRepeating, TypeOK, WorldTypes
  <2>2. phase[t] = "running"
    BY <1>11 DEF EndRepeating
  <2> HIDE DEF t
  <2>3. \/ phase' = [phase EXCEPT ![t] = "returning"] /\ sessions' = sessions
        \/ /\ phase[u] = "unused"
           /\ phase' = [phase EXCEPT ![t] = "returning", ![u] = "adding"]
           /\ sessions' = [sessions EXCEPT ![u] = sessions[t]]
    BY <1>11, Zenon DEF EndRepeating, t
  <2>4. UNCHANGED <<heap, due, chk, globals, groups>>
    BY <1>11 DEF EndRepeating
  <2>5. \A v \in Tasks : phase[v] \in {"queued", "due", "checking", "grouped"} =>
                            phase'[v] = phase[v] /\ sessions'[v] = sessions[v]
    BY <2>1, <2>2, <2>3 DEF TypeOK, TaskTypes
  <2>6. \A v \in Tasks : phase'[v] = "checking" => phase[v] = "checking"
    BY <1>11, <2>1, <2>2, <2>3 DEF TypeOK, TaskTypes
  <2> QED
    BY <2>4, <2>5, <2>6, PlacesElsewhere
<1>12. ASSUME NEW t \in Tasks, Push(t) PROVE PlacesOK'
  <2>1. \A v \in Tasks : v # t => phase'[v] = phase[v]
    BY <1>12 DEF Push, TypeOK, TaskTypes
  <2>2. phase[t] = "adding" /\ phase'[t] = "queued" /\ heap' = heap \cup {t}
    BY <1>12 DEF Push, TypeOK, TaskTypes
  <2>3. UNCHANGED <<sessions, due, chk, globals, groups>>
    BY <1>12 DEF Push
  <2>4. \A w \in Worlds : ToSet(groups[w]) \subseteq Tasks
    BY RangeType DEF TypeOK, SchedTypes
  <2>5. ToSet(globals) \subseteq Tasks
    BY RangeType DEF TypeOK, SchedTypes
  <2>6. /\ heap \subseteq Tasks /\ due \subseteq Tasks /\ chk \in Tasks \cup {NoTask}
        /\ \A v \in Tasks : phase'[v] \in {"due", "checking", "grouped"} => phase'[v] = phase[v]
        /\ \A v \in Tasks : phase[v] \in {"due", "checking", "grouped", "queued"} => phase'[v] = phase[v]
    BY <2>1, <2>2 DEF TypeOK, QueueTypes, SchedTypes
  <2>7. \A v \in heap' : phase'[v] = "queued"
    BY <2>2, <2>6 DEF PlacesOK
  <2>8. \A v \in due : phase'[v] = "due"
    BY <2>6 DEF PlacesOK
  <2>9. /\ \A v \in Tasks : phase'[v] = "checking" => v = chk
        /\ chk # NoTask => phase'[chk] = "checking" /\ sessions[chk] # {}
    BY <2>6 DEF PlacesOK
  <2>10. /\ \A v \in ToSet(globals) : phase'[v] = "grouped" /\ sessions[v] = {}
         /\ \A w \in Worlds : \A v \in ToSet(groups[w]) : phase'[v] = "grouped" /\ sessions[v] # {}
    BY <2>4, <2>5, <2>6 DEF PlacesOK
  <2> QED
    BY <2>3, <2>7, <2>8, <2>9, <2>10 DEF PlacesOK
<1>13. ASSUME NEW t \in Tasks, NEW ss, NEW at, NEW st, NEW h, Create(t, ss, at, st, h),
              UNCHANGED <<heap, due, chk, globals, groups>>
       PROVE PlacesOK'
  <2>1. \A v \in Tasks : v # t => phase'[v] = phase[v] /\ sessions'[v] = sessions[v]
    BY <1>13 DEF Create, TypeOK, TaskTypes
  <2>2. phase[t] = "unused" /\ phase'[t] = "adding"
    BY <1>13 DEF Create, TypeOK, TaskTypes
  <2> QED
    BY <1>13, <2>1, <2>2, PlacesElsewhere
<1>14. CASE UNCHANGED vars
  BY <1>14, <1>1 DEF vars
<1>15. CASE ClockStep
  BY <1>15, <1>1 DEF ClockStep
<1>16. CASE SchedulerStep
  BY <1>16, <1>1, <1>2, <1>3, <1>4, <1>5, <1>6 DEF SchedulerStep, RecvTick, RecvNotify, ReadClock, NextStage
<1>17. ASSUME NEW w \in Worlds, WorldStep(w) PROVE PlacesOK'
  BY <1>17, <1>1, <1>7, <1>8, <1>9, <1>10, <1>11 DEF WorldStep, BeginTx
<1>18. ASSUME NEW t \in Tasks, CallerStep(t) PROVE PlacesOK'
  BY <1>18, <1>1, <1>12 DEF CallerStep, AddTask, PushNotify
<1>19. CASE EnvStep
  <2>1. ASSUME NEW t \in Tasks, NEW ss \in SUBSET Sessions, NEW at \in Times, NEW st \in Stages,
               Schedule(t, ss, at, st)
        PROVE PlacesOK'
    BY <2>1, <1>13 DEF Schedule
  <2>2. ASSUME NEW t \in Tasks, NEW h \in Handles, NEW s \in Sessions, NEW at \in Times,
               NEW st \in Stages, NEW n \in RepeatTimes, ScheduleRepeating(t, h, s, at, st, n)
        PROVE PlacesOK'
    BY <2>2, <1>13 DEF ScheduleRepeating
  <2>3. ASSUME NEW t \in Tasks, Cancel(t) PROVE PlacesOK'
    BY <2>3, <1>1 DEF Cancel
  <2>4. ASSUME NEW h \in Handles, CancelRepeating(h) PROVE PlacesOK'
    BY <2>4, <1>1 DEF CancelRepeating
  <2>5. ASSUME NEW s \in Sessions, CloseSwap(s) \/ CloseStep(s) PROVE PlacesOK'
    BY <2>5, <1>1 DEF CloseSwap, CloseStep, CloseTake, CloseDone, CloseCancel
  <2>6. ASSUME NEW s \in Sessions, NEW w \in Worlds, EnterWorld(s, w) PROVE PlacesOK'
    BY <2>6, <1>1 DEF EnterWorld
  <2>7. ASSUME NEW s \in Sessions, LeaveWorld(s) \/ UpdateWorldCache(s) PROVE PlacesOK'
    BY <2>7, <1>1 DEF LeaveWorld, UpdateWorldCache
  <2> QED
    BY <1>19, <2>1, <2>2, <2>3, <2>4, <2>5, <2>6, <2>7, BoundAssumption, TargetAssumption DEF EnvStep
<1> QED
  BY <1>14, <1>15, <1>16, <1>17, <1>18, <1>19 DEF Next

-----------------------------------------------------------------------------
(* A step that leaves the queue and the signals alone keeps PromptOK.        *)
LEMMA PromptElsewhere ==
  ASSUME TypeOK, PromptOK,
         UNCHANGED <<prompt, heap, notifying, notif, spc, stamp>>,
         now' >= now, now' \in Times,
         \A t \in Tasks : phase[t] # "unused" => phase'[t] # "unused" /\ executeAt'[t] = executeAt[t]
  PROVE  PromptOK'
<1> USE DEF TypeOK, TaskTypes, QueueTypes
<1>1. \A t \in prompt : phase'[t] # "unused" /\ executeAt'[t] = executeAt[t] /\ executeAt[t] <= now'
  BY TimeAssumption DEF PromptOK
<1>2. NoLostWakeup'
  BY <1>1 DEF PromptOK, NoLostWakeup
<1> QED
  BY <1>1, <1>2 DEF PromptOK

LEMMA PromptInit == Init => PromptOK
  BY DEF Init, PromptOK, NoLostWakeup

(* Every step keeps the promise that a signal is on its way.                 *)
LEMMA PromptNext == TypeOK /\ PlacesOK /\ PromptOK /\ [Next]_vars => PromptOK'
<1> SUFFICES ASSUME TypeOK, PlacesOK, PromptOK, [Next]_vars PROVE PromptOK'
  OBVIOUS
<1>0. now \in Int
  BY TimeAssumption DEF TypeOK, QueueTypes
<1>1. CASE UNCHANGED <<now, phase, executeAt, prompt, heap, notifying, notif, spc, stamp>>
  BY <1>0, <1>1, PromptElsewhere DEF TypeOK, QueueTypes
<1>2. CASE /\ UNCHANGED <<now, executeAt, prompt, heap, notifying, notif, spc, stamp>>
           /\ \A t \in Tasks : phase[t] # "unused" => phase'[t] # "unused"
  BY <1>0, <1>2, PromptElsewhere DEF TypeOK, QueueTypes
<1>3. CASE ClockStep
  <2>1. now' \in Times /\ now' >= now
    BY <1>3, TimeAssumption DEF ClockStep, TypeOK, QueueTypes
  <2>2. UNCHANGED <<phase, executeAt, prompt, heap, notifying, notif, spc, stamp>>
    BY <1>3 DEF ClockStep
  <2> QED
    BY <2>1, <2>2, PromptElsewhere
<1>4. ASSUME NEW t \in Tasks, Push(t) PROVE PromptOK'
  <2>1. \A u \in Tasks : u # t => phase'[u] = phase[u]
    BY <1>4 DEF Push, TypeOK, TaskTypes
  <2>2. /\ phase'[t] = "queued" /\ heap' = heap \cup {t} /\ notifying' = notifying \cup {t}
        /\ prompt' = IF executeAt[t] <= now THEN prompt \cup {t} ELSE prompt
        /\ UNCHANGED <<now, executeAt, notif, spc, stamp>>
    BY <1>4 DEF Push, TypeOK, TaskTypes
  <2>3. \A u \in prompt' : phase'[u] # "unused" /\ executeAt'[u] <= now'
    BY <2>1, <2>2 DEF PromptOK, TypeOK, QueueTypes
  <2>4. NoLostWakeup'
    BY <2>2 DEF PromptOK, NoLostWakeup
  <2> QED
    BY <2>3, <2>4 DEF PromptOK
<1>5. ASSUME NEW t \in Tasks, PushNotify(t) PROVE PromptOK'
  BY <1>5 DEF PushNotify, PromptOK, NoLostWakeup
<1>6. CASE RecvTick
  BY <1>6 DEF RecvTick, PromptOK, NoLostWakeup
<1>7. CASE RecvNotify
  BY <1>7 DEF RecvNotify, PromptOK, NoLostWakeup
<1>8. CASE ReadClock
  BY <1>8 DEF ReadClock, WakeTime, PromptOK, NoLostWakeup
<1>9. CASE PopDue
  <2>1. /\ heap' = heap \ DueAt(stamp)
        /\ spc = "popping"
        /\ \A t \in Tasks : phase'[t] = "unused" => phase[t] = "unused"
        /\ UNCHANGED <<now, executeAt, prompt, notifying, notif, stamp>>
    BY <1>9 DEF PopDue, HeapAfter
  <2>2. \A t \in heap' : ~(executeAt[t] <= stamp)
    BY <2>1 DEF DueAt
  <2> QED
    BY <2>1, <2>2 DEF PromptOK, NoLostWakeup, TypeOK, QueueTypes
<1>10. CASE NextStage
  BY <1>10 DEF NextStage, StageGrouped, PromptOK, NoLostWakeup
<1>11. ASSUME NEW t \in Tasks, GroupTask(t) PROVE PromptOK'
  BY <1>11, <1>2 DEF GroupTask, TypeOK, TaskTypes
<1>12. ASSUME NEW s \in Sessions, CheckSession(s) PROVE PromptOK'
  BY <1>12, <1>2 DEF CheckSession, TypeOK, TaskTypes
<1>13. ASSUME NEW w \in Worlds, DispatchWorld(w) PROVE PromptOK'
  BY <1>13, <1>2 DEF DispatchWorld, TypeOK, TaskTypes
<1>14. CASE DispatchGlobals
  BY <1>14, <1>2 DEF DispatchGlobals, TypeOK, TaskTypes
<1>15. ASSUME NEW t \in Tasks, NEW ss, NEW at, NEW st, NEW h, Create(t, ss, at, st, h),
              UNCHANGED <<now, prompt, heap, notifying, notif, spc, stamp>>
       PROVE PromptOK'
  <2>1. \A u \in Tasks : phase[u] # "unused" => phase'[u] # "unused" /\ executeAt'[u] = executeAt[u]
    BY <1>15 DEF Create, TypeOK, TaskTypes
  <2> QED
    BY <1>0, <1>15, <2>1, PromptElsewhere DEF TypeOK, QueueTypes
<1>16. ASSUME NEW w \in Worlds, NEW u \in Tasks, NEW at \in Times, EndRepeating(w, u, at)
       PROVE PromptOK'
  <2> DEFINE t == Head(tx[w])
  <2>1. t \in Tasks
    BY <1>16, HeadTail DEF EndRepeating, TypeOK, WorldTypes
  <2> HIDE DEF t
  <2>2. \/ phase' = [phase EXCEPT ![t] = "returning"] /\ executeAt' = executeAt
        \/ /\ phase[u] = "unused"
           /\ phase' = [phase EXCEPT ![t] = "returning", ![u] = "adding"]
           /\ executeAt' = [executeAt EXCEPT ![u] = at]
    BY <1>16, Zenon DEF EndRepeating, t
  <2>3. \A v \in Tasks : phase[v] # "unused" => phase'[v] # "unused" /\ executeAt'[v] = executeAt[v]
    BY <2>1, <2>2 DEF TypeOK, TaskTypes
  <2>4. UNCHANGED <<now, prompt, heap, notifying, notif, spc, stamp>>
    BY <1>16 DEF EndRepeating
  <2> QED
    BY <1>0, <2>3, <2>4, PromptElsewhere DEF TypeOK, QueueTypes
<1>17. ASSUME NEW w \in Worlds, BeginTx(w) \/ PickTask(w) \/ StartTask(w) \/ EndTask(w) \/ RemoveTask(w)
       PROVE PromptOK'
  <2>1. UNCHANGED <<now, executeAt, prompt, heap, notifying, notif, spc, stamp>>
    BY <1>17 DEF BeginTx, PickTask, StartTask, EndTask, RemoveTask
  <2>2. \E x \in Phases \ {"unused"} : phase' = [phase EXCEPT ![Head(tx[w])] = x] \/ phase' = phase
    <3>1. CASE BeginTx(w)
      BY <3>1 DEF BeginTx
    <3>2. CASE PickTask(w)
      BY <3>2 DEF PickTask
    <3>3. CASE StartTask(w)
      BY <3>3 DEF StartTask
    <3>4. CASE EndTask(w)
      BY <3>4 DEF EndTask
    <3>5. CASE RemoveTask(w)
      BY <3>5 DEF RemoveTask
    <3> QED
      BY <1>17, <3>1, <3>2, <3>3, <3>4, <3>5
  <2>3. \A v \in Tasks : phase[v] # "unused" => phase'[v] # "unused"
    BY <2>2 DEF TypeOK, TaskTypes
  <2> QED
    BY <1>2, <2>1, <2>3
<1>18. CASE UNCHANGED vars
  BY <1>18, <1>1 DEF vars
<1>19. CASE SchedulerStep
  BY <1>19, <1>6, <1>7, <1>8, <1>9, <1>10, <1>11, <1>12, <1>13, <1>14 DEF SchedulerStep
<1>20. ASSUME NEW w \in Worlds, WorldStep(w) PROVE PromptOK'
  BY <1>20, <1>16, <1>17 DEF WorldStep
<1>21. ASSUME NEW t \in Tasks, CallerStep(t) PROVE PromptOK'
  BY <1>21, <1>1, <1>4, <1>5 DEF CallerStep, AddTask
<1>22. CASE EnvStep
  <2>1. ASSUME NEW t \in Tasks, NEW ss \in SUBSET Sessions, NEW at \in Times, NEW st \in Stages,
               Schedule(t, ss, at, st)
        PROVE PromptOK'
    BY <2>1, <1>15 DEF Schedule
  <2>2. ASSUME NEW t \in Tasks, NEW h \in Handles, NEW s \in Sessions, NEW at \in Times,
               NEW st \in Stages, NEW n \in RepeatTimes, ScheduleRepeating(t, h, s, at, st, n)
        PROVE PromptOK'
    BY <2>2, <1>15 DEF ScheduleRepeating
  <2>3. ASSUME NEW t \in Tasks, Cancel(t) PROVE PromptOK'
    BY <2>3, <1>1 DEF Cancel
  <2>4. ASSUME NEW h \in Handles, CancelRepeating(h) PROVE PromptOK'
    BY <2>4, <1>1 DEF CancelRepeating
  <2>5. ASSUME NEW s \in Sessions, CloseSwap(s) \/ CloseStep(s) PROVE PromptOK'
    BY <2>5, <1>1 DEF CloseSwap, CloseStep, CloseTake, CloseDone, CloseCancel
  <2>6. ASSUME NEW s \in Sessions, NEW w \in Worlds, EnterWorld(s, w) PROVE PromptOK'
    BY <2>6, <1>1 DEF EnterWorld
  <2>7. ASSUME NEW s \in Sessions, LeaveWorld(s) \/ UpdateWorldCache(s) PROVE PromptOK'
    BY <2>7, <1>1 DEF LeaveWorld, UpdateWorldCache
  <2> QED
    BY <1>22, <2>1, <2>2, <2>3, <2>4, <2>5, <2>6, <2>7, BoundAssumption, TargetAssumption DEF EnvStep
<1> QED
  BY <1>3, <1>18, <1>19, <1>20, <1>21, <1>22 DEF Next

-----------------------------------------------------------------------------
(* A step that closes nothing, and puts no task of a session on its way that *)
(* was not on it before, keeps ClosingOK.                                    *)
LEMMA ClosingElsewhere ==
  ASSUME ClosingOK, UNCHANGED <<closing, toCancel>>,
         \A t \in Tasks : cancelled[t] => cancelled'[t],
         \A s \in Sessions, t \in Tasks :
           /\ AddedTo(t, s)' => AddedTo(t, s)
           /\ CheckedFor(t, s)' => CheckedFor(t, s)
           /\ AddedTo(t, s)' /\ t \in pendingTasks[s] => t \in pendingTasks'[s]
  PROVE  ClosingOK'
  BY DEF ClosingOK

(* The same, for a step that changes the phase of one task only, to one in   *)
(* which it is not on its way.                                               *)
LEMMA ClosingOff ==
  ASSUME TypeOK, ClosingOK, UNCHANGED <<closing, toCancel, sessions, toAdd, chkLeft>>,
         \A t \in Tasks : cancelled[t] => cancelled'[t],
         \A t \in Tasks : phase'[t] # phase[t] =>
           phase'[t] \in {"discarded", "dropped", "picked", "running", "leaving", "returning",
                          "skipped", "ran"},
         \A s \in Sessions : \A t \in pendingTasks[s] :
           t \in pendingTasks'[s] \/ phase'[t] \in {"skipped", "ran"}
  PROVE  ClosingOK'
<1>1. \A s \in Sessions, t \in Tasks : AddedTo(t, s)' => AddedTo(t, s)
  BY DEF AddedTo
<1>2. \A s \in Sessions, t \in Tasks : CheckedFor(t, s)' => CheckedFor(t, s)
  BY DEF CheckedFor
<1>3. \A s \in Sessions, t \in Tasks :
        AddedTo(t, s)' /\ t \in pendingTasks[s] => t \in pendingTasks'[s]
  BY DEF AddedTo
<1> QED
  BY <1>1, <1>2, <1>3, ClosingElsewhere

LEMMA ClosingInit == Init => ClosingOK
  BY DEF Init, ClosingOK, AddedTo, CheckedFor

(* Every step keeps every task that is on its way within the reach of close. *)
LEMMA ClosingNext == TypeOK /\ PlacesOK /\ ClosingOK /\ [Next]_vars => ClosingOK'
<1> SUFFICES ASSUME TypeOK, PlacesOK, ClosingOK, [Next]_vars PROVE ClosingOK'
  OBVIOUS
<1>1. CASE UNCHANGED <<closing, toCancel, sessions, toAdd, chkLeft, phase, cancelled, pendingTasks>>
  BY <1>1, ClosingOff
<1>2. ASSUME NEW t \in Tasks, NEW ss, NEW at, NEW st, NEW h, Create(t, ss, at, st, h),
             UNCHANGED <<closing, toCancel, chkLeft, cancelled, pendingTasks>>
      PROVE ClosingOK'
  <2>1. \A u \in Tasks : u # t => phase'[u] = phase[u] /\ sessions'[u] = sessions[u] /\ toAdd'[u] = toAdd[u]
    BY <1>2 DEF Create, TypeOK, TaskTypes
  <2>2. phase'[t] = "adding" /\ toAdd'[t] = sessions'[t]
    BY <1>2 DEF Create, TypeOK, TaskTypes
  <2>3. \A s \in Sessions, u \in Tasks : AddedTo(u, s)' => AddedTo(u, s)
    BY <2>1, <2>2 DEF AddedTo
  <2>4. \A s \in Sessions, u \in Tasks : CheckedFor(u, s)' => CheckedFor(u, s)
    BY <1>2, <2>1, <2>2 DEF CheckedFor
  <2> QED
    BY <1>2, <2>3, <2>4, ClosingElsewhere
<1>3. ASSUME NEW t \in Tasks, NEW s \in Sessions, AddTask(t, s) PROVE ClosingOK'
  <2>1. \A u \in Tasks, r \in Sessions : AddedTo(u, r)' => AddedTo(u, r) \/ (u = t /\ r = s)
    BY <1>3 DEF AddTask, AddedTo, TypeOK, TaskTypes
  <2>2. \A u \in Tasks, r \in Sessions : CheckedFor(u, r)' => CheckedFor(u, r)
    BY <1>3 DEF AddTask, CheckedFor
  <2>3. t \in pendingTasks'[s] /\ \A r \in Sessions : pendingTasks[r] \subseteq pendingTasks'[r]
    BY <1>3 DEF AddTask, TypeOK, SessionTypes
  <2>4. UNCHANGED <<closing, toCancel, cancelled>>
    BY <1>3 DEF AddTask
  <2> QED
    BY <2>1, <2>2, <2>3, <2>4 DEF ClosingOK
<1>4. ASSUME NEW t \in Tasks, Push(t) PROVE ClosingOK'
  <2>1. \A u \in Tasks : u # t => phase'[u] = phase[u]
    BY <1>4 DEF Push, TypeOK, TaskTypes
  <2>2. phase[t] = "adding" /\ toAdd[t] = {} /\ phase'[t] = "queued"
    BY <1>4 DEF Push, TypeOK, TaskTypes
  <2>3. UNCHANGED <<closing, toCancel, sessions, toAdd, chkLeft, cancelled, pendingTasks>>
    BY <1>4 DEF Push
  <2>4. \A s \in Sessions, u \in Tasks : AddedTo(u, s)' => AddedTo(u, s)
    BY <2>1, <2>2, <2>3 DEF AddedTo
  <2>5. \A s \in Sessions, u \in Tasks : CheckedFor(u, s)' => CheckedFor(u, s)
    BY <2>1, <2>2, <2>3 DEF CheckedFor
  <2> QED
    BY <2>3, <2>4, <2>5, ClosingElsewhere
<1>5. CASE PopDue
  <2>1. \A u \in Tasks : phase'[u] = phase[u] \/ (phase[u] = "queued" /\ phase'[u] \in {"discarded", "due"})
    BY <1>5 DEF PopDue, DueAt, PlacesOK, TypeOK, TaskTypes
  <2>2. UNCHANGED <<closing, toCancel, sessions, toAdd, chkLeft, cancelled, pendingTasks>>
    BY <1>5 DEF PopDue
  <2>3. \A s \in Sessions, u \in Tasks : AddedTo(u, s)' => AddedTo(u, s)
    BY <2>1, <2>2 DEF AddedTo
  <2>4. \A s \in Sessions, u \in Tasks : CheckedFor(u, s)' => CheckedFor(u, s)
    BY <2>1, <2>2 DEF CheckedFor
  <2> QED
    BY <2>2, <2>3, <2>4, ClosingElsewhere
<1>6. ASSUME NEW t \in Tasks, GroupTask(t) PROVE ClosingOK'
  <2>1. phase[t] = "due" /\ chk = NoTask
    BY <1>6 DEF GroupTask, StageTasks, PlacesOK
  <2>2. \A u \in Tasks : u # t => phase'[u] = phase[u]
    BY <1>6 DEF GroupTask, TypeOK, TaskTypes
  <2>3. UNCHANGED <<closing, toCancel, sessions, toAdd, cancelled, pendingTasks>>
    BY <1>6 DEF GroupTask
  <2>4. \/ phase'[t] = "discarded"
        \/ phase'[t] = "grouped" /\ sessions[t] = {}
        \/ phase'[t] = "checking" /\ chkLeft' = sessions[t]
    BY <1>6 DEF GroupTask, TypeOK, TaskTypes
  <2>5. \A s \in Sessions, u \in Tasks : AddedTo(u, s)' => AddedTo(u, s)
    BY <2>1, <2>2, <2>3, <2>4 DEF AddedTo
  <2>6. \A u \in Tasks : phase[u] # "checking"
    BY <2>1, TaskAssumption DEF PlacesOK
  <2>7. \A s \in Sessions, u \in Tasks : CheckedFor(u, s)' => CheckedFor(u, s)
    BY <2>1, <2>2, <2>3, <2>4, <2>6 DEF CheckedFor
  <2> QED
    BY <2>3, <2>5, <2>7, ClosingElsewhere
<1>7. ASSUME NEW s \in Sessions, CheckSession(s) PROVE ClosingOK'
  <2>1. chk \in Tasks /\ phase[chk] = "checking" /\ s \in chkLeft
    BY <1>7 DEF CheckSession, PlacesOK, TypeOK, SchedTypes
  <2>2. UNCHANGED <<closing, toCancel, sessions, toAdd, cancelled, pendingTasks>>
    BY <1>7 DEF CheckSession
  <2>3. \A u \in Tasks : u # chk => phase'[u] = phase[u] /\ phase[u] # "checking"
    BY <1>7 DEF CheckSession, PlacesOK, TypeOK, TaskTypes
  <2>4. CASE ~Good(s)
    <3>1. phase'[chk] = "dropped"
      BY <1>7, <2>1, <2>4 DEF CheckSession, TypeOK, TaskTypes
    <3>2. \A r \in Sessions, u \in Tasks : AddedTo(u, r)' => AddedTo(u, r)
      BY <2>2, <2>3, <3>1 DEF AddedTo
    <3>3. \A r \in Sessions, u \in Tasks : CheckedFor(u, r)' => CheckedFor(u, r)
      BY <2>2, <2>3, <3>1 DEF CheckedFor
    <3> QED
      BY <2>2, <3>2, <3>3, ClosingElsewhere
  <2>5. CASE Good(s)
    <3>1. closing[s] = "open"
      BY <2>5 DEF Good, Closed
    <3>2. phase'[chk] \in {"checking", "grouped"}
      BY <1>7, <2>1, <2>5 DEF CheckSession, TypeOK, TaskTypes
    <3>3. chkLeft' = chkLeft \ {s} /\ (phase'[chk] = "grouped" => chkLeft = {s})
      BY <1>7, <2>1, <2>5 DEF CheckSession, TypeOK, TaskTypes
    <3>4. \A r \in Sessions, u \in Tasks : AddedTo(u, r)' => AddedTo(u, r)
      BY <2>1, <2>2, <2>3, <3>2 DEF AddedTo
    <3>5. \A r \in Sessions, u \in Tasks : r # s /\ CheckedFor(u, r)' => CheckedFor(u, r)
      <4>1. ASSUME NEW r \in Sessions, NEW u \in Tasks, u = chk, r # s, CheckedFor(u, r)'
            PROVE  CheckedFor(u, r)
        BY <4>1, <2>1, <2>2, <3>2, <3>3 DEF CheckedFor
      <4>2. ASSUME NEW r \in Sessions, NEW u \in Tasks, u # chk, CheckedFor(u, r)'
            PROVE CheckedFor(u, r)
        BY <4>2, <2>2, <2>3 DEF CheckedFor
      <4> QED
        BY <4>1, <4>2
    <3> QED
      BY <2>2, <3>1, <3>4, <3>5 DEF ClosingOK
  <2> QED
    BY <2>4, <2>5
<1>8. ASSUME NEW w \in Worlds, DispatchWorld(w) PROVE ClosingOK'
  <2>1. \A u \in Tasks : phase'[u] = phase[u] \/ (phase[u] = "grouped" /\ phase'[u] = "dispatched")
    BY <1>8 DEF DispatchWorld, PlacesOK
  <2>2. UNCHANGED <<closing, toCancel, sessions, toAdd, chkLeft, cancelled, pendingTasks>>
    BY <1>8 DEF DispatchWorld
  <2>3. \A s \in Sessions, u \in Tasks : AddedTo(u, s)' => AddedTo(u, s)
    BY <2>1, <2>2 DEF AddedTo
  <2>4. \A s \in Sessions, u \in Tasks : CheckedFor(u, s)' => CheckedFor(u, s)
    BY <2>1, <2>2 DEF CheckedFor
  <2> QED
    BY <2>2, <2>3, <2>4, ClosingElsewhere
<1>9. CASE DispatchGlobals
  <2>1. \A u \in Tasks : phase'[u] = phase[u]
                          \/ (phase[u] = "grouped" /\ phase'[u] \in {"dispatched", "dropped"})
    BY <1>9 DEF DispatchGlobals, PlacesOK
  <2>2. UNCHANGED <<closing, toCancel, sessions, toAdd, chkLeft, cancelled, pendingTasks>>
    BY <1>9 DEF DispatchGlobals
  <2>3. \A s \in Sessions, u \in Tasks : AddedTo(u, s)' => AddedTo(u, s)
    BY <2>1, <2>2 DEF AddedTo
  <2>4. \A s \in Sessions, u \in Tasks : CheckedFor(u, s)' => CheckedFor(u, s)
    BY <2>1, <2>2 DEF CheckedFor
  <2> QED
    BY <2>2, <2>3, <2>4, ClosingElsewhere
<1>10. ASSUME NEW w \in Worlds, PickTask(w) \/ StartTask(w) \/ EndTask(w) PROVE ClosingOK'
  <2>1. UNCHANGED <<closing, toCancel, sessions, toAdd, chkLeft, cancelled, pendingTasks>>
    BY <1>10 DEF PickTask, StartTask, EndTask
  <2>2. \E x \in {"discarded", "dropped", "picked", "running", "leaving", "returning"} :
          phase' = [phase EXCEPT ![Head(tx[w])] = x]
    <3>1. CASE PickTask(w)
      BY <3>1 DEF PickTask
    <3>2. CASE StartTask(w)
      BY <3>2 DEF StartTask
    <3>3. CASE EndTask(w)
      BY <3>3 DEF EndTask
    <3> QED
      BY <1>10, <3>1, <3>2, <3>3
  <2>3. \A t \in Tasks : phase'[t] # phase[t] =>
          phase'[t] \in {"discarded", "dropped", "picked", "running", "leaving", "returning"}
    BY <2>2 DEF TypeOK, TaskTypes
  <2> QED
    BY <2>1, <2>3, ClosingOff
<1>11. ASSUME NEW w \in Worlds, RemoveTask(w) PROVE ClosingOK'
  <2> DEFINE t == Head(tx[w])
  <2>1. t \in Tasks
    BY <1>11, HeadTail DEF RemoveTask, TypeOK, WorldTypes
  <2>2. /\ UNCHANGED <<closing, toCancel, sessions, toAdd, chkLeft, cancelled>>
        /\ \E x \in {"ran", "skipped"} : phase' = [phase EXCEPT ![t] = x]
        /\ pendingTasks' = [s \in Sessions |-> IF s \in sessions[t] THEN pendingTasks[s] \ {t}
                                               ELSE pendingTasks[s]]
    BY <1>11 DEF RemoveTask
  <2> HIDE DEF t
  <2>3. \A u \in Tasks : phase'[u] # phase[u] => phase'[u] \in {"ran", "skipped"}
    BY <2>2 DEF TypeOK, TaskTypes
  <2>4. phase'[t] \in {"ran", "skipped"}
    BY <2>1, <2>2 DEF TypeOK, TaskTypes
  <2>5. \A s \in Sessions : \A u \in pendingTasks[s] :
           u \in pendingTasks'[s] \/ phase'[u] \in {"skipped", "ran"}
    BY <2>2, <2>4
  <2> QED
    BY <2>2, <2>3, <2>5, ClosingOff
<1>12. ASSUME NEW w \in Worlds, NEW u \in Tasks, NEW at \in Times, EndRepeating(w, u, at)
       PROVE ClosingOK'
  <2> DEFINE t == Head(tx[w])
  <2>1. t \in Tasks
    BY <1>12, HeadTail DEF EndRepeating, TypeOK, WorldTypes
  <2>2. UNCHANGED <<closing, toCancel, chkLeft, cancelled, pendingTasks>>
    BY <1>12 DEF EndRepeating
  <2> HIDE DEF t
  <2>3. \/ phase' = [phase EXCEPT ![t] = "returning"] /\ sessions' = sessions /\ toAdd' = toAdd
        \/ /\ phase' = [phase EXCEPT ![t] = "returning", ![u] = "adding"]
           /\ sessions' = [sessions EXCEPT ![u] = sessions[t]]
           /\ toAdd' = [toAdd EXCEPT ![u] = sessions[t]]
    BY <1>12, Zenon DEF EndRepeating, t
  <2>4. CASE phase' = [phase EXCEPT ![t] = "returning"] /\ sessions' = sessions /\ toAdd' = toAdd
    BY <2>2, <2>4, ClosingOff DEF TypeOK, TaskTypes
  <2>5. CASE /\ phase' = [phase EXCEPT ![t] = "returning", ![u] = "adding"]
             /\ sessions' = [sessions EXCEPT ![u] = sessions[t]]
             /\ toAdd' = [toAdd EXCEPT ![u] = sessions[t]]
    <3>1. \A v \in Tasks : v # u => sessions'[v] = sessions[v] /\ toAdd'[v] = toAdd[v]
                                     /\ phase'[v] \in {phase[v], "returning"}
      BY <2>5 DEF TypeOK, TaskTypes
    <3>2. phase'[u] \in {"adding", "returning"} /\ toAdd'[u] = sessions'[u]
      BY <2>5 DEF TypeOK, TaskTypes
    <3>3. \A s \in Sessions, v \in Tasks : AddedTo(v, s)' => AddedTo(v, s)
      BY <3>1, <3>2 DEF AddedTo
    <3>4. \A s \in Sessions, v \in Tasks : CheckedFor(v, s)' => CheckedFor(v, s)
      BY <2>2, <3>1, <3>2 DEF CheckedFor
    <3> QED
      BY <2>2, <3>3, <3>4, ClosingElsewhere
  <2> QED
    BY <2>3, <2>4, <2>5
<1>13. ASSUME NEW t \in Tasks, Cancel(t) PROVE ClosingOK'
  <2>1. UNCHANGED <<closing, toCancel, sessions, toAdd, chkLeft, phase, pendingTasks>>
    BY <1>13 DEF Cancel
  <2>2. \A u \in Tasks : cancelled[u] => cancelled'[u]
    BY <1>13 DEF Cancel, TypeOK, TaskTypes
  <2> QED
    BY <2>1, <2>2, ClosingOff
<1>14. ASSUME NEW s \in Sessions, CloseSwap(s) PROVE ClosingOK'
  <2>1. /\ closing[s] = "open" /\ closing'[s] = "swapped"
        /\ \A r \in Sessions : r # s => closing'[r] = closing[r]
    BY <1>14 DEF CloseSwap, TypeOK, SessionTypes
  <2>2. UNCHANGED <<toCancel, sessions, toAdd, chkLeft, phase, pendingTasks, cancelled>>
    BY <1>14 DEF CloseSwap
  <2> QED
    BY <2>1, <2>2 DEF ClosingOK, AddedTo, CheckedFor
<1>15. ASSUME NEW s \in Sessions, CloseTake(s) PROVE ClosingOK'
  <2>1. /\ closing[s] = "swapped" /\ closing'[s] = "taken" /\ toCancel'[s] = pendingTasks[s]
        /\ \A r \in Sessions : r # s => /\ closing'[r] = closing[r] /\ toCancel'[r] = toCancel[r]
                                        /\ pendingTasks'[r] = pendingTasks[r]
    BY <1>15 DEF CloseTake, TypeOK, SessionTypes
  <2>2. UNCHANGED <<sessions, toAdd, chkLeft, phase, cancelled>>
    BY <1>15 DEF CloseTake
  <2>3. \A r \in Sessions, t \in Tasks : CheckedFor(t, r) => AddedTo(t, r)
    BY DEF CheckedFor, AddedTo
  <2>4. \A r \in Sessions, t \in Tasks :
          (AddedTo(t, r)' <=> AddedTo(t, r)) /\ (CheckedFor(t, r)' <=> CheckedFor(t, r))
    BY <2>2 DEF CheckedFor, AddedTo
  <2> QED
    BY <2>1, <2>2, <2>3, <2>4 DEF ClosingOK
<1>16. ASSUME NEW s \in Sessions, NEW t \in Tasks, CloseCancel(s, t) PROVE ClosingOK'
  <2>1. /\ cancelled'[t] /\ \A u \in Tasks : cancelled[u] => cancelled'[u]
        /\ \A r \in Sessions : \A u \in toCancel[r] : u = t \/ u \in toCancel'[r]
    BY <1>16 DEF CloseCancel, TypeOK, TaskTypes, SessionTypes
  <2>2. UNCHANGED <<closing, sessions, toAdd, chkLeft, phase, pendingTasks>>
    BY <1>16 DEF CloseCancel
  <2>3. \A r \in Sessions, u \in Tasks :
          (AddedTo(u, r)' <=> AddedTo(u, r)) /\ (CheckedFor(u, r)' <=> CheckedFor(u, r))
    BY <2>2 DEF CheckedFor, AddedTo
  <2> QED
    BY <2>1, <2>2, <2>3 DEF ClosingOK
<1>17. ASSUME NEW s \in Sessions, CloseDone(s) PROVE ClosingOK'
  <2>1. /\ closing[s] = "taken" /\ closing'[s] = "done" /\ toCancel[s] = {}
        /\ \A r \in Sessions : r # s => closing'[r] = closing[r]
    BY <1>17 DEF CloseDone, TypeOK, SessionTypes
  <2>2. UNCHANGED <<toCancel, sessions, toAdd, chkLeft, phase, pendingTasks, cancelled>>
    BY <1>17 DEF CloseDone
  <2>3. \A r \in Sessions, u \in Tasks :
          (AddedTo(u, r)' <=> AddedTo(u, r)) /\ (CheckedFor(u, r)' <=> CheckedFor(u, r))
    BY <2>2 DEF CheckedFor, AddedTo
  <2> QED
    BY <2>1, <2>2, <2>3 DEF ClosingOK
<1>18. CASE UNCHANGED vars
  BY <1>18, <1>1 DEF vars
<1>19. CASE ClockStep
  BY <1>19, <1>1 DEF ClockStep
<1>20. CASE SchedulerStep
  BY <1>20, <1>1, <1>5, <1>6, <1>7, <1>8, <1>9 DEF SchedulerStep, RecvTick, RecvNotify, ReadClock, NextStage
<1>21. ASSUME NEW w \in Worlds, WorldStep(w) PROVE ClosingOK'
  BY <1>21, <1>1, <1>10, <1>11, <1>12 DEF WorldStep, BeginTx
<1>22. ASSUME NEW t \in Tasks, CallerStep(t) PROVE ClosingOK'
  BY <1>22, <1>1, <1>3, <1>4 DEF CallerStep, PushNotify
<1>23. CASE EnvStep
  <2>1. ASSUME NEW t \in Tasks, NEW ss \in SUBSET Sessions, NEW at \in Times, NEW st \in Stages,
               Schedule(t, ss, at, st)
        PROVE ClosingOK'
    BY <2>1, <1>2 DEF Schedule
  <2>2. ASSUME NEW t \in Tasks, NEW h \in Handles, NEW s \in Sessions, NEW at \in Times,
               NEW st \in Stages, NEW n \in RepeatTimes, ScheduleRepeating(t, h, s, at, st, n)
        PROVE ClosingOK'
    BY <2>2, <1>2 DEF ScheduleRepeating
  <2>3. ASSUME NEW h \in Handles, CancelRepeating(h) PROVE ClosingOK'
    BY <2>3, <1>1 DEF CancelRepeating
  <2>4. ASSUME NEW s \in Sessions, CloseSwap(s) \/ CloseStep(s) PROVE ClosingOK'
    BY <2>4, <1>14, <1>15, <1>16, <1>17 DEF CloseStep
  <2>5. ASSUME NEW s \in Sessions, NEW w \in Worlds, EnterWorld(s, w) PROVE ClosingOK'
    BY <2>5, <1>1 DEF EnterWorld
  <2>6. ASSUME NEW s \in Sessions, LeaveWorld(s) \/ UpdateWorldCache(s) PROVE ClosingOK'
    BY <2>6, <1>1 DEF LeaveWorld, UpdateWorldCache
  <2> QED
    BY <1>23, <1>13, <2>1, <2>2, <2>3, <2>4, <2>5, <2>6, BoundAssumption, TargetAssumption DEF EnvStep
<1> QED
  BY <1>18, <1>19, <1>20, <1>21, <1>22, <1>23 DEF Next

-----------------------------------------------------------------------------
(* The inductive invariant holds in every reachable state.                   *)
THEOREM Inductive == Spec => []IInv
<1>1. Init => IInv
  BY TypeInit, PlacesInit, PromptInit, ClosingInit DEF IInv
<1>2. IInv /\ [Next]_vars => IInv'
  BY TypeNext, PlacesNext, PromptNext, ClosingNext DEF IInv
<1> QED
  BY <1>1, <1>2, PTL DEF Spec

(* Every variable keeps to its type.                                         *)
THEOREM TypeCorrect == Spec => []TypeOK
<1>1. IInv => TypeOK
  BY DEF IInv
<1> QED
  BY <1>1, Inductive, PTL

(* The scheduler never sleeps over a task that was due when it was pushed:   *)
(* Push's signal or the PopDue it leads to is always on its way.             *)
THEOREM NoWakeupIsLost == Spec => []NoLostWakeup
<1>1. IInv => NoLostWakeup
  BY DEF IInv, PromptOK
<1> QED
  BY <1>1, Inductive, PTL

(* No step changes the phase of a task that has come to its end.             *)
LEMMA FinalStays ==
  ASSUME TypeOK, PlacesOK, [Next]_vars, NEW t \in Tasks, phase[t] \in Final
  PROVE  phase'[t] = phase[t]
<1>1. CASE phase' = phase
  BY <1>1
<1>2. ASSUME NEW u \in Tasks, phase[u] \notin Final, NEW x, phase' = [phase EXCEPT ![u] = x]
      PROVE phase'[t] = phase[t]
  BY <1>2
<1>3. CASE PopDue
  BY <1>3 DEF PopDue, DueAt, PlacesOK, TypeOK, TaskTypes
<1>4. ASSUME NEW u \in Tasks, GroupTask(u) PROVE phase'[t] = phase[t]
  <2>1. phase[u] = "due"
    BY <1>4 DEF GroupTask, StageTasks, PlacesOK
  <2>2. \E x : phase' = [phase EXCEPT ![u] = x]
    BY <1>4 DEF GroupTask
  <2> QED
    BY <2>1, <2>2, <1>2
<1>5. ASSUME NEW s \in Sessions, CheckSession(s) PROVE phase'[t] = phase[t]
  <2>1. chk \in Tasks /\ phase[chk] = "checking"
    BY <1>5 DEF CheckSession, PlacesOK, TypeOK, SchedTypes
  <2>2. \A u \in Tasks : u # chk => phase'[u] = phase[u]
    BY <1>5 DEF CheckSession, TypeOK, TaskTypes
  <2> QED
    BY <2>1, <2>2
<1>6. ASSUME NEW w \in Worlds, DispatchWorld(w) PROVE phase'[t] = phase[t]
  BY <1>6 DEF DispatchWorld, PlacesOK
<1>7. CASE DispatchGlobals
  BY <1>7 DEF DispatchGlobals, PlacesOK
<1>8. ASSUME NEW w \in Worlds, PickTask(w) \/ StartTask(w) \/ EndTask(w) \/ RemoveTask(w)
      PROVE phase'[t] = phase[t]
  <2>1. /\ phase[Head(tx[w])] \in {"dispatched", "picked", "running", "returning", "leaving"}
        /\ tx[w] # <<>>
    BY <1>8 DEF PickTask, StartTask, EndTask, RemoveTask
  <2>2. Head(tx[w]) \in Tasks
    BY <1>8, <2>1, HeadTail DEF TypeOK, WorldTypes
  <2>3. phase' = phase \/ \E x : phase' = [phase EXCEPT ![Head(tx[w])] = x]
    <3>1. CASE PickTask(w)
      BY <3>1 DEF PickTask
    <3>2. CASE StartTask(w)
      BY <3>2 DEF StartTask
    <3>3. CASE EndTask(w)
      BY <3>3 DEF EndTask
    <3>4. CASE RemoveTask(w)
      BY <3>4 DEF RemoveTask
    <3> QED
      BY <1>8, <3>1, <3>2, <3>3, <3>4
  <2> QED
    BY <2>1, <2>2, <2>3, <1>1, <1>2
<1>9. ASSUME NEW w \in Worlds, NEW u \in Tasks, NEW at \in Times, EndRepeating(w, u, at)
      PROVE phase'[t] = phase[t]
  <2> DEFINE r == Head(tx[w])
  <2>1. phase[r] = "running"
    BY <1>9 DEF EndRepeating
  <2> HIDE DEF r
  <2>2. \/ phase' = [phase EXCEPT ![r] = "returning"]
        \/ phase[u] = "unused" /\ phase' = [phase EXCEPT ![r] = "returning", ![u] = "adding"]
    BY <1>9, Zenon DEF EndRepeating, r
  <2> QED
    BY <2>1, <2>2 DEF TypeOK, TaskTypes
<1>10. ASSUME NEW u \in Tasks, NEW ss, NEW at, NEW st, NEW h, Create(u, ss, at, st, h)
       PROVE phase'[t] = phase[t]
  BY <1>10 DEF Create, TypeOK, TaskTypes
<1>11. ASSUME NEW u \in Tasks, Push(u) PROVE phase'[t] = phase[t]
  BY <1>11 DEF Push, TypeOK, TaskTypes
<1>12. CASE UNCHANGED vars
  BY <1>12 DEF vars
<1>13. CASE ClockStep
  BY <1>13 DEF ClockStep
<1>14. CASE SchedulerStep
  BY <1>14, <1>1, <1>3, <1>4, <1>5, <1>6, <1>7 DEF SchedulerStep, RecvTick, RecvNotify, ReadClock, NextStage
<1>15. ASSUME NEW w \in Worlds, WorldStep(w) PROVE phase'[t] = phase[t]
  BY <1>15, <1>1, <1>8, <1>9 DEF WorldStep, BeginTx
<1>16. ASSUME NEW u \in Tasks, CallerStep(u) PROVE phase'[t] = phase[t]
  BY <1>16, <1>1, <1>11 DEF CallerStep, PushNotify, AddTask
<1>17. CASE EnvStep
  <2>1. ASSUME NEW u \in Tasks, NEW ss \in SUBSET Sessions, NEW at \in Times, NEW st \in Stages,
               Schedule(u, ss, at, st)
        PROVE phase'[t] = phase[t]
    BY <2>1, <1>10 DEF Schedule
  <2>2. ASSUME NEW u \in Tasks, NEW h \in Handles, NEW s \in Sessions, NEW at \in Times,
               NEW st \in Stages, NEW n \in RepeatTimes, ScheduleRepeating(u, h, s, at, st, n)
        PROVE phase'[t] = phase[t]
    BY <2>2, <1>10 DEF ScheduleRepeating
  <2>3. ASSUME NEW u \in Tasks, Cancel(u) PROVE phase'[t] = phase[t]
    BY <2>3 DEF Cancel
  <2>4. ASSUME NEW h \in Handles, CancelRepeating(h) PROVE phase'[t] = phase[t]
    BY <2>4 DEF CancelRepeating
  <2>5. ASSUME NEW s \in Sessions, CloseSwap(s) \/ CloseStep(s) PROVE phase'[t] = phase[t]
    BY <2>5 DEF CloseSwap, CloseStep, CloseTake, CloseDone, CloseCancel
  <2>6. ASSUME NEW s \in Sessions, NEW w \in Worlds, EnterWorld(s, w) PROVE phase'[t] = phase[t]
    BY <2>6 DEF EnterWorld
  <2>7. ASSUME NEW s \in Sessions, LeaveWorld(s) \/ UpdateWorldCache(s) PROVE phase'[t] = phase[t]
    BY <2>7 DEF LeaveWorld, UpdateWorldCache
  <2> QED
    BY <1>17, <2>1, <2>2, <2>3, <2>4, <2>5, <2>6, <2>7, BoundAssumption, TargetAssumption DEF EnvStep
<1> QED
  BY <1>12, <1>13, <1>14, <1>15, <1>16, <1>17 DEF Next

(* A task that has run, was discarded or given up stays so: it is never run  *)
(* twice.                                                                    *)
THEOREM NeverTakenTwice == Spec => TakenOnce
<1>1. IInv /\ [Next]_vars => [\A t \in Tasks : phase[t] \in Final => phase'[t] = phase[t]]_vars
  BY FinalStays DEF IInv
<1> QED
  BY <1>1, Inductive, PTL DEF Spec, TakenOnce

(* No step takes up a task of a session whose close is over.                 *)
LEMMA ClosedNotPicked ==
  ASSUME IInv, [Next]_vars, NEW s \in Sessions, NEW t \in Tasks,
         closing[s] = "done", s \in sessions[t], phase[t] # "picked"
  PROVE  phase'[t] # "picked"
<1>1. CASE phase' = phase
  BY <1>1
<1>2. ASSUME NEW u \in Tasks, NEW x, x # "picked", phase' = [phase EXCEPT ![u] = x]
      PROVE phase'[t] # "picked"
  BY <1>2 DEF IInv, TypeOK, TaskTypes
<1>3. ASSUME NEW w \in Worlds, PickTask(w) PROVE phase'[t] # "picked"
  <2>1. Head(tx[w]) \in Tasks
    BY <1>3, HeadTail DEF IInv, TypeOK, WorldTypes, PickTask
  <2>2. CASE Head(tx[w]) = t
    <3>1. phase[t] = "dispatched" /\ (cancelled[t] => phase'[t] # "picked")
      BY <1>3, <2>1, <2>2 DEF PickTask, IInv, TypeOK, TaskTypes
    <3>2. cancelled[t]
      BY <3>1 DEF IInv, ClosingOK, CheckedFor
    <3> QED
      BY <3>1, <3>2
  <2>3. CASE Head(tx[w]) # t
    <3>1. \E x : phase' = [phase EXCEPT ![Head(tx[w])] = x]
      BY <1>3 DEF PickTask
    <3> QED
      BY <2>1, <2>3, <3>1 DEF IInv, TypeOK, TaskTypes
  <2> QED
    BY <2>2, <2>3
<1>4. ASSUME NEW w \in Worlds, StartTask(w) \/ EndTask(w) \/ RemoveTask(w)
      PROVE phase'[t] # "picked"
  <2>1. tx[w] # <<>> /\ Head(tx[w]) \in Tasks
    BY <1>4, HeadTail DEF IInv, TypeOK, WorldTypes, StartTask, EndTask, RemoveTask
  <2>2. phase' = phase \/ \E x : x # "picked" /\ phase' = [phase EXCEPT ![Head(tx[w])] = x]
    <3>1. CASE StartTask(w)
      BY <3>1 DEF StartTask
    <3>2. CASE EndTask(w)
      BY <3>2 DEF EndTask
    <3>3. CASE RemoveTask(w)
      BY <3>3, <2>1 DEF RemoveTask
    <3> QED
      BY <1>4, <3>1, <3>2, <3>3
  <2> QED
    BY <2>1, <2>2, <1>1, <1>2
<1>5. ASSUME NEW w \in Worlds, NEW u \in Tasks, NEW at \in Times, EndRepeating(w, u, at)
      PROVE phase'[t] # "picked"
  <2> DEFINE r == Head(tx[w])
  <2>1. \/ phase' = [phase EXCEPT ![r] = "returning"]
        \/ phase' = [phase EXCEPT ![r] = "returning", ![u] = "adding"]
    BY <1>5, Zenon DEF EndRepeating, r
  <2> HIDE DEF r
  <2> QED
    BY <2>1 DEF IInv, TypeOK, TaskTypes
<1>6. CASE SchedulerStep
  <2>1. ASSUME NEW u \in Tasks, GroupTask(u) PROVE phase'[t] # "picked"
    BY <2>1, <1>2 DEF GroupTask
  <2>2. ASSUME NEW r \in Sessions, CheckSession(r) PROVE phase'[t] # "picked"
    <3>1. chk \in Tasks
      BY <2>2 DEF CheckSession, IInv, TypeOK, SchedTypes
    <3> QED
      BY <2>2, <3>1, <1>1, <1>2 DEF CheckSession
  <2>3. CASE PopDue
    BY <2>3 DEF PopDue
  <2>4. ASSUME NEW w \in Worlds, DispatchWorld(w) PROVE phase'[t] # "picked"
    BY <2>4 DEF DispatchWorld
  <2>5. CASE DispatchGlobals
    BY <2>5 DEF DispatchGlobals
  <2> QED
    BY <1>6, <1>1, <2>1, <2>2, <2>3, <2>4, <2>5
       DEF SchedulerStep, RecvTick, RecvNotify, ReadClock, NextStage
<1>7. ASSUME NEW w \in Worlds, WorldStep(w) PROVE phase'[t] # "picked"
  BY <1>7, <1>1, <1>3, <1>4, <1>5 DEF WorldStep, BeginTx
<1>8. ASSUME NEW u \in Tasks, CallerStep(u) PROVE phase'[t] # "picked"
  BY <1>8, <1>1, <1>2 DEF CallerStep, PushNotify, AddTask, Push
<1>9. CASE EnvStep
  <2>1. ASSUME NEW u \in Tasks, NEW ss, NEW at, NEW st, NEW h, Create(u, ss, at, st, h)
        PROVE phase'[t] # "picked"
    BY <2>1, <1>2 DEF Create
  <2>2. ASSUME NEW u \in Tasks, NEW ss \in SUBSET Sessions, NEW at \in Times, NEW st \in Stages,
               Schedule(u, ss, at, st)
        PROVE phase'[t] # "picked"
    BY <2>2, <2>1 DEF Schedule
  <2>3. ASSUME NEW u \in Tasks, NEW h \in Handles, NEW r \in Sessions, NEW at \in Times,
               NEW st \in Stages, NEW n \in RepeatTimes, ScheduleRepeating(u, h, r, at, st, n)
        PROVE phase'[t] # "picked"
    BY <2>3, <2>1 DEF ScheduleRepeating
  <2>4. ASSUME NEW u, Cancel(u) \/ CancelRepeating(u) \/ CloseSwap(u) \/ CloseStep(u)
        PROVE phase' = phase
    BY <2>4 DEF Cancel, CancelRepeating, CloseSwap, CloseStep, CloseTake, CloseDone, CloseCancel
  <2>5. ASSUME NEW r, NEW w, LeaveWorld(r) \/ UpdateWorldCache(r) \/ EnterWorld(r, w)
        PROVE phase' = phase
    BY <2>5 DEF LeaveWorld, UpdateWorldCache, EnterWorld
  <2> QED
    BY <1>9, <1>1, <2>2, <2>3, <2>4, <2>5, BoundAssumption, TargetAssumption DEF EnvStep
<1>10. CASE ClockStep \/ UNCHANGED vars
  BY <1>10, <1>1 DEF ClockStep, vars
<1> QED
  BY <1>6, <1>7, <1>8, <1>9, <1>10 DEF Next

(* Once close has worked through its list, no transaction takes up a task of *)
(* the session; one taken up before still runs.                              *)
THEOREM CloseStopsTasks == Spec => ClosedTasksStopped
<1> DEFINE Keeps == \A s \in Sessions, t \in Tasks :
                      closing[s] = "done" /\ s \in sessions[t] /\ phase'[t] = "picked"
                      => phase[t] = "picked"
<1>1. IInv /\ [Next]_vars => [Keeps]_vars
  BY ClosedNotPicked
<1> QED
  BY <1>1, Inductive, PTL DEF Spec, ClosedTasksStopped

-----------------------------------------------------------------------------
(* t is in a transaction of the world, or waits in one; t waits ahead of u.  *)
Awaits(w, t) == \E k \in Lots(w) : t \in ToSet(Lot(w, k))

AheadIn(w, t, u) ==
  \E k, l \in Lots(w) : \E i \in DOMAIN Lot(w, k), j \in DOMAIN Lot(w, l) :
     (k < l \/ (k = l /\ i < j)) /\ t = Lot(w, k)[i] /\ u = Lot(w, l)[j]

Busy == {"dispatched", "picked", "running", "returning", "leaving"}

NoTwice(q) == \A i, j \in DOMAIN q : i < j => q[i] # q[j]

(* A task is in one transaction of one world, once, and untouched until it   *)
(* is the head of the transaction that runs.                                 *)
LotsOK ==
  /\ \A w \in Worlds, t \in Tasks : Awaits(w, t) => phase[t] \in Busy /\ ~AheadIn(w, t, t)
  /\ \A v, w \in Worlds, t \in Tasks : Awaits(v, t) /\ Awaits(w, t) => v = w
  /\ \A w \in Worlds, t \in Tasks :
       Awaits(w, t) /\ phase[t] # "dispatched" => tx[w] # <<>> /\ t = Head(tx[w])

OnceOK == NoTwice(globals) /\ \A w \in Worlds : NoTwice(groups[w])

(* The players of a task that runs are in the world of its transaction.      *)
PresentOK ==
  \A w \in Worlds : tx[w] # <<>> /\ phase[Head(tx[w])] = "running" => Present(Head(tx[w]), w)

(* Outside processTasks nothing is being grouped.                            *)
IdleOK ==
  spc # "grouping" =>
    due = {} /\ chk = NoTask /\ globals = <<>> /\ \A w \in Worlds : groups[w] = <<>>

(* What is being grouped is of this PopDue and this stage, by time.          *)
Current(t) == batch[t] = pops /\ stage[t] = curStage

GroupedOK ==
  /\ \A t \in due : batch[t] = pops /\ curStage <= stage[t]
  /\ chk # NoTask => Current(chk) /\ \A u \in StageTasks : executeAt[chk] <= executeAt[u]
  /\ \A t \in ToSet(globals) : Current(t)
  /\ \A w \in Worlds :
       /\ \A t \in ToSet(groups[w]) :
            /\ Current(t)
            /\ chk # NoTask => executeAt[t] <= executeAt[chk]
            /\ \A u \in StageTasks : executeAt[t] <= executeAt[u]
       /\ \A i, j \in DOMAIN groups[w] : i < j => executeAt[groups[w][i]] <= executeAt[groups[w][j]]

(* What has been dispatched is of this stage only if nothing of the stage    *)
(* is still to come for the same world.                                      *)
SentOK ==
  \A w \in Worlds, t \in Tasks : Awaits(w, t) =>
    /\ batch[t] <= pops
    /\ spc = "grouping" /\ batch[t] = pops =>
         /\ stage[t] <= curStage
         /\ stage[t] = curStage =>
              StageTasks = {} /\ chk = NoTask /\ (sessions[t] # {} => groups[w] = <<>>)

LineOK == \A w \in Worlds, t, u \in Tasks : AheadIn(w, t, u) => Before(t, u)

(* A repeating task: the one repetition that is ahead or runs, and those     *)
(* that have run.                                                            *)
Live(h) == {t \in Tasks : wrapper[t] = h /\ phase[t] \notin Final \cup {"returning"}}
Done(h) == {t \in Tasks : wrapper[t] = h /\ phase[t] \in {"returning", "ran"}}

RepeatOK ==
  /\ \A t \in Tasks : phase[t] = "unused" => wrapper[t] = NoHandle
  /\ \A h \in Handles :
       /\ times[h] = 0 => \A t \in Tasks : wrapper[t] # h
       /\ \A t, u \in Live(h) : t = u
       /\ IsFiniteSet(Done(h))
       /\ times[h] > 0 =>
            /\ Cardinality(Done(h)) <= times[h]
            /\ Live(h) # {} => remaining[h] >= 1 /\ Cardinality(Done(h)) + remaining[h] = times[h]

-----------------------------------------------------------------------------
(* What a step of the transactions does to who waits for what.               *)

(* Every transaction is a sequence of tasks.                                 *)
LEMMA LotType ==
  ASSUME TypeOK, NEW w \in Worlds
  PROVE  /\ worldQ[w] \in Seq(Seq(Tasks)) /\ tx[w] \in Seq(Tasks) /\ Len(worldQ[w]) \in Nat
         /\ \A k \in Lots(w) : k \in Nat /\ Lot(w, k) \in Seq(Tasks)
                               /\ DOMAIN Lot(w, k) = 1 .. Len(Lot(w, k)) /\ Len(Lot(w, k)) \in Nat
<1>1. worldQ[w] \in Seq(Seq(Tasks)) /\ tx[w] \in Seq(Tasks) /\ Len(worldQ[w]) \in Nat
  BY DEF TypeOK, WorldTypes
<1>2. \A k \in Lots(w) : k \in Nat /\ Lot(w, k) \in Seq(Tasks)
  BY <1>1 DEF Lots, Lot
<1> QED BY <1>1, <1>2

(* What awaits a world are tasks, the head of its transaction among them.    *)
LEMMA AwaitsType ==
  ASSUME TypeOK, NEW w \in Worlds
  PROVE  /\ \A t : Awaits(w, t) => t \in Tasks
         /\ \A t, u : AheadIn(w, t, u) => Awaits(w, t) /\ Awaits(w, u) /\ t \in Tasks /\ u \in Tasks
         /\ tx[w] # <<>> => Head(tx[w]) \in Tasks /\ Awaits(w, Head(tx[w]))
<1>1. \A k \in Lots(w) : \A i \in DOMAIN Lot(w, k) : Lot(w, k)[i] \in Tasks /\ Lot(w, k)[i] \in ToSet(Lot(w, k))
  BY LotType DEF ToSet
<1>2. \A t : Awaits(w, t) => t \in Tasks
  BY <1>1 DEF Awaits, ToSet
<1>3. \A t, u : AheadIn(w, t, u) => Awaits(w, t) /\ Awaits(w, u)
  BY <1>1 DEF AheadIn, Awaits
<1>4. tx[w] # <<>> => Head(tx[w]) \in Tasks /\ Awaits(w, Head(tx[w]))
  <2>1. 0 \in Lots(w) /\ Lot(w, 0) = tx[w] /\ tx[w] \in Seq(Tasks)
    BY LotType DEF Lots, Lot
  <2>2. tx[w] # <<>> => 1 \in DOMAIN tx[w] /\ Head(tx[w]) = tx[w][1]
    BY <2>1
  <2> QED BY <1>1, <2>1, <2>2 DEF Awaits
<1> QED BY <1>2, <1>3, <1>4

(* A step without transactions.                                              *)
LEMMA LotsSame ==
  ASSUME UNCHANGED <<tx, worldQ>>
  PROVE  /\ \A w, t : Awaits(w, t)' <=> Awaits(w, t)
         /\ \A w, t, u : AheadIn(w, t, u)' <=> AheadIn(w, t, u)
  BY DEF Awaits, AheadIn, Lot, Lots

(* The world is done with the head of its transaction: everything that       *)
(* still awaits it was behind that head.                                     *)
LEMMA LotsTail ==
  ASSUME TypeOK, NEW w \in Worlds, tx[w] # <<>>, tx' = [tx EXCEPT ![w] = Tail(@)], worldQ' = worldQ
  PROVE  /\ \A v \in Worlds : \A t : Awaits(v, t)' => Awaits(v, t)
         /\ \A v \in Worlds : \A t, u : AheadIn(v, t, u)' => AheadIn(v, t, u)
         /\ \A t : Awaits(w, t)' => AheadIn(w, Head(tx[w]), t)
<1>1. /\ tx'[w] = Tail(tx[w]) /\ Head(tx[w]) = tx[w][1] /\ 1 \in DOMAIN tx[w]
      /\ \A i \in DOMAIN Tail(tx[w]) : i \in Nat /\ i >= 1 /\ i + 1 \in DOMAIN tx[w] /\ Tail(tx[w])[i] = tx[w][i + 1]
      /\ \A v \in Worlds : v # w => tx'[v] = tx[v]
  BY DEF TypeOK, WorldTypes
<1>2. ASSUME NEW v \in Worlds, NEW k \in Lots(v), NEW i \in DOMAIN Lot(v, k)'
      PROVE  \/ i \in DOMAIN Lot(v, k) /\ Lot(v, k)'[i] = Lot(v, k)[i] /\ (v # w \/ k # 0)
             \/ /\ v = w /\ k = 0 /\ i \in Nat /\ i + 1 \in DOMAIN Lot(v, k)
                /\ Lot(v, k)'[i] = Lot(v, k)[i + 1]
  BY <1>1 DEF Lot
<1>3. \A v : Lots(v)' = Lots(v)
  BY DEF Lots
<1>4. ASSUME NEW v \in Worlds, NEW t, Awaits(v, t)' PROVE Awaits(v, t)
  <2>1. PICK k \in Lots(v) : \E i \in DOMAIN Lot(v, k)' : t = Lot(v, k)'[i]
    BY <1>3, <1>4 DEF Awaits, ToSet
  <2>2. \E i \in DOMAIN Lot(v, k) : t = Lot(v, k)[i]
    BY <1>2, <2>1
  <2> QED BY <2>2 DEF Awaits, ToSet
<1>5. ASSUME NEW v \in Worlds, NEW t, NEW u, AheadIn(v, t, u)' PROVE AheadIn(v, t, u)
  <2>1. PICK k \in Lots(v), l \in Lots(v) :
          \E i \in DOMAIN Lot(v, k)', j \in DOMAIN Lot(v, l)' :
             (k < l \/ (k = l /\ i < j)) /\ t = Lot(v, k)'[i] /\ u = Lot(v, l)'[j]
    BY <1>3, <1>5 DEF AheadIn
  <2>2. PICK i \in DOMAIN Lot(v, k)', j \in DOMAIN Lot(v, l)' :
             (k < l \/ (k = l /\ i < j)) /\ t = Lot(v, k)'[i] /\ u = Lot(v, l)'[j]
    BY <2>1
  <2>3. CASE k < l
    <3>1. \E m \in DOMAIN Lot(v, k) : t = Lot(v, k)[m]
      BY <1>2, <2>2
    <3>2. \E n \in DOMAIN Lot(v, l) : u = Lot(v, l)[n]
      BY <1>2, <2>2
    <3> QED BY <2>3, <3>1, <3>2 DEF AheadIn
  <2>4. CASE k = l /\ i < j
    <3>1. CASE v # w \/ k # 0
      <4>1. i \in DOMAIN Lot(v, k) /\ j \in DOMAIN Lot(v, k) /\ t = Lot(v, k)[i] /\ u = Lot(v, k)[j]
        BY <1>2, <2>2, <2>4, <3>1
      <4> QED BY <2>4, <4>1 DEF AheadIn
    <3>2. CASE v = w /\ k = 0
      <4>1. /\ i \in Nat /\ j \in Nat /\ i + 1 \in DOMAIN Lot(v, k) /\ j + 1 \in DOMAIN Lot(v, k)
            /\ t = Lot(v, k)[i + 1] /\ u = Lot(v, k)[j + 1]
        BY <1>2, <2>2, <2>4, <3>2
      <4>2. i + 1 < j + 1
        BY <2>4, <4>1
      <4> QED BY <2>4, <4>1, <4>2 DEF AheadIn
    <3> QED BY <3>1, <3>2
  <2> QED BY <2>2, <2>3, <2>4
<1>6. ASSUME NEW t, Awaits(w, t)' PROVE AheadIn(w, Head(tx[w]), t)
  <2>1. PICK k \in Lots(w) : \E i \in DOMAIN Lot(w, k)' : t = Lot(w, k)'[i]
    BY <1>3, <1>6 DEF Awaits, ToSet
  <2>2. PICK i \in DOMAIN Lot(w, k)' : t = Lot(w, k)'[i]
    BY <2>1
  <2>3. 0 \in Lots(w) /\ Lot(w, 0) = tx[w] /\ k \in Nat
    BY LotType DEF Lots, Lot
  <2>4. CASE k # 0
    <3>1. 0 < k /\ i \in DOMAIN Lot(w, k) /\ t = Lot(w, k)[i]
      BY <1>2, <2>2, <2>3, <2>4
    <3> QED BY <1>1, <2>3, <3>1 DEF AheadIn
  <2>5. CASE k = 0
    <3>1. i \in DOMAIN Tail(tx[w]) /\ t = Tail(tx[w])[i]
      BY <1>1, <2>2, <2>5 DEF Lot
    <3>2. 1 < i + 1 /\ i + 1 \in DOMAIN tx[w] /\ t = tx[w][i + 1]
      BY <1>1, <3>1
    <3> QED BY <1>1, <2>3, <3>2 DEF AheadIn
  <2> QED BY <2>4, <2>5
<1> QED BY <1>4, <1>5, <1>6

(* The world takes up its next transaction: nothing changes its place.       *)
LEMMA LotsBegin ==
  ASSUME TypeOK, NEW w \in Worlds, BeginTx(w)
  PROVE  /\ \A v \in Worlds : \A t : Awaits(v, t)' => Awaits(v, t)
         /\ \A v \in Worlds : \A t, u : AheadIn(v, t, u)' => AheadIn(v, t, u)
<1>1. /\ tx'[w] = worldQ[w][1] /\ worldQ'[w] = Tail(worldQ[w])
      /\ \A v \in Worlds : v # w => tx'[v] = tx[v] /\ worldQ'[v] = worldQ[v]
      /\ worldQ[w] \in Seq(Seq(Tasks)) /\ worldQ[w] # <<>>
  BY DEF BeginTx, TypeOK, WorldTypes
<1>2. /\ Len(worldQ[w]) \in Nat /\ Len(Tail(worldQ[w])) = Len(worldQ[w]) - 1 /\ Len(worldQ[w]) >= 1
      /\ \A k \in 1 .. Len(worldQ[w]) - 1 : Tail(worldQ[w])[k] = worldQ[w][k + 1]
  BY <1>1
<1>3. \A k \in Lots(w)' : k \in Nat /\ k + 1 \in Lots(w) /\ Lot(w, k)' = Lot(w, k + 1)
  BY <1>1, <1>2 DEF Lots, Lot
<1>4. \A v \in Worlds : v # w => Lots(v)' = Lots(v) /\ \A k : Lot(v, k)' = Lot(v, k)
  BY <1>1 DEF Lots, Lot
<1>5. ASSUME NEW v \in Worlds, NEW t, Awaits(v, t)' PROVE Awaits(v, t)
  <2>1. PICK k \in Lots(v)' : t \in ToSet(Lot(v, k)')
    BY <1>5 DEF Awaits, ToSet
  <2> QED BY <1>3, <1>4, <2>1 DEF Awaits
<1>6. ASSUME NEW v \in Worlds, NEW t, NEW u, AheadIn(v, t, u)' PROVE AheadIn(v, t, u)
  <2>1. PICK k \in Lots(v)', l \in Lots(v)' :
          \E i \in DOMAIN Lot(v, k)', j \in DOMAIN Lot(v, l)' :
             (k < l \/ (k = l /\ i < j)) /\ t = Lot(v, k)'[i] /\ u = Lot(v, l)'[j]
    BY <1>6 DEF AheadIn
  <2>2. CASE v # w
    BY <1>4, <2>1, <2>2 DEF AheadIn
  <2>3. CASE v = w
    <3>1. /\ k + 1 \in Lots(v) /\ l + 1 \in Lots(v) /\ k \in Nat /\ l \in Nat
          /\ Lot(v, k)' = Lot(v, k + 1) /\ Lot(v, l)' = Lot(v, l + 1)
      BY <1>3, <2>3
    <3>2. (k < l => k + 1 < l + 1) /\ (k = l => k + 1 = l + 1)
      BY <3>1
    <3> QED BY <2>1, <3>1, <3>2 DEF AheadIn
  <2> QED BY <2>2, <2>3
<1> QED BY <1>5, <1>6

(* A transaction is given to the world: it comes behind all the others.      *)
LEMMA LotsAppend ==
  ASSUME TypeOK, NEW w \in Worlds, NEW q \in Seq(Tasks),
         worldQ' = [worldQ EXCEPT ![w] = Append(@, q)], tx' = tx
  PROVE  /\ \A v \in Worlds : \A t : Awaits(v, t)' => Awaits(v, t) \/ (v = w /\ t \in ToSet(q))
         /\ \A v \in Worlds : \A t, u : AheadIn(v, t, u)' =>
              \/ AheadIn(v, t, u)
              \/ v = w /\ Awaits(v, t) /\ u \in ToSet(q)
              \/ v = w /\ \E i, j \in DOMAIN q : i < j /\ t = q[i] /\ u = q[j]
<1> PICK n : n = Len(worldQ[w]) + 1
  OBVIOUS
<1>1. /\ worldQ'[w] = Append(worldQ[w], q) /\ worldQ[w] \in Seq(Seq(Tasks))
      /\ \A v \in Worlds : v # w => worldQ'[v] = worldQ[v]
  BY DEF TypeOK, WorldTypes
<1>2. /\ Len(worldQ[w]) \in Nat /\ Len(Append(worldQ[w], q)) = n /\ Append(worldQ[w], q)[n] = q
      /\ \A k \in 1 .. Len(worldQ[w]) : Append(worldQ[w], q)[k] = worldQ[w][k]
  BY <1>1
<1>3. /\ Lot(w, n)' = q
      /\ \A k \in Lots(w)' : k = n \/ (k \in Lots(w) /\ k < n /\ Lot(w, k)' = Lot(w, k))
  BY <1>1, <1>2 DEF Lots, Lot
<1>4. \A v \in Worlds : v # w => Lots(v)' = Lots(v) /\ \A k : Lot(v, k)' = Lot(v, k)
  BY <1>1 DEF Lots, Lot
<1>5. ASSUME NEW v \in Worlds, NEW t, Awaits(v, t)' PROVE Awaits(v, t) \/ (v = w /\ t \in ToSet(q))
  <2>1. PICK k \in Lots(v)' : t \in ToSet(Lot(v, k)')
    BY <1>5 DEF Awaits, ToSet
  <2> QED BY <1>3, <1>4, <2>1 DEF Awaits
<1>6. ASSUME NEW v \in Worlds, NEW t, NEW u, AheadIn(v, t, u)'
      PROVE  \/ AheadIn(v, t, u)
             \/ v = w /\ Awaits(v, t) /\ u \in ToSet(q)
             \/ v = w /\ \E i, j \in DOMAIN q : i < j /\ t = q[i] /\ u = q[j]
  <2>1. PICK k \in Lots(v)', l \in Lots(v)' :
          \E i \in DOMAIN Lot(v, k)', j \in DOMAIN Lot(v, l)' :
             (k < l \/ (k = l /\ i < j)) /\ t = Lot(v, k)'[i] /\ u = Lot(v, l)'[j]
    BY <1>6 DEF AheadIn
  <2>2. CASE v # w
    BY <1>4, <2>1, <2>2 DEF AheadIn
  <2>3. CASE v = w /\ l # n
    <3>1. k # n
      <4>1. k \in Nat /\ l \in Nat /\ l < n /\ n \in Nat
        BY <1>1, <1>2, <1>3, <2>3 DEF Lots
      <4> QED BY <2>1, <2>3, <4>1
    <3>2. k \in Lots(v) /\ l \in Lots(v) /\ Lot(v, k)' = Lot(v, k) /\ Lot(v, l)' = Lot(v, l)
      BY <1>3, <2>3, <3>1
    <3> QED BY <2>1, <3>2 DEF AheadIn
  <2>4. CASE v = w /\ l = n /\ k # n
    <3>1. k \in Lots(v) /\ Lot(v, k)' = Lot(v, k) /\ Lot(v, l)' = q
      BY <1>3, <2>4
    <3>2. t \in ToSet(Lot(v, k)) /\ u \in ToSet(q)
      BY <2>1, <3>1 DEF ToSet
    <3> QED BY <2>4, <3>1, <3>2 DEF Awaits
  <2>5. CASE v = w /\ l = n /\ k = n
    <3>1. Lot(v, k)' = q /\ Lot(v, l)' = q /\ n \in Nat
      BY <1>2, <1>3, <2>5
    <3> QED BY <2>1, <2>5, <3>1
  <2> QED BY <2>2, <2>3, <2>4, <2>5
<1> QED BY <1>5, <1>6

-----------------------------------------------------------------------------
(* What a step does to the places of tasks, by kind.                         *)

(* Phases of tasks that the scheduler or a world has.                        *)
Settled == {"due", "checking", "grouped"} \cup Busy

places == <<spc, due, chk, globals, groups, pops, batch, curStage>>

Quiet ==
  /\ UNCHANGED <<tx, worldQ, places>>
  /\ \A t \in Tasks : phase[t] \in Settled => phase'[t] = phase[t]

Wakes ==
  /\ UNCHANGED <<tx, worldQ, phase, due, chk, globals, groups, pops, batch, curStage>>
  /\ spc # "grouping" /\ spc' # "grouping"

(* The head of the transaction that runs goes on, or is done with.           *)
Advances(w) ==
  /\ tx[w] # <<>> /\ UNCHANGED <<tx, worldQ, places>>
  /\ phase'[Head(tx[w])] \in Busy \ {"dispatched"}
  /\ phase'[Head(tx[w])] = "running" => Present(Head(tx[w]), w)
  /\ \A t \in Tasks \ {Head(tx[w])} : phase[t] \in Settled => phase'[t] = phase[t]

Finishes(w) ==
  /\ tx[w] # <<>> /\ tx' = [tx EXCEPT ![w] = Tail(@)] /\ UNCHANGED <<worldQ, places>>
  /\ \A t \in Tasks \ {Head(tx[w])} : phase[t] \in Settled => phase'[t] = phase[t]

(* Every step is of one of these kinds.                                      *)
LEMMA StepKinds ==
  ASSUME TypeOK, [Next]_vars
  PROVE  \/ Quiet \/ Wakes \/ PopDue \/ NextStage \/ DispatchGlobals
         \/ \E t \in Tasks : GroupTask(t)
         \/ \E s \in Sessions : CheckSession(s)
         \/ \E w \in Worlds : DispatchWorld(w) \/ BeginTx(w) \/ Advances(w) \/ Finishes(w)
<1> USE DEF places
<1>1. ASSUME UNCHANGED <<phase, tx, worldQ, places>> PROVE Quiet
  BY <1>1 DEF Quiet
<1>2. ASSUME ClockStep PROVE Quiet
  <2>1. UNCHANGED <<phase, tx, worldQ, places>>
    BY <1>2 DEF ClockStep
  <2> HIDE DEF places
  <2> QED BY <1>1, <2>1
<1>3. ASSUME RecvTick \/ RecvNotify \/ ReadClock PROVE Wakes
  BY <1>3 DEF RecvTick, RecvNotify, ReadClock, Wakes
<1>4. ASSUME NEW w \in Worlds, PickTask(w) PROVE Advances(w) \/ Finishes(w)
  <2> PICK t : t = Head(tx[w])
    OBVIOUS
  <2>1. tx[w] # <<>> /\ UNCHANGED <<worldQ, places>> /\ t \in Tasks
    BY <1>4, AwaitsType DEF PickTask
  <2>2. \/ tx' = [tx EXCEPT ![w] = Tail(@)] /\ phase' = [phase EXCEPT ![t] = "discarded"]
        \/ tx' = tx /\ phase' = [phase EXCEPT ![t] = "picked"]
    BY <1>4 DEF PickTask
  <2>3. phase \in [Tasks -> Phases]
    BY DEF TypeOK, TaskTypes
  <2> HIDE DEF places
  <2> QED BY <2>1, <2>2, <2>3 DEF Advances, Finishes, Busy
<1>5. ASSUME NEW w \in Worlds, StartTask(w) PROVE Advances(w) \/ Finishes(w)
  <2> PICK t : t = Head(tx[w])
    OBVIOUS
  <2>1. tx[w] # <<>> /\ UNCHANGED <<worldQ, places>> /\ t \in Tasks
    BY <1>5, AwaitsType DEF StartTask
  <2>2. \/ tx' = [tx EXCEPT ![w] = Tail(@)] /\ phase' = [phase EXCEPT ![t] = "dropped"]
        \/ /\ tx' = tx /\ Present(t, w)
           /\ \E l \in {"leaving", "running"} : phase' = [phase EXCEPT ![t] = l]
    BY <1>5 DEF StartTask
  <2>3. phase \in [Tasks -> Phases]
    BY DEF TypeOK, TaskTypes
  <2> HIDE DEF places
  <2> QED BY <2>1, <2>2, <2>3 DEF Advances, Finishes, Busy
<1>6. ASSUME NEW w \in Worlds, EndTask(w) PROVE Advances(w)
  <2> PICK t : t = Head(tx[w])
    OBVIOUS
  <2>1. tx[w] # <<>> /\ UNCHANGED <<tx, worldQ, places>> /\ t \in Tasks /\ phase' = [phase EXCEPT ![t] = "returning"]
    BY <1>6, AwaitsType DEF EndTask
  <2>2. phase \in [Tasks -> Phases]
    BY DEF TypeOK, TaskTypes
  <2> HIDE DEF places
  <2> QED BY <2>1, <2>2 DEF Advances, Busy
<1>7. ASSUME NEW w \in Worlds, NEW u \in Tasks, NEW at \in Times, EndRepeating(w, u, at) PROVE Advances(w)
  <2> PICK t : t = Head(tx[w])
    OBVIOUS
  <2>1. tx[w] # <<>> /\ UNCHANGED <<tx, worldQ, places>> /\ t \in Tasks /\ phase[t] = "running"
    BY <1>7, AwaitsType DEF EndRepeating
  <2>2. \/ phase' = [phase EXCEPT ![t] = "returning"]
        \/ phase[u] = "unused" /\ phase' = [phase EXCEPT ![t] = "returning", ![u] = "adding"]
    BY <1>7, Zenon DEF EndRepeating
  <2>3. phase \in [Tasks -> Phases]
    BY DEF TypeOK, TaskTypes
  <2> HIDE DEF places
  <2> QED BY <2>1, <2>2, <2>3 DEF Advances, Busy, Settled
<1>8. ASSUME NEW w \in Worlds, RemoveTask(w) PROVE Finishes(w)
  <2> PICK t : t = Head(tx[w])
    OBVIOUS
  <2>1. tx[w] # <<>> /\ UNCHANGED <<worldQ, places>> /\ t \in Tasks /\ tx' = [tx EXCEPT ![w] = Tail(@)]
    BY <1>8, AwaitsType DEF RemoveTask
  <2>2. \E l \in {"ran", "skipped"} : phase' = [phase EXCEPT ![t] = l]
    BY <1>8 DEF RemoveTask
  <2>3. phase \in [Tasks -> Phases]
    BY DEF TypeOK, TaskTypes
  <2> HIDE DEF places
  <2> QED BY <2>1, <2>2, <2>3 DEF Finishes
<1>9. ASSUME NEW t \in Tasks, NEW l, phase[t] \notin Settled, phase' = [phase EXCEPT ![t] = l],
             UNCHANGED <<tx, worldQ, places>>
      PROVE  Quiet
  <2>1. phase \in [Tasks -> Phases]
    BY DEF TypeOK, TaskTypes
  <2> HIDE DEF places
  <2> QED BY <1>9, <2>1 DEF Quiet
<1>10. ASSUME NEW t \in Tasks, CallerStep(t) PROVE Quiet
  <2>1. CASE Push(t)
    <3>1. phase[t] = "adding" /\ phase' = [phase EXCEPT ![t] = "queued"] /\ UNCHANGED <<tx, worldQ, places>>
      BY <2>1 DEF Push
    <3>2. phase[t] \notin Settled
      BY <3>1 DEF Settled, Busy
    <3> HIDE DEF places
    <3> QED BY <1>9, <3>1, <3>2
  <2>2. CASE PushNotify(t) \/ \E s \in Sessions : AddTask(t, s)
    <3>1. UNCHANGED <<phase, tx, worldQ, places>>
      BY <2>2 DEF PushNotify, AddTask
    <3> HIDE DEF places
    <3> QED BY <1>1, <3>1
  <2> QED BY <1>10, <2>1, <2>2 DEF CallerStep
<1>11. ASSUME EnvStep PROVE Quiet
  <2>1. ASSUME NEW t \in Tasks, NEW ss, NEW at, NEW st, NEW h, Create(t, ss, at, st, h),
               UNCHANGED <<tx, worldQ, places>>
        PROVE  Quiet
    <3>1. phase[t] = "unused" /\ phase' = [phase EXCEPT ![t] = "adding"]
      BY <2>1 DEF Create
    <3>2. phase[t] \notin Settled
      BY <3>1 DEF Settled, Busy
    <3> HIDE DEF places
    <3> QED BY <1>9, <2>1, <3>1, <3>2
  <2>2. ASSUME NEW t \in Tasks, NEW ss, NEW at, NEW st, Schedule(t, ss, at, st) PROVE Quiet
    BY <2>1, <2>2 DEF Schedule
  <2>3. ASSUME NEW t \in Tasks, NEW h, NEW s, NEW at, NEW st, NEW n, ScheduleRepeating(t, h, s, at, st, n)
        PROVE  Quiet
    BY <2>1, <2>3 DEF ScheduleRepeating
  <2>4. ASSUME NEW t, Cancel(t) PROVE Quiet
    <3>1. UNCHANGED <<phase, tx, worldQ, places>>
      BY <2>4 DEF Cancel
    <3> HIDE DEF places
    <3> QED BY <1>1, <3>1
  <2>5. ASSUME NEW h, CancelRepeating(h) PROVE Quiet
    <3>1. UNCHANGED <<phase, tx, worldQ, places>>
      BY <2>5 DEF CancelRepeating
    <3> HIDE DEF places
    <3> QED BY <1>1, <3>1
  <2>6. ASSUME NEW s, CloseSwap(s) \/ CloseStep(s) PROVE Quiet
    <3>1. UNCHANGED <<phase, tx, worldQ, places>>
      BY <2>6 DEF CloseSwap, CloseStep, CloseTake, CloseDone, CloseCancel
    <3> HIDE DEF places
    <3> QED BY <1>1, <3>1
  <2>7. ASSUME NEW s, LeaveWorld(s) \/ UpdateWorldCache(s) \/ \E w \in Worlds : EnterWorld(s, w) PROVE Quiet
    <3>1. UNCHANGED <<phase, tx, worldQ, places>>
      BY <2>7 DEF LeaveWorld, UpdateWorldCache, EnterWorld
    <3> HIDE DEF places
    <3> QED BY <1>1, <3>1
  <2> QED BY <1>11, <2>2, <2>3, <2>4, <2>5, <2>6, <2>7 DEF EnvStep
<1>12. ASSUME UNCHANGED vars PROVE Quiet
  <2>1. UNCHANGED <<phase, tx, worldQ, places>>
    BY <1>12 DEF vars
  <2> HIDE DEF places
  <2> QED BY <1>1, <2>1
<1> QED
  BY <1>2, <1>3, <1>4, <1>5, <1>6, <1>7, <1>8, <1>10, <1>11, <1>12 DEF Next, SchedulerStep, WorldStep

(* The fields of a task are written once, when it comes into being.          *)
LEMMA FieldsKept ==
  ASSUME TypeOK, [Next]_vars, NEW t \in Tasks, phase[t] # "unused"
  PROVE  /\ executeAt'[t] = executeAt[t] /\ sessions'[t] = sessions[t]
         /\ stage'[t] = stage[t] /\ wrapper'[t] = wrapper[t]
<1> DEFINE Kept == /\ executeAt'[t] = executeAt[t] /\ sessions'[t] = sessions[t]
                   /\ stage'[t] = stage[t] /\ wrapper'[t] = wrapper[t]
<1>1. ASSUME UNCHANGED fieldVars PROVE Kept
  BY <1>1
<1>2. ASSUME NEW u \in Tasks, NEW ss, NEW at, NEW st, NEW h, Create(u, ss, at, st, h) PROVE Kept
  <2>1. t # u
    BY <1>2 DEF Create
  <2>2. /\ executeAt' = [executeAt EXCEPT ![u] = at] /\ sessions' = [sessions EXCEPT ![u] = ss]
        /\ stage' = [stage EXCEPT ![u] = st] /\ wrapper' = [wrapper EXCEPT ![u] = h]
    BY <1>2 DEF Create
  <2> QED BY <2>1, <2>2 DEF TypeOK, TaskTypes
<1>3. ASSUME NEW w \in Worlds, NEW u \in Tasks, NEW at \in Times, EndRepeating(w, u, at) PROVE Kept
  <2> PICK r : r = Head(tx[w])
    OBVIOUS
  <2>1. \/ UNCHANGED fieldVars
        \/ /\ phase[u] = "unused"
           /\ executeAt' = [executeAt EXCEPT ![u] = at] /\ sessions' = [sessions EXCEPT ![u] = sessions[r]]
           /\ stage' = [stage EXCEPT ![u] = stage[r]] /\ wrapper' = [wrapper EXCEPT ![u] = wrapper[r]]
    BY <1>3, Zenon DEF EndRepeating
  <2> QED BY <1>1, <2>1 DEF TypeOK, TaskTypes
<1>4. ASSUME ClockStep PROVE UNCHANGED fieldVars
  BY <1>4 DEF ClockStep
<1>5. ASSUME SchedulerStep PROVE UNCHANGED fieldVars
  <2>1. ASSUME RecvTick \/ RecvNotify \/ ReadClock \/ PopDue \/ NextStage PROVE UNCHANGED fieldVars
    BY <2>1 DEF RecvTick, RecvNotify, ReadClock, PopDue, NextStage
  <2>2. ASSUME DispatchGlobals \/ \E w \in Worlds : DispatchWorld(w) PROVE UNCHANGED fieldVars
    BY <2>2 DEF DispatchGlobals, DispatchWorld
  <2>3. ASSUME NEW u \in Tasks, GroupTask(u) PROVE UNCHANGED fieldVars
    BY <2>3 DEF GroupTask
  <2>4. ASSUME NEW s \in Sessions, CheckSession(s) PROVE UNCHANGED fieldVars
    BY <2>4 DEF CheckSession
  <2> QED BY <1>5, <2>1, <2>2, <2>3, <2>4 DEF SchedulerStep
<1>6. ASSUME NEW w \in Worlds, WorldStep(w) PROVE Kept
  <2>1. ASSUME BeginTx(w) \/ PickTask(w) \/ StartTask(w) \/ EndTask(w) \/ RemoveTask(w)
        PROVE  UNCHANGED fieldVars
    BY <2>1 DEF BeginTx, PickTask, StartTask, EndTask, RemoveTask
  <2> QED BY <1>1, <1>3, <1>6, <2>1 DEF WorldStep
<1>7. ASSUME NEW u \in Tasks, CallerStep(u) PROVE UNCHANGED fieldVars
  BY <1>7 DEF CallerStep, Push, PushNotify, AddTask
<1>8. ASSUME EnvStep PROVE Kept
  <2>1. ASSUME NEW u \in Tasks, NEW ss, NEW at, NEW st, Schedule(u, ss, at, st) PROVE Kept
    BY <1>2, <2>1 DEF Schedule
  <2>2. ASSUME NEW u \in Tasks, NEW h, NEW s, NEW at, NEW st, NEW n, ScheduleRepeating(u, h, s, at, st, n)
        PROVE  Kept
    BY <1>2, <2>2 DEF ScheduleRepeating
  <2>3. ASSUME NEW u, Cancel(u) \/ CancelRepeating(u) PROVE UNCHANGED fieldVars
    BY <2>3 DEF Cancel, CancelRepeating
  <2>4. ASSUME NEW s, CloseSwap(s) \/ CloseStep(s) PROVE UNCHANGED fieldVars
    BY <2>4 DEF CloseSwap, CloseStep, CloseTake, CloseDone, CloseCancel
  <2>5. ASSUME NEW s, LeaveWorld(s) \/ UpdateWorldCache(s) \/ \E w \in Worlds : EnterWorld(s, w)
        PROVE  UNCHANGED fieldVars
    BY <2>5 DEF LeaveWorld, UpdateWorldCache, EnterWorld
  <2> QED BY <1>1, <1>8, <2>1, <2>2, <2>3, <2>4, <2>5 DEF EnvStep
<1>9. CASE UNCHANGED vars
  BY <1>9 DEF vars
<1> QED
  BY <1>1, <1>4, <1>5, <1>6, <1>7, <1>8, <1>9 DEF Next

(* A player leaves a world only while the world runs nothing.                *)
LEMMA StaysWhileRunning ==
  ASSUME TypeOK, [Next]_vars, NEW s \in Sessions, entityWorld[s] \in Worlds, tx[entityWorld[s]] # <<>>
  PROVE  entityWorld'[s] = entityWorld[s]
<1>1. ASSUME EnvStep PROVE entityWorld'[s] = entityWorld[s]
  <2>1. ASSUME NEW u \in Sessions, LeaveWorld(u) PROVE entityWorld'[s] = entityWorld[s]
    <3>1. u # s /\ entityWorld' = [entityWorld EXCEPT ![u] = NoWorld]
      BY <2>1 DEF LeaveWorld
    <3> QED BY <3>1 DEF TypeOK, SessionTypes
  <2>2. ASSUME NEW u \in Sessions, NEW w \in Worlds, EnterWorld(u, w) PROVE entityWorld'[s] = entityWorld[s]
    <3>1. u # s /\ entityWorld' = [entityWorld EXCEPT ![u] = w]
      BY <2>2, WorldAssumption DEF EnterWorld
    <3> QED BY <3>1 DEF TypeOK, SessionTypes
  <2>3. ASSUME \E u : Cancel(u) \/ CancelRepeating(u) \/ CloseSwap(u) \/ CloseStep(u) \/ UpdateWorldCache(u)
        PROVE  UNCHANGED entityWorld
    BY <2>3 DEF Cancel, CancelRepeating, CloseSwap, CloseStep, CloseTake, CloseDone, CloseCancel,
                UpdateWorldCache
  <2>4. ASSUME NEW u, NEW ss, NEW at, NEW st, Schedule(u, ss, at, st) PROVE UNCHANGED entityWorld
    BY <2>4 DEF Schedule
  <2>5. ASSUME NEW u, NEW h, NEW r, NEW at, NEW st, NEW n, ScheduleRepeating(u, h, r, at, st, n)
        PROVE  UNCHANGED entityWorld
    BY <2>5 DEF ScheduleRepeating
  <2> QED BY <1>1, <2>1, <2>2, <2>3, <2>4, <2>5 DEF EnvStep
<1>2. ASSUME SchedulerStep PROVE UNCHANGED entityWorld
  <2>1. ASSUME RecvTick \/ RecvNotify \/ ReadClock \/ PopDue \/ NextStage PROVE UNCHANGED entityWorld
    BY <2>1 DEF RecvTick, RecvNotify, ReadClock, PopDue, NextStage
  <2>2. ASSUME DispatchGlobals \/ \E w \in Worlds : DispatchWorld(w) PROVE UNCHANGED entityWorld
    BY <2>2 DEF DispatchGlobals, DispatchWorld
  <2>3. ASSUME NEW u \in Tasks, GroupTask(u) PROVE UNCHANGED entityWorld
    BY <2>3 DEF GroupTask
  <2>4. ASSUME NEW r \in Sessions, CheckSession(r) PROVE UNCHANGED entityWorld
    BY <2>4 DEF CheckSession
  <2> QED BY <1>2, <2>1, <2>2, <2>3, <2>4 DEF SchedulerStep
<1>3. ASSUME NEW w \in Worlds, WorldStep(w) PROVE UNCHANGED entityWorld
  <2>1. ASSUME BeginTx(w) \/ PickTask(w) \/ StartTask(w) \/ EndTask(w) \/ RemoveTask(w)
        PROVE  UNCHANGED entityWorld
    BY <2>1 DEF BeginTx, PickTask, StartTask, EndTask, RemoveTask
  <2>2. ASSUME NEW u, NEW at, EndRepeating(w, u, at) PROVE UNCHANGED entityWorld
    BY <2>2 DEF EndRepeating
  <2> QED BY <1>3, <2>1, <2>2 DEF WorldStep
<1>4. ASSUME ClockStep \/ UNCHANGED vars \/ \E u \in Tasks : CallerStep(u) PROVE UNCHANGED entityWorld
  BY <1>4 DEF ClockStep, vars, CallerStep, Push, PushNotify, AddTask
<1> QED
  BY <1>1, <1>2, <1>3, <1>4 DEF Next

-----------------------------------------------------------------------------
(* The order of tasks, part by part.                                         *)

(* The tasks of the scheduler's places are those it has.                     *)
LEMMA PlacesSettled ==
  ASSUME TypeOK, PlacesOK
  PROVE  /\ \A t \in due : t \in Tasks /\ phase[t] = "due"
         /\ chk # NoTask => chk \in Tasks /\ phase[chk] = "checking" /\ sessions[chk] # {}
         /\ \A t \in ToSet(globals) : t \in Tasks /\ phase[t] = "grouped" /\ sessions[t] = {}
         /\ \A w \in Worlds : \A t \in ToSet(groups[w]) :
              t \in Tasks /\ phase[t] = "grouped" /\ sessions[t] # {}
  BY RangeType DEF TypeOK, SchedTypes, PlacesOK

(* The scheduler moves only tasks it has.                                    *)
LEMMA SchedulerMoves ==
  ASSUME TypeOK, PlacesOK, [Next]_vars,
         \/ Wakes \/ PopDue \/ NextStage \/ \E t \in Tasks : GroupTask(t)
         \/ \E s \in Sessions : CheckSession(s)
         \/ \E w \in Worlds : BeginTx(w)
  PROVE  \A t \in Tasks : phase[t] \in Busy => phase'[t] = phase[t]
<1>1. CASE Wakes \/ NextStage \/ \E w \in Worlds : BeginTx(w)
  BY <1>1 DEF Wakes, NextStage, BeginTx
<1>2. ASSUME PopDue, NEW t \in Tasks, phase[t] \in Busy PROVE phase'[t] = phase[t]
  <2>1. t \notin heap
    BY <1>2 DEF PlacesOK, Busy
  <2> QED BY <1>2, <2>1 DEF PopDue, DueAt
<1>3. ASSUME NEW u \in Tasks, GroupTask(u), NEW t \in Tasks, phase[t] \in Busy PROVE phase'[t] = phase[t]
  <2>1. t # u
    BY <1>3, PlacesSettled DEF GroupTask, StageTasks, Busy
  <2>2. \E l : phase' = [phase EXCEPT ![u] = l]
    BY <1>3 DEF GroupTask
  <2> QED BY <2>1, <2>2 DEF TypeOK, TaskTypes
<1>4. ASSUME NEW s \in Sessions, CheckSession(s), NEW t \in Tasks, phase[t] \in Busy
      PROVE  phase'[t] = phase[t]
  <2>1. t # chk /\ chk \in Tasks
    BY <1>4, PlacesSettled DEF CheckSession, Busy
  <2>2. \E l : phase' = [phase EXCEPT ![chk] = l]
    BY <1>4 DEF CheckSession
  <2> QED BY <2>1, <2>2 DEF TypeOK, TaskTypes
<1> QED BY <1>1, <1>2, <1>3, <1>4

(* Without transactions and tasks of transactions LotsOK stays.              *)
LEMMA LotsElsewhere ==
  ASSUME TypeOK, LotsOK, UNCHANGED <<tx, worldQ>>,
         \A t \in Tasks : phase[t] \in Busy => phase'[t] = phase[t]
  PROVE  LotsOK'
  BY LotsSame DEF LotsOK

(* A group that is dispatched holds only tasks that await no world yet.      *)
LEMMA LotsAdd ==
  ASSUME TypeOK, LotsOK, NEW w \in Worlds, NEW q \in Seq(Tasks), NoTwice(q),
         worldQ' = [worldQ EXCEPT ![w] = Append(@, q)], tx' = tx,
         \A t \in ToSet(q) : phase[t] = "grouped",
         phase' = [t \in Tasks |-> IF t \in ToSet(q) THEN "dispatched" ELSE phase[t]]
  PROVE  LotsOK'
<1>1. \A v \in Worlds : \A t : Awaits(v, t)' => Awaits(v, t) \/ (v = w /\ t \in ToSet(q))
  BY LotsAppend
<1>2. \A v \in Worlds : \A t, u : AheadIn(v, t, u)' =>
              \/ AheadIn(v, t, u)
              \/ v = w /\ Awaits(v, t) /\ u \in ToSet(q)
              \/ v = w /\ \E i, j \in DOMAIN q : i < j /\ t = q[i] /\ u = q[j]
  BY LotsAppend
<1>3. \A v \in Worlds, t \in Tasks : Awaits(v, t) => t \notin ToSet(q) /\ phase'[t] = phase[t]
  BY DEF LotsOK, Busy
<1>4. \A t \in ToSet(q) : t \in Tasks /\ phase'[t] = "dispatched"
  BY RangeType
<1>5. \A v \in Worlds, t \in Tasks : ~AheadIn(v, t, t)'
  <2>1. \A v \in Worlds, t \in Tasks : ~AheadIn(v, t, t) /\ ~(Awaits(v, t) /\ t \in ToSet(q))
    BY <1>3, AwaitsType DEF LotsOK
  <2> QED BY <1>2, <2>1 DEF NoTwice
<1>6. \A v \in Worlds, t \in Tasks : Awaits(v, t)' => phase'[t] \in Busy
  BY <1>1, <1>3, <1>4 DEF LotsOK, Busy
<1>7. \A u, v \in Worlds, t \in Tasks : Awaits(u, t)' /\ Awaits(v, t)' => u = v
  BY <1>1, <1>3 DEF LotsOK
<1>8. \A v \in Worlds, t \in Tasks :
        Awaits(v, t)' /\ phase'[t] # "dispatched" => tx[v] # <<>> /\ t = Head(tx[v])
  BY <1>1, <1>3, <1>4 DEF LotsOK
<1> QED BY <1>5, <1>6, <1>7, <1>8 DEF LotsOK

(* Every step keeps a task in one transaction of one world.                  *)
LEMMA LotsNext ==
  ASSUME TypeOK, PlacesOK, LotsOK, OnceOK, [Next]_vars
  PROVE  LotsOK'
<1>1. ASSUME UNCHANGED <<tx, worldQ>>, \A t \in Tasks : phase[t] \in Busy => phase'[t] = phase[t]
      PROVE  LotsOK'
  BY <1>1, LotsElsewhere
<1>2. CASE Quiet
  <2>1. UNCHANGED <<tx, worldQ>> /\ \A t \in Tasks : phase[t] \in Busy => phase'[t] = phase[t]
    BY <1>2 DEF Quiet, Settled
  <2> QED BY <1>1, <2>1
<1>3. CASE Wakes \/ PopDue \/ NextStage \/ (\E t \in Tasks : GroupTask(t)) \/ \E s \in Sessions : CheckSession(s)
  <2>1. UNCHANGED <<tx, worldQ>>
    BY <1>3 DEF Wakes, PopDue, NextStage, GroupTask, CheckSession
  <2> QED BY <1>1, <1>3, <2>1, SchedulerMoves
<1>4. ASSUME NEW w \in Worlds, BeginTx(w) PROVE LotsOK'
  <2>1. tx[w] = <<>> /\ phase' = phase /\ \A v \in Worlds : v # w => tx'[v] = tx[v]
    BY <1>4 DEF BeginTx, TypeOK, WorldTypes
  <2>2. /\ \A v \in Worlds : \A t : Awaits(v, t)' => Awaits(v, t)
        /\ \A v \in Worlds : \A t, u : AheadIn(v, t, u)' => AheadIn(v, t, u)
    BY <1>4, LotsBegin
  <2> QED BY <2>1, <2>2 DEF LotsOK
<1>5. ASSUME NEW w \in Worlds, Advances(w) PROVE LotsOK'
  <2> PICK h : h = Head(tx[w])
    OBVIOUS
  <2>1. h \in Tasks /\ Awaits(w, h) /\ tx[w] # <<>>
    BY <1>5, AwaitsType DEF Advances
  <2>2. /\ phase'[h] \in Busy /\ \A t \in Tasks \ {h} : phase[t] \in Busy => phase'[t] = phase[t]
        /\ UNCHANGED <<tx, worldQ>>
    BY <1>5 DEF Advances, Settled
  <2>3. /\ \A v, t : Awaits(v, t)' <=> Awaits(v, t)
        /\ \A v, t, u : AheadIn(v, t, u)' <=> AheadIn(v, t, u)
    BY <2>2, LotsSame
  <2> QED BY <2>1, <2>2, <2>3 DEF LotsOK
<1>6. ASSUME NEW w \in Worlds, Finishes(w) PROVE LotsOK'
  <2> PICK h : h = Head(tx[w])
    OBVIOUS
  <2>1. h \in Tasks /\ Awaits(w, h) /\ tx[w] # <<>>
    BY <1>6, AwaitsType DEF Finishes
  <2>2. /\ \A t \in Tasks \ {h} : phase[t] \in Busy => phase'[t] = phase[t]
        /\ tx' = [tx EXCEPT ![w] = Tail(@)] /\ worldQ' = worldQ
    BY <1>6 DEF Finishes, Settled
  <2>3. /\ \A v \in Worlds : \A t : Awaits(v, t)' => Awaits(v, t)
        /\ \A v \in Worlds : \A t, u : AheadIn(v, t, u)' => AheadIn(v, t, u)
        /\ \A t : Awaits(w, t)' => AheadIn(w, h, t)
    BY <2>1, <2>2, LotsTail
  <2>4. \A v \in Worlds, t \in Tasks : Awaits(v, t)' => t # h
    BY <2>1, <2>3 DEF LotsOK
  <2>5. \A v \in Worlds : v # w => tx'[v] = tx[v]
    BY <2>2 DEF TypeOK, WorldTypes
  <2> QED BY <2>1, <2>2, <2>3, <2>4, <2>5 DEF LotsOK
<1>7. ASSUME NEW w \in Worlds, DispatchWorld(w) PROVE LotsOK'
  <2> PICK q : q = groups[w]
    OBVIOUS
  <2>1. q \in Seq(Tasks) /\ NoTwice(q) /\ \A t \in ToSet(q) : phase[t] = "grouped"
    BY PlacesSettled DEF OnceOK, TypeOK, SchedTypes
  <2>2. /\ worldQ' = [worldQ EXCEPT ![w] = Append(@, q)] /\ tx' = tx
        /\ phase' = [t \in Tasks |-> IF t \in ToSet(q) THEN "dispatched" ELSE phase[t]]
    BY <1>7 DEF DispatchWorld
  <2> QED BY <2>1, <2>2, LotsAdd
<1>8. CASE DispatchGlobals
  <2> PICK q : q = globals
    OBVIOUS
  <2>1. q \in Seq(Tasks) /\ NoTwice(q) /\ \A t \in ToSet(q) : phase[t] = "grouped"
    BY PlacesSettled DEF OnceOK, TypeOK, SchedTypes
  <2>2. CASE DefaultWorld # NoWorld
    <3>1. /\ worldQ' = [worldQ EXCEPT ![DefaultWorld] = Append(@, q)] /\ tx' = tx
          /\ phase' = [t \in Tasks |-> IF t \in ToSet(q) THEN "dispatched" ELSE phase[t]]
      BY <1>8, <2>2 DEF DispatchGlobals
    <3>2. DefaultWorld \in Worlds
      BY <2>2, WorldAssumption
    <3> QED BY <2>1, <3>1, <3>2, LotsAdd
  <2>3. CASE DefaultWorld = NoWorld
    <3>1. /\ UNCHANGED <<tx, worldQ>>
          /\ phase' = [t \in Tasks |-> IF t \in ToSet(q) THEN "dropped" ELSE phase[t]]
      BY <1>8, <2>3 DEF DispatchGlobals
    <3>2. \A t \in Tasks : phase[t] \in Busy => phase'[t] = phase[t]
      BY <2>1, <3>1 DEF Busy
    <3> QED BY <1>1, <3>1, <3>2
  <2> QED BY <2>2, <2>3
<1> QED
  BY <1>2, <1>3, <1>4, <1>5, <1>6, <1>7, <1>8, StepKinds

(* A task is put in a group once.                                            *)
LEMMA TwiceAppend ==
  ASSUME NEW S, NEW q \in Seq(S), NoTwice(q), NEW e \in S, e \notin ToSet(q)
  PROVE  NoTwice(Append(q, e))
<1>1. /\ Len(q) \in Nat /\ DOMAIN q = 1 .. Len(q) /\ Append(q, e)[Len(q) + 1] = e
      /\ \A i \in 1 .. Len(q) : Append(q, e)[i] = q[i] /\ q[i] \in ToSet(q)
      /\ \A i \in DOMAIN Append(q, e) : i \in Nat /\ (i \in 1 .. Len(q) \/ i = Len(q) + 1)
  BY DEF ToSet
<1> SUFFICES ASSUME NEW i \in DOMAIN Append(q, e), NEW j \in DOMAIN Append(q, e), i < j
             PROVE  Append(q, e)[i] # Append(q, e)[j]
  BY DEF NoTwice
<1>2. i \in 1 .. Len(q)
  BY <1>1
<1>3. CASE j \in 1 .. Len(q)
  BY <1>1, <1>2, <1>3 DEF NoTwice
<1>4. CASE j = Len(q) + 1
  BY <1>1, <1>2, <1>4
<1> QED BY <1>1, <1>3, <1>4

(* Every step keeps a task at most once in the groups.                       *)
LEMMA OnceNext ==
  ASSUME TypeOK, PlacesOK, OnceOK, [Next]_vars
  PROVE  OnceOK'
<1>1. CASE UNCHANGED <<globals, groups>>
  BY <1>1 DEF OnceOK
<1>2. CASE Quiet \/ Wakes \/ PopDue \/ NextStage \/ \E w \in Worlds : BeginTx(w) \/ Advances(w) \/ Finishes(w)
  <2>1. UNCHANGED <<globals, groups>>
    BY <1>2 DEF Quiet, Wakes, PopDue, NextStage, BeginTx, Advances, Finishes, places
  <2> QED BY <1>1, <2>1
<1>3. ASSUME NEW t \in Tasks, GroupTask(t) PROVE OnceOK'
  <2>1. t \notin ToSet(globals)
    BY <1>3, PlacesSettled DEF GroupTask, StageTasks
  <2>2. (globals' = globals \/ globals' = Append(globals, t)) /\ groups' = groups
    BY <1>3 DEF GroupTask
  <2>3. NoTwice(Append(globals, t))
    BY <2>1, TwiceAppend DEF OnceOK, TypeOK, SchedTypes
  <2> QED BY <2>2, <2>3 DEF OnceOK
<1>4. ASSUME NEW s \in Sessions, CheckSession(s) PROVE OnceOK'
  <2>1. chk \in Tasks /\ \A w \in Worlds : chk \notin ToSet(groups[w])
    BY <1>4, PlacesSettled DEF CheckSession
  <2>2. globals' = globals /\ (groups' = groups \/ \E w \in Worlds : groups' = [groups EXCEPT ![w] = Append(@, chk)])
    BY <1>4, WorldAssumption DEF CheckSession, Good, SameWorld, TypeOK, SessionTypes
  <2>3. \A w \in Worlds : NoTwice(Append(groups[w], chk))
    BY <2>1, TwiceAppend DEF OnceOK, TypeOK, SchedTypes
  <2>4. groups \in [Worlds -> Seq(Tasks)]
    BY DEF TypeOK, SchedTypes
  <2> QED BY <2>2, <2>3, <2>4 DEF OnceOK
<1>5. ASSUME DispatchGlobals \/ \E w \in Worlds : DispatchWorld(w) PROVE OnceOK'
  <2>1. /\ globals' \in {globals, <<>>}
        /\ groups' = groups \/ \E w \in Worlds : groups' = [groups EXCEPT ![w] = <<>>]
    BY <1>5 DEF DispatchGlobals, DispatchWorld
  <2>2. groups \in [Worlds -> Seq(Tasks)] /\ NoTwice(<<>>)
    BY DEF TypeOK, SchedTypes, NoTwice
  <2> QED BY <2>1, <2>2 DEF OnceOK
<1> QED
  BY <1>2, <1>3, <1>4, <1>5, StepKinds

(* processTasks leaves nothing behind: the last stage is left only when no   *)
(* task of any stage is still to come.                                       *)
LEMMA IdleNext ==
  ASSUME TypeOK, PlacesOK, IdleOK, GroupedOK, [Next]_vars
  PROVE  IdleOK'
<1>1. ASSUME UNCHANGED <<due, chk, globals, groups>>, spc # "grouping" PROVE IdleOK'
  BY <1>1 DEF IdleOK
<1>2. CASE Quiet \/ \E w \in Worlds : BeginTx(w) \/ Advances(w) \/ Finishes(w)
  <2>1. UNCHANGED <<spc, due, chk, globals, groups>>
    BY <1>2 DEF Quiet, BeginTx, Advances, Finishes, places
  <2> QED BY <2>1 DEF IdleOK
<1>3. CASE Wakes
  BY <1>1, <1>3 DEF Wakes
<1>4. CASE PopDue
  <2>1. spc # "grouping" /\ UNCHANGED <<chk, globals, groups>> /\ (spc' # "grouping" => due' = {})
    BY <1>4 DEF PopDue
  <2> QED BY <2>1 DEF IdleOK
<1>5. CASE NextStage
  <2>1. /\ StageTasks = {} /\ chk' = NoTask /\ due' = due /\ globals' = <<>>
        /\ \A w \in Worlds : groups'[w] = <<>>
        /\ spc' # "grouping" => curStage = NumStages
    BY <1>5 DEF NextStage, StageGrouped, JobsDone, LastStage
  <2>2. ASSUME spc' # "grouping", NEW t \in due PROVE FALSE
    <3>1. stage[t] \in 1 .. NumStages /\ curStage <= stage[t] /\ curStage = NumStages
      BY <2>1, <2>2, PlacesSettled DEF GroupedOK, TypeOK, TaskTypes
    <3>2. stage[t] = curStage
      BY <3>1, StagesAssumption
    <3> QED BY <2>1, <3>2 DEF StageTasks
  <2> QED BY <2>1, <2>2 DEF IdleOK
<1>6. ASSUME spc = "grouping", spc' = spc PROVE IdleOK'
  BY <1>6 DEF IdleOK
<1>7. ASSUME NEW t \in Tasks, GroupTask(t) PROVE spc = "grouping" /\ spc' = spc
  BY <1>7 DEF GroupTask
<1>8. ASSUME NEW s \in Sessions, CheckSession(s) PROVE spc = "grouping" /\ spc' = spc
  BY <1>8 DEF CheckSession, IdleOK
<1>9. ASSUME DispatchGlobals \/ \E w \in Worlds : DispatchWorld(w) PROVE spc = "grouping" /\ spc' = spc
  BY <1>9 DEF DispatchGlobals, DispatchWorld, StageGrouped
<1> QED
  BY <1>2, <1>3, <1>4, <1>5, <1>6, <1>7, <1>8, <1>9, StepKinds

(* The history of a task that is under way does not change.                  *)
LEMMA UnderWayKept ==
  ASSUME TypeOK, PlacesOK, [Next]_vars, NEW t \in Tasks, phase[t] \in Settled
  PROVE  /\ executeAt'[t] = executeAt[t] /\ sessions'[t] = sessions[t]
         /\ stage'[t] = stage[t] /\ batch'[t] = batch[t]
<1>1. phase[t] # "unused" /\ t \notin heap
  BY DEF Settled, Busy, PlacesOK
<1>2. batch'[t] = batch[t]
  <2>1. CASE PopDue
    BY <1>1, <2>1 DEF PopDue, DueAt
  <2>2. ASSUME ~PopDue PROVE batch' = batch
    BY <2>2, StepKinds DEF Quiet, Wakes, NextStage, DispatchGlobals, GroupTask, CheckSession, DispatchWorld,
                           BeginTx, Advances, Finishes, places
  <2> QED BY <2>1, <2>2
<1> QED BY <1>1, <1>2, FieldsKept

(* What GroupedOK, SentOK and LineOK say of tasks stays true of them.        *)
LEMMA GroupedKept ==
  ASSUME TypeOK, PlacesOK, GroupedOK, [Next]_vars
  PROVE  /\ \A t \in due : /\ batch'[t] = batch[t] /\ stage'[t] = stage[t] /\ executeAt'[t] = executeAt[t]
                           /\ batch[t] = pops /\ curStage <= stage[t]
         /\ \A w \in Worlds : \A t \in ToSet(groups[w]) :
              batch'[t] = batch[t] /\ stage'[t] = stage[t] /\ executeAt'[t] = executeAt[t]
         /\ \A t \in ToSet(globals) : batch'[t] = batch[t] /\ stage'[t] = stage[t]
         /\ chk # NoTask => batch'[chk] = batch[chk] /\ stage'[chk] = stage[chk] /\ executeAt'[chk] = executeAt[chk]
  BY PlacesSettled, UnderWayKept DEF GroupedOK, Settled, Busy

(* A step that adds nothing to the places keeps what GroupedOK says of them. *)
LEMMA GroupedLess ==
  ASSUME TypeOK, PlacesOK, GroupedOK, [Next]_vars, UNCHANGED <<pops, curStage>>,
         due' \subseteq due, chk' \in {chk, NoTask},
         ToSet(globals') \subseteq ToSet(globals),
         \A w \in Worlds : groups'[w] \in {groups[w], <<>>}
  PROVE  GroupedOK'
<1>1. \A t \in due' : batch'[t] = pops' /\ curStage' <= stage'[t]
  BY GroupedKept
<1>2. StageTasks' \subseteq StageTasks /\ \A u \in StageTasks : executeAt'[u] = executeAt[u]
  BY GroupedKept DEF StageTasks
<1>3. chk' # NoTask => Current(chk)' /\ \A u \in StageTasks' : executeAt'[chk'] <= executeAt'[u]
  BY <1>2, GroupedKept DEF GroupedOK, Current
<1>4. \A t \in ToSet(globals') : Current(t)'
  BY GroupedKept DEF GroupedOK, Current
<1>5. ASSUME NEW w \in Worlds
      PROVE  /\ \A t \in ToSet(groups'[w]) :
                  /\ Current(t)'
                  /\ chk' # NoTask => executeAt'[t] <= executeAt'[chk']
                  /\ \A u \in StageTasks' : executeAt'[t] <= executeAt'[u]
             /\ \A i, j \in DOMAIN groups'[w] : i < j => executeAt'[groups'[w][i]] <= executeAt'[groups'[w][j]]
  <2>1. CASE groups'[w] = <<>>
    BY <2>1, RangeEmpty
  <2>2. CASE groups'[w] = groups[w]
    <3>1. \A t \in ToSet(groups[w]) : Current(t)'
      BY GroupedKept DEF GroupedOK, Current
    <3>2. \A t \in ToSet(groups[w]) : chk' # NoTask => executeAt'[t] <= executeAt'[chk']
      BY GroupedKept DEF GroupedOK
    <3>3. \A t \in ToSet(groups[w]) : \A u \in StageTasks' : executeAt'[t] <= executeAt'[u]
      BY <1>2, GroupedKept DEF GroupedOK
    <3>4. \A i \in DOMAIN groups[w] : groups[w][i] \in ToSet(groups[w])
      BY DEF ToSet
    <3>5. \A i, j \in DOMAIN groups[w] : i < j => executeAt'[groups[w][i]] <= executeAt'[groups[w][j]]
      BY <3>4, GroupedKept DEF GroupedOK
    <3> QED BY <2>2, <3>1, <3>2, <3>3, <3>5
  <2> QED BY <2>1, <2>2
<1> QED BY <1>1, <1>3, <1>4, <1>5 DEF GroupedOK

(* The latest may be added at the end of what is sorted by time.             *)
LEMMA SortedAppend ==
  ASSUME NEW S, NEW f, NEW q \in Seq(S), NEW e \in S,
         \A i, j \in DOMAIN q : i < j => f[q[i]] <= f[q[j]],
         \A t \in ToSet(q) : f[t] <= f[e]
  PROVE  \A i, j \in DOMAIN Append(q, e) : i < j => f[Append(q, e)[i]] <= f[Append(q, e)[j]]
<1>1. /\ Len(q) \in Nat /\ DOMAIN q = 1 .. Len(q) /\ Append(q, e)[Len(q) + 1] = e
      /\ \A i \in 1 .. Len(q) : Append(q, e)[i] = q[i] /\ q[i] \in ToSet(q)
      /\ \A i \in DOMAIN Append(q, e) : i \in Nat /\ (i \in 1 .. Len(q) \/ i = Len(q) + 1)
  BY DEF ToSet
<1> SUFFICES ASSUME NEW i \in DOMAIN Append(q, e), NEW j \in DOMAIN Append(q, e), i < j
             PROVE  f[Append(q, e)[i]] <= f[Append(q, e)[j]]
  OBVIOUS
<1>2. i \in 1 .. Len(q)
  BY <1>1
<1>3. CASE j \in 1 .. Len(q)
  BY <1>1, <1>2, <1>3
<1>4. CASE j = Len(q) + 1
  BY <1>1, <1>2, <1>4
<1> QED BY <1>1, <1>3, <1>4

(* The earliest task of the stage is taken up.                               *)
LEMMA GroupedTask ==
  ASSUME TypeOK, PlacesOK, GroupedOK, [Next]_vars, NEW t \in Tasks, GroupTask(t)
  PROVE  GroupedOK'
<1>1. /\ due' = due \ {t} /\ UNCHANGED <<pops, curStage, groups, batch, stage, executeAt>>
      /\ chk = NoTask /\ chk' \in {NoTask, t} /\ t \in StageTasks
      /\ \A u \in StageTasks : executeAt[t] <= executeAt[u]
      /\ globals' = globals \/ globals' = Append(globals, t)
  BY DEF GroupTask
<1>2. t \in due /\ Current(t) /\ StageTasks' \subseteq StageTasks
  BY <1>1 DEF GroupedOK, StageTasks, Current
<1>3. \A u \in due' : batch'[u] = pops' /\ curStage' <= stage'[u]
  BY <1>1 DEF GroupedOK
<1>4. chk' # NoTask => Current(chk)' /\ \A u \in StageTasks' : executeAt'[chk'] <= executeAt'[u]
  BY <1>1, <1>2 DEF Current
<1>5. ToSet(globals') \subseteq ToSet(globals) \cup {t}
  <2>1. globals \in Seq(Tasks)
    BY DEF TypeOK, SchedTypes
  <2>2. ToSet(Append(globals, t)) = ToSet(globals) \cup {t}
    BY <2>1, AppendRange
  <2> QED BY <1>1, <2>2
<1>6. \A u \in ToSet(globals') : Current(u)'
  BY <1>1, <1>2, <1>5 DEF GroupedOK, Current
<1>7. ASSUME NEW w \in Worlds
      PROVE  /\ \A u \in ToSet(groups'[w]) :
                  /\ Current(u)'
                  /\ chk' # NoTask => executeAt'[u] <= executeAt'[chk']
                  /\ \A v \in StageTasks' : executeAt'[u] <= executeAt'[v]
             /\ \A i, j \in DOMAIN groups'[w] : i < j => executeAt'[groups'[w][i]] <= executeAt'[groups'[w][j]]
  BY <1>1, <1>2 DEF GroupedOK, Current
<1> QED BY <1>3, <1>4, <1>6, <1>7 DEF GroupedOK

(* The task under check goes to the end of its group, or nowhere.            *)
LEMMA GroupedCheck ==
  ASSUME TypeOK, PlacesOK, GroupedOK, [Next]_vars, NEW s \in Sessions, CheckSession(s)
  PROVE  GroupedOK'
<1>1. /\ UNCHANGED <<due, pops, curStage, globals, batch, stage, executeAt>>
      /\ chk \in Tasks /\ chk # NoTask /\ chk' \in {NoTask, chk}
      /\ \/ groups' = groups
         \/ chk' = NoTask /\ \E w \in Worlds : groups' = [groups EXCEPT ![w] = Append(@, chk)]
  BY PlacesSettled, WorldAssumption DEF CheckSession, Good, SameWorld, TypeOK, SessionTypes
<1>2. Current(chk) /\ (\A u \in StageTasks : executeAt[chk] <= executeAt[u]) /\ StageTasks' = StageTasks
  BY <1>1 DEF GroupedOK, StageTasks
<1>3. CASE groups' = groups
  BY <1>1, <1>3, GroupedLess
<1>4. ASSUME chk' = NoTask, NEW x \in Worlds, groups' = [groups EXCEPT ![x] = Append(@, chk)] PROVE GroupedOK'
  <2>1. groups'[x] = Append(groups[x], chk) /\ \A w \in Worlds : w # x => groups'[w] = groups[w]
    BY <1>4 DEF TypeOK, SchedTypes
  <2>2. groups[x] \in Seq(Tasks)
    BY DEF TypeOK, SchedTypes
  <2>3. ToSet(groups'[x]) = ToSet(groups[x]) \cup {chk}
    BY <1>1, <2>1, <2>2, AppendRange
  <2>4. \A w \in Worlds : \A t \in ToSet(groups'[w]) : t \in ToSet(groups[w]) \/ t = chk
    BY <2>1, <2>3
  <2>5. \A w \in Worlds : \A t \in ToSet(groups'[w]) :
          Current(t)' /\ \A u \in StageTasks' : executeAt'[t] <= executeAt'[u]
    BY <1>1, <1>2, <2>4 DEF GroupedOK, Current
  <2>6. ASSUME NEW w \in Worlds
        PROVE  \A i, j \in DOMAIN groups'[w] : i < j => executeAt'[groups'[w][i]] <= executeAt'[groups'[w][j]]
    <3>1. CASE w = x
      <4>1. /\ \A i, j \in DOMAIN groups[x] : i < j => executeAt[groups[x][i]] <= executeAt[groups[x][j]]
            /\ \A t \in ToSet(groups[x]) : executeAt[t] <= executeAt[chk]
        BY <1>1 DEF GroupedOK
      <4>2. \A i, j \in DOMAIN Append(groups[x], chk) :
              i < j => executeAt[Append(groups[x], chk)[i]] <= executeAt[Append(groups[x], chk)[j]]
        BY <1>1, <2>2, <4>1, SortedAppend
      <4> QED BY <1>1, <2>1, <3>1, <4>2
    <3>2. CASE w # x
      BY <1>1, <2>1, <3>2 DEF GroupedOK
    <3> QED BY <3>1, <3>2
  <2>7. /\ \A t \in due' : batch'[t] = pops' /\ curStage' <= stage'[t]
        /\ \A t \in ToSet(globals') : Current(t)'
    BY <1>1 DEF GroupedOK, Current
  <2> QED BY <1>4, <2>5, <2>6, <2>7 DEF GroupedOK
<1> QED BY <1>1, <1>3, <1>4

(* Every step keeps the groups of this PopDue and stage, and by time.        *)
LEMMA GroupedNext ==
  ASSUME TypeOK, PlacesOK, IdleOK, GroupedOK, [Next]_vars
  PROVE  GroupedOK'
<1>1. CASE UNCHANGED <<pops, curStage, due, chk, globals, groups>>
  BY <1>1, GroupedLess
<1>2. CASE Quiet \/ Wakes \/ \E w \in Worlds : BeginTx(w) \/ Advances(w) \/ Finishes(w)
  <2>1. UNCHANGED <<pops, curStage, due, chk, globals, groups>>
    BY <1>2 DEF Quiet, Wakes, BeginTx, Advances, Finishes, places
  <2> QED BY <1>1, <2>1
<1>3. CASE PopDue
  <2>1. spc = "popping" /\ UNCHANGED <<stage, chk, groups, globals>> /\ curStage' = 1
    BY <1>3 DEF PopDue
  <2>2. chk' = NoTask /\ globals' = <<>> /\ \A w \in Worlds : groups'[w] = <<>>
    BY <2>1 DEF IdleOK
  <2>3. \A t \in due' : batch'[t] = pops' /\ t \in Tasks
    BY <1>3, TypeNext DEF PopDue, TypeOK, SchedTypes
  <2>4. \A t \in Tasks : curStage' <= stage'[t]
    BY <2>1 DEF TypeOK, TaskTypes
  <2> QED BY <2>2, <2>3, <2>4, RangeEmpty DEF GroupedOK
<1>4. CASE NextStage
  <2>1. /\ StageTasks = {} /\ chk' = NoTask /\ globals' = <<>> /\ UNCHANGED <<due, pops, batch, stage>>
        /\ \A w \in Worlds : groups'[w] = <<>>
        /\ curStage' \in {curStage, curStage + 1}
    BY <1>4 DEF NextStage, StageGrouped, JobsDone
  <2>2. \A t \in due : stage[t] \in Nat /\ curStage \in Nat /\ curStage <= stage[t] /\ stage[t] # curStage
    BY <2>1, PlacesSettled DEF GroupedOK, StageTasks, TypeOK, TaskTypes, SchedTypes
  <2>3. \A t \in due' : batch'[t] = pops' /\ curStage' <= stage'[t]
    BY <2>1, <2>2 DEF GroupedOK
  <2> QED BY <2>1, <2>3, RangeEmpty DEF GroupedOK
<1>5. CASE DispatchGlobals \/ \E w \in Worlds : DispatchWorld(w)
  <2>1. /\ UNCHANGED <<pops, curStage, due, chk>> /\ globals' \in {globals, <<>>}
        /\ groups' = groups \/ \E w \in Worlds : groups' = [groups EXCEPT ![w] = <<>>]
    BY <1>5 DEF DispatchGlobals, DispatchWorld
  <2>2. \A w \in Worlds : groups'[w] \in {groups[w], <<>>}
    BY <2>1 DEF TypeOK, SchedTypes
  <2>3. ToSet(globals') \subseteq ToSet(globals)
    BY <2>1, RangeEmpty
  <2> QED BY <2>1, <2>2, <2>3, GroupedLess
<1> QED
  BY <1>2, <1>3, <1>4, <1>5, GroupedTask, GroupedCheck, StepKinds

(* What awaits a world, and where the scheduler is, after a step.            *)
SentTo(w, t) ==
  /\ batch[t] <= pops
  /\ spc = "grouping" /\ batch[t] = pops =>
       /\ stage[t] <= curStage
       /\ stage[t] = curStage =>
            StageTasks = {} /\ chk = NoTask /\ (sessions[t] # {} => groups[w] = <<>>)

(* SentOK says it of every task that awaits a world.                         *)
LEMMA SentAll == SentOK <=> \A w \in Worlds, t \in Tasks : Awaits(w, t) => SentTo(w, t)
  BY DEF SentOK, SentTo

(* Every step keeps what was dispatched before what is still to come.        *)
LEMMA SentNext ==
  ASSUME TypeOK, PlacesOK, LotsOK, IdleOK, GroupedOK, SentOK, [Next]_vars
  PROVE  SentOK'
<1>1. \A w \in Worlds, t \in Tasks : Awaits(w, t) =>
        batch'[t] = batch[t] /\ stage'[t] = stage[t] /\ sessions'[t] = sessions[t] /\ SentTo(w, t)
  BY UnderWayKept, SentAll DEF LotsOK, Settled
<1>2. ASSUME UNCHANGED <<curStage, due>>
      PROVE  StageTasks' = StageTasks
  BY <1>2, GroupedKept DEF StageTasks
<1>3. ASSUME NEW w \in Worlds, NEW t \in Tasks, Awaits(w, t), UNCHANGED pops,
             \/ spc' # "grouping"
             \/ UNCHANGED <<spc, curStage, chk, due>> /\ groups'[w] \in {groups[w], <<>>}
      PROVE  SentTo(w, t)'
  BY <1>1, <1>2, <1>3 DEF SentTo
<1>4. ASSUME \A w \in Worlds, t \in Tasks : Awaits(w, t)' => Awaits(w, t), UNCHANGED pops,
             \/ spc' # "grouping"
             \/ /\ UNCHANGED <<spc, curStage, chk, due>>
                /\ \A w \in Worlds : groups'[w] \in {groups[w], <<>>}
      PROVE  SentOK'
  <2>1. \A w \in Worlds, t \in Tasks : Awaits(w, t)' => SentTo(w, t)'
    BY <1>3, <1>4
  <2> QED BY <2>1 DEF SentOK, SentTo
<1>5. CASE Quiet \/ Wakes \/ \E w \in Worlds : BeginTx(w) \/ Advances(w) \/ Finishes(w)
  <2>1. /\ UNCHANGED <<pops, groups>>
        /\ spc' # "grouping" \/ UNCHANGED <<spc, curStage, chk, due>>
    BY <1>5 DEF Quiet, Wakes, BeginTx, Advances, Finishes, places
  <2>2. \A w \in Worlds, t \in Tasks : Awaits(w, t)' => Awaits(w, t)
    <3>1. CASE UNCHANGED <<tx, worldQ>>
      BY <3>1, LotsSame
    <3>2. ASSUME NEW v \in Worlds, Finishes(v) PROVE \A w \in Worlds, t \in Tasks : Awaits(w, t)' => Awaits(w, t)
      BY <3>2, LotsTail DEF Finishes
    <3>3. CASE Quiet \/ Wakes \/ \E w \in Worlds : Advances(w)
      BY <3>1, <3>3 DEF Quiet, Wakes, Advances
    <3> QED BY <1>5, <3>2, <3>3, LotsBegin
  <2> QED BY <1>4, <2>1, <2>2
<1>6. CASE PopDue
  <2>1. /\ UNCHANGED <<tx, worldQ>>
        /\ (spc' # "grouping" /\ pops' = pops) \/ (pops' = pops + 1 /\ pops \in Nat)
    BY <1>6 DEF PopDue, TypeOK, QueueTypes
  <2>2. \A w \in Worlds, t \in Tasks : Awaits(w, t)' => Awaits(w, t)
    BY <2>1, LotsSame
  <2>3. CASE spc' # "grouping" /\ pops' = pops
    BY <1>4, <2>2, <2>3
  <2>4. ASSUME pops' = pops + 1, pops \in Nat, NEW w \in Worlds, NEW t \in Tasks, Awaits(w, t)
        PROVE  SentTo(w, t)'
    <3>1. batch'[t] = batch[t] /\ batch[t] <= pops /\ batch[t] \in Nat
      BY <1>1, <2>4 DEF SentTo, TypeOK, QueueTypes
    <3> QED BY <2>4, <3>1 DEF SentTo
  <2> QED BY <2>1, <2>2, <2>3, <2>4 DEF SentOK, SentTo
<1>7. CASE NextStage
  <2>1. /\ UNCHANGED <<tx, worldQ, pops>> /\ spc = "grouping"
        /\ spc' # "grouping" \/ (curStage' = curStage + 1 /\ curStage \in Nat)
    BY <1>7 DEF NextStage, StageGrouped, TypeOK, SchedTypes
  <2>2. \A w \in Worlds, t \in Tasks : Awaits(w, t)' => Awaits(w, t)
    BY <2>1, LotsSame
  <2>3. CASE spc' # "grouping"
    BY <1>4, <2>1, <2>2, <2>3
  <2>4. ASSUME curStage' = curStage + 1, curStage \in Nat, NEW w \in Worlds, NEW t \in Tasks, Awaits(w, t)
        PROVE  SentTo(w, t)'
    <3>1. /\ batch'[t] = batch[t] /\ stage'[t] = stage[t] /\ batch[t] <= pops /\ stage[t] \in Nat
          /\ batch[t] = pops => stage[t] <= curStage
      BY <1>1, <2>1, <2>4 DEF SentTo, TypeOK, TaskTypes
    <3> QED BY <2>1, <2>4, <3>1 DEF SentTo
  <2> QED BY <2>1, <2>2, <2>3, <2>4 DEF SentOK, SentTo
<1>8. CASE (\E t \in Tasks : GroupTask(t)) \/ \E s \in Sessions : CheckSession(s)
  <2>1. /\ UNCHANGED <<tx, worldQ, pops, curStage, spc>>
        /\ spc = "grouping" /\ ~(StageTasks = {} /\ chk = NoTask)
    <3>1. UNCHANGED <<tx, worldQ, pops, curStage, spc>>
      BY <1>8 DEF GroupTask, CheckSession
    <3>2. spc = "grouping"
      BY <1>8 DEF GroupTask, CheckSession, IdleOK
    <3> QED BY <1>8, <3>1, <3>2 DEF GroupTask, CheckSession
  <2>2. \A w \in Worlds, t \in Tasks : Awaits(w, t)' => Awaits(w, t)
    BY <2>1, LotsSame
  <2>3. ASSUME NEW w \in Worlds, NEW t \in Tasks, Awaits(w, t) PROVE SentTo(w, t)'
    <3>1. /\ batch'[t] = batch[t] /\ stage'[t] = stage[t] /\ batch[t] <= pops
          /\ batch[t] = pops => stage[t] <= curStage /\ stage[t] # curStage
      BY <1>1, <2>1, <2>3 DEF SentTo
    <3> QED BY <2>1, <3>1 DEF SentTo
  <2> QED BY <2>2, <2>3 DEF SentOK, SentTo
<1>9. ASSUME NEW w \in Worlds, DispatchWorld(w) PROVE SentOK'
  <2> PICK q : q = groups[w]
    OBVIOUS
  <2>1. /\ worldQ' = [worldQ EXCEPT ![w] = Append(@, q)] /\ tx' = tx /\ q \in Seq(Tasks)
        /\ UNCHANGED <<spc, curStage, chk, due, pops, batch, stage>> /\ groups' = [groups EXCEPT ![w] = <<>>]
        /\ StageTasks = {} /\ chk = NoTask
    BY <1>9 DEF DispatchWorld, StageGrouped, TypeOK, SchedTypes
  <2>2. groups'[w] = <<>> /\ \A v \in Worlds : groups'[v] \in {groups[v], <<>>}
    BY <2>1 DEF TypeOK, SchedTypes
  <2>3. \A t \in ToSet(q) : SentTo(w, t)'
    <3>1. \A t \in ToSet(q) : batch[t] = pops /\ stage[t] = curStage
      BY DEF GroupedOK, Current
    <3>2. pops <= pops /\ curStage <= curStage
      BY DEF TypeOK, QueueTypes, SchedTypes
    <3> QED BY <1>2, <2>1, <2>2, <3>1, <3>2 DEF SentTo
  <2>4. \A v \in Worlds : \A t : Awaits(v, t)' => Awaits(v, t) \/ (v = w /\ t \in ToSet(q))
    BY <2>1, LotsAppend
  <2>5. \A v \in Worlds, t \in Tasks : Awaits(v, t) => SentTo(v, t)'
    BY <1>3, <2>1, <2>2
  <2>6. \A v \in Worlds, t \in Tasks : Awaits(v, t)' => SentTo(v, t)'
    BY <2>3, <2>4, <2>5
  <2> QED BY <2>6 DEF SentOK, SentTo
<1>10. CASE DispatchGlobals
  <2> PICK q : q = globals
    OBVIOUS
  <2>1. /\ tx' = tx /\ q \in Seq(Tasks)
        /\ UNCHANGED <<spc, curStage, chk, due, pops, batch, stage, groups, sessions>>
        /\ StageTasks = {} /\ chk = NoTask
    BY <1>10 DEF DispatchGlobals, StageGrouped, TypeOK, SchedTypes
  <2>2. CASE worldQ' = worldQ
    BY <1>4, <2>1, <2>2, LotsSame
  <2>3. CASE worldQ' = [worldQ EXCEPT ![DefaultWorld] = Append(@, q)] /\ DefaultWorld \in Worlds
    <3>1. \A w \in Worlds, t \in ToSet(q) : SentTo(w, t)'
      <4>1. \A t \in ToSet(q) : batch[t] = pops /\ stage[t] = curStage /\ sessions[t] = {}
        BY PlacesSettled DEF GroupedOK, Current
      <4>2. pops <= pops /\ curStage <= curStage
        BY DEF TypeOK, QueueTypes, SchedTypes
      <4> QED BY <1>2, <2>1, <4>1, <4>2 DEF SentTo
    <3>2. \A v \in Worlds : \A t : Awaits(v, t)' => Awaits(v, t) \/ t \in ToSet(q)
      BY <2>1, <2>3, LotsAppend
    <3>3. \A v \in Worlds, t \in Tasks : Awaits(v, t) => SentTo(v, t)'
      BY <1>3, <2>1
    <3>4. \A v \in Worlds, t \in Tasks : Awaits(v, t)' => SentTo(v, t)'
      BY <3>1, <3>2, <3>3
    <3> QED BY <3>4 DEF SentOK, SentTo
  <2> QED BY <1>10, <2>2, <2>3, WorldAssumption DEF DispatchGlobals
<1> QED
  BY <1>5, <1>6, <1>7, <1>8, <1>9, <1>10, StepKinds

(* What is appended comes after everything that awaits the world.            *)
LEMMA LineAdd ==
  ASSUME TypeOK, PlacesOK, LotsOK, LineOK, [Next]_vars, NEW w \in Worlds, NEW q \in Seq(Tasks),
         worldQ' = [worldQ EXCEPT ![w] = Append(@, q)], tx' = tx,
         \A t \in Tasks, u \in ToSet(q) : Awaits(w, t) => Before(t, u)',
         \A i, j \in DOMAIN q : i < j => Before(q[i], q[j])'
  PROVE  LineOK'
<1>1. \A v \in Worlds : \A t, u : AheadIn(v, t, u)' =>
              \/ AheadIn(v, t, u)
              \/ v = w /\ Awaits(v, t) /\ u \in ToSet(q)
              \/ v = w /\ \E i, j \in DOMAIN q : i < j /\ t = q[i] /\ u = q[j]
  BY LotsAppend
<1>2. \A v \in Worlds, t, u \in Tasks : AheadIn(v, t, u) => Before(t, u)'
  <2>1. \A v \in Worlds, t \in Tasks : Awaits(v, t) =>
          /\ executeAt'[t] = executeAt[t] /\ sessions'[t] = sessions[t]
          /\ stage'[t] = stage[t] /\ batch'[t] = batch[t]
    BY UnderWayKept DEF LotsOK, Settled
  <2> QED BY <2>1, AwaitsType DEF LineOK, Before
<1> QED BY <1>1, <1>2 DEF LineOK

(* Every step keeps the order in which tasks await a world.                  *)
LEMMA LineNext ==
  ASSUME TypeOK, PlacesOK, LotsOK, GroupedOK, SentOK, LineOK, [Next]_vars
  PROVE  LineOK'
<1>1. \A w \in Worlds, t \in Tasks : Awaits(w, t) =>
        /\ executeAt'[t] = executeAt[t] /\ sessions'[t] = sessions[t]
        /\ stage'[t] = stage[t] /\ batch'[t] = batch[t]
  BY UnderWayKept DEF LotsOK, Settled
<1>2. ASSUME \A w \in Worlds : \A t, u : AheadIn(w, t, u)' => AheadIn(w, t, u) PROVE LineOK'
  BY <1>1, <1>2, AwaitsType DEF LineOK, Before
<1>3. ASSUME UNCHANGED <<tx, worldQ>> PROVE LineOK'
  BY <1>2, <1>3, LotsSame
<1>4. CASE \/ Quiet \/ Wakes \/ PopDue \/ NextStage
           \/ \E t \in Tasks : GroupTask(t)
           \/ \E s \in Sessions : CheckSession(s)
           \/ \E w \in Worlds : Advances(w)
  BY <1>3, <1>4 DEF Quiet, Wakes, PopDue, NextStage, GroupTask, CheckSession, Advances
<1>5. ASSUME NEW w \in Worlds, BeginTx(w) PROVE LineOK'
  BY <1>2, <1>5, LotsBegin
<1>6. ASSUME NEW w \in Worlds, Finishes(w) PROVE LineOK'
  BY <1>2, <1>6, LotsTail DEF Finishes
<1>7. ASSUME NEW w \in Worlds, DispatchWorld(w) PROVE LineOK'
  <2> PICK q : q = groups[w]
    OBVIOUS
  <2>1. /\ worldQ' = [worldQ EXCEPT ![w] = Append(@, q)] /\ tx' = tx /\ q \in Seq(Tasks) /\ q # <<>>
        /\ UNCHANGED <<batch, stage, executeAt, sessions>> /\ spc = "grouping"
    BY <1>7 DEF DispatchWorld, StageGrouped, TypeOK, SchedTypes
  <2>2. \A t \in ToSet(q) : batch[t] = pops /\ stage[t] = curStage /\ sessions[t] # {}
    BY PlacesSettled DEF GroupedOK, Current
  <2>3. /\ \A t \in Tasks : batch[t] \in Nat /\ stage[t] \in Nat /\ executeAt[t] \in Nat
        /\ pops \in Nat /\ curStage \in Nat
    BY DEF TypeOK, TaskTypes, QueueTypes, SchedTypes
  <2>4. ASSUME NEW t \in Tasks, NEW u \in ToSet(q), Awaits(w, t) PROVE Before(t, u)'
    <3>1. /\ batch[t] <= pops
          /\ batch[t] = pops => stage[t] <= curStage /\ (stage[t] = curStage => sessions[t] = {})
      BY <2>1, <2>4 DEF SentOK
    <3> QED BY <2>1, <2>2, <2>3, <3>1 DEF Before
  <2>5. ASSUME NEW i \in DOMAIN q, NEW j \in DOMAIN q, i < j PROVE Before(q[i], q[j])'
    <3>1. q[i] \in ToSet(q) /\ q[j] \in ToSet(q) /\ executeAt[q[i]] <= executeAt[q[j]]
      BY <2>5 DEF GroupedOK, ToSet
    <3> QED BY <2>1, <2>2, <3>1 DEF Before
  <2> QED BY <2>1, <2>4, <2>5, LineAdd
<1>8. CASE DispatchGlobals
  <2> PICK q : q = globals
    OBVIOUS
  <2>1. /\ tx' = tx /\ q \in Seq(Tasks) /\ spc = "grouping"
        /\ UNCHANGED <<batch, stage, executeAt, sessions>>
    BY <1>8 DEF DispatchGlobals, StageGrouped, TypeOK, SchedTypes
  <2>2. CASE worldQ' = worldQ
    BY <1>3, <2>1, <2>2
  <2>3. CASE worldQ' = [worldQ EXCEPT ![DefaultWorld] = Append(@, q)] /\ DefaultWorld \in Worlds
    <3>1. \A t \in ToSet(q) : batch[t] = pops /\ stage[t] = curStage /\ sessions[t] = {}
      BY PlacesSettled DEF GroupedOK, Current
    <3>2. /\ \A t \in Tasks : batch[t] \in Nat /\ stage[t] \in Nat
          /\ pops \in Nat /\ curStage \in Nat
      BY DEF TypeOK, TaskTypes, QueueTypes, SchedTypes
    <3>3. ASSUME NEW t \in Tasks, NEW u \in ToSet(q), Awaits(DefaultWorld, t) PROVE Before(t, u)'
      <4>1. batch[t] <= pops /\ (batch[t] = pops => stage[t] <= curStage)
        BY <2>1, <2>3, <3>3 DEF SentOK
      <4> QED BY <2>1, <3>1, <3>2, <4>1 DEF Before
    <3>4. ASSUME NEW i \in DOMAIN q, NEW j \in DOMAIN q, i < j PROVE Before(q[i], q[j])'
      <4>1. q[i] \in ToSet(q) /\ q[j] \in ToSet(q)
        BY DEF ToSet
      <4> QED BY <2>1, <3>1, <4>1 DEF Before
    <3> QED BY <2>1, <2>3, <3>3, <3>4, LineAdd
  <2> QED BY <1>8, <2>2, <2>3, WorldAssumption DEF DispatchGlobals
<1> QED
  BY <1>4, <1>5, <1>6, <1>7, <1>8, StepKinds

(* Every step keeps the players of a running task in its world.              *)
LEMMA PresentNext ==
  ASSUME TypeOK, PlacesOK, LotsOK, PresentOK, [Next]_vars
  PROVE  PresentOK'
<1>1. ASSUME NEW w \in Worlds, tx[w] # <<>>, Present(Head(tx[w]), w)
      PROVE  \A s \in sessions'[Head(tx[w])] : entityWorld'[s] = w
  <2> PICK t : t = Head(tx[w])
    OBVIOUS
  <2>1. t \in Tasks /\ phase[t] # "unused" /\ sessions[t] \subseteq Sessions
    BY <1>1, AwaitsType DEF LotsOK, Busy, TypeOK, TaskTypes
  <2>2. \A s \in sessions[t] : entityWorld[s] = w
    BY <1>1 DEF Present
  <2>3. sessions'[t] = sessions[t]
    BY <2>1, FieldsKept
  <2> QED BY <1>1, <2>1, <2>2, <2>3, StaysWhileRunning
<1>2. ASSUME \A w \in Worlds : tx'[w] # <<>> /\ phase'[Head(tx'[w])] = "running" =>
                                 tx[w] # <<>> /\ Head(tx'[w]) = Head(tx[w])
                                 /\ (phase[Head(tx[w])] = "running" \/ Present(Head(tx[w]), w))
      PROVE  PresentOK'
  BY <1>1, <1>2 DEF PresentOK, Present
<1>3. \A w \in Worlds : tx[w] # <<>> => Head(tx[w]) \in Tasks /\ Awaits(w, Head(tx[w])) /\ phase[Head(tx[w])] \in Busy
  BY AwaitsType DEF LotsOK
<1>4. ASSUME tx' = tx, \A t \in Tasks : phase[t] \in Busy => phase'[t] = phase[t] PROVE PresentOK'
  BY <1>2, <1>3, <1>4
<1>5. CASE Quiet
  <2>1. tx' = tx /\ \A t \in Tasks : phase[t] \in Busy => phase'[t] = phase[t]
    BY <1>5 DEF Quiet, Settled
  <2> QED BY <1>4, <2>1
<1>6. CASE Wakes \/ PopDue \/ NextStage \/ (\E t \in Tasks : GroupTask(t)) \/ \E s \in Sessions : CheckSession(s)
  <2>1. tx' = tx
    BY <1>6 DEF Wakes, PopDue, NextStage, GroupTask, CheckSession
  <2> QED BY <1>4, <1>6, <2>1, SchedulerMoves
<1>7. ASSUME DispatchGlobals \/ \E w \in Worlds : DispatchWorld(w) PROVE PresentOK'
  <2>1. tx' = tx /\ \E S \in SUBSET Tasks, l \in {"dispatched", "dropped"} :
          phase' = [t \in Tasks |-> IF t \in S THEN l ELSE phase[t]]
    <3>1. CASE DispatchGlobals
      BY <3>1, PlacesSettled DEF DispatchGlobals
    <3>2. ASSUME NEW w \in Worlds, DispatchWorld(w)
          PROVE  tx' = tx /\ phase' = [t \in Tasks |-> IF t \in ToSet(groups[w]) THEN "dispatched" ELSE phase[t]]
      BY <3>2 DEF DispatchWorld
    <3>3. \A w \in Worlds : ToSet(groups[w]) \in SUBSET Tasks
      BY PlacesSettled
    <3> QED BY <1>7, <3>1, <3>2, <3>3
  <2>2. \A t \in Tasks : phase'[t] = "running" => phase[t] = "running"
    BY <2>1
  <2> QED BY <1>2, <1>3, <2>1, <2>2
<1>8. ASSUME NEW w \in Worlds, BeginTx(w) PROVE PresentOK'
  <2>1. tx[w] = <<>> /\ phase' = phase /\ \A v \in Worlds : v # w => tx'[v] = tx[v]
    BY <1>8 DEF BeginTx, TypeOK, WorldTypes
  <2>2. tx'[w] # <<>> => phase[Head(tx'[w])] = "dispatched"
    <3>1. worldQ[w] # <<>> /\ tx'[w] = worldQ[w][1] /\ worldQ[w] \in Seq(Seq(Tasks))
      BY <1>8 DEF BeginTx, TypeOK, WorldTypes
    <3>2. 1 \in Lots(w) /\ Lot(w, 1) = tx'[w] /\ tx'[w] \in Seq(Tasks)
      BY <3>1 DEF Lots, Lot
    <3>3. tx'[w] # <<>> => Head(tx'[w]) \in Tasks /\ Head(tx'[w]) \in ToSet(tx'[w])
      BY <3>2 DEF ToSet
    <3>4. tx'[w] # <<>> => Head(tx'[w]) \in Tasks /\ Awaits(w, Head(tx'[w]))
      BY <3>2, <3>3 DEF Awaits
    <3> QED BY <2>1, <3>4 DEF LotsOK
  <2> QED BY <1>2, <2>1, <2>2
<1>9. ASSUME NEW w \in Worlds, Advances(w) PROVE PresentOK'
  <2> PICK h : h = Head(tx[w])
    OBVIOUS
  <2>1. /\ tx' = tx /\ h \in Tasks /\ Awaits(w, h) /\ (phase'[h] = "running" => Present(h, w))
        /\ tx[w] # <<>> /\ \A t \in Tasks \ {h} : phase[t] \in Busy => phase'[t] = phase[t]
    BY <1>9, AwaitsType DEF Advances, Settled
  <2>2. \A v \in Worlds : v # w /\ tx[v] # <<>> => Head(tx[v]) # h
    BY <1>3, <2>1 DEF LotsOK
  <2> QED BY <1>2, <1>3, <2>1, <2>2
<1>10. ASSUME NEW w \in Worlds, Finishes(w) PROVE PresentOK'
  <2> PICK h : h = Head(tx[w])
    OBVIOUS
  <2>1. /\ h \in Tasks /\ Awaits(w, h) /\ tx[w] # <<>>
        /\ tx' = [tx EXCEPT ![w] = Tail(@)] /\ worldQ' = worldQ
        /\ \A t \in Tasks \ {h} : phase[t] \in Busy => phase'[t] = phase[t]
    BY <1>10, AwaitsType DEF Finishes, Settled
  <2>2. \A v \in Worlds : v # w => tx'[v] = tx[v] /\ (tx[v] # <<>> => Head(tx[v]) # h)
    BY <1>3, <2>1 DEF LotsOK, TypeOK, WorldTypes
  <2>3. ASSUME tx'[w] # <<>> PROVE phase'[Head(tx'[w])] = "dispatched"
    <3>1. tx'[w] = Tail(tx[w]) /\ tx[w] \in Seq(Tasks)
      BY <2>1 DEF TypeOK, WorldTypes
    <3> PICK n : n = Head(tx'[w])
      OBVIOUS
    <3>2. 1 \in DOMAIN tx'[w] /\ n = tx'[w][1]
      BY <2>3, <3>1
    <3>3. 0 \in Lots(w)' /\ Lot(w, 0)' = tx'[w]
      BY <2>1, LotType DEF Lots, Lot
    <3>4. Awaits(w, n)'
      BY <3>2, <3>3 DEF Awaits, ToSet
    <3>5. Awaits(w, n) /\ AheadIn(w, h, n)
      BY <2>1, <3>4, LotsTail
    <3>6. n \in Tasks /\ n # h
      BY <2>1, <3>5, AwaitsType DEF LotsOK
    <3> QED BY <2>1, <3>5, <3>6 DEF LotsOK, Busy
  <2> QED BY <1>2, <1>3, <2>1, <2>2, <2>3
<1> QED
  BY <1>5, <1>6, <1>7, <1>8, <1>9, <1>10, StepKinds

(* What the order in which tasks await a world rests on.                     *)
OrderInv == LotsOK /\ OnceOK /\ IdleOK /\ GroupedOK /\ SentOK /\ LineOK /\ PresentOK

(* The first state: nothing awaits a world.                                  *)
LEMMA OrderInit == Init => OrderInv
<1> SUFFICES ASSUME Init PROVE OrderInv
  OBVIOUS
<1>1. /\ \A w \in Worlds : tx[w] = <<>> /\ worldQ[w] = <<>> /\ groups[w] = <<>>
      /\ due = {} /\ chk = NoTask /\ globals = <<>>
  BY DEF Init
<1>2. \A w \in Worlds : \A k \in Lots(w) : Lot(w, k) = <<>>
  BY <1>1 DEF Lots, Lot
<1>3. \A w \in Worlds : \A t, u : ~Awaits(w, t) /\ ~AheadIn(w, t, u)
  BY <1>2, RangeEmpty DEF Awaits, AheadIn
<1>4. LotsOK /\ SentOK /\ LineOK
  BY <1>3 DEF LotsOK, SentOK, LineOK
<1>5. OnceOK /\ IdleOK /\ GroupedOK /\ PresentOK
  BY <1>1, RangeEmpty DEF OnceOK, NoTwice, IdleOK, GroupedOK, PresentOK
<1> QED BY <1>4, <1>5 DEF OrderInv

(* The invariant of the order is kept by every step.                         *)
LEMMA OrderNext == IInv /\ OrderInv /\ [Next]_vars => OrderInv'
  BY LotsNext, OnceNext, IdleNext, GroupedNext, SentNext, LineNext, PresentNext DEF IInv, OrderInv

(* So it holds in every state.                                               *)
LEMMA OrderHolds == Spec => []OrderInv
<1>1. Init => OrderInv
  BY OrderInit
<1>2. IInv /\ OrderInv /\ [Next]_vars => OrderInv'
  BY OrderNext
<1> QED BY <1>1, <1>2, Inductive, PTL DEF Spec

(* Tasks wait for a world in the order of processTasks: an earlier PopDue    *)
(* first, then an earlier stage, then, with sessions, an earlier executeAt;  *)
(* in every transaction and across the transactions of the world.            *)
THEOREM TasksInOrder == Spec => []WorldOrder
<1>1. IInv /\ OrderInv => WorldOrder
  <2> SUFFICES ASSUME IInv, OrderInv PROVE WorldOrder
    OBVIOUS
  <2>1. ASSUME NEW w \in Worlds, NEW k \in Lots(w), NEW l \in Lots(w),
               NEW i \in DOMAIN Lot(w, k), NEW j \in DOMAIN Lot(w, l), k < l \/ (k = l /\ i < j)
        PROVE  Before(Lot(w, k)[i], Lot(w, l)[j])
    <3>1. AheadIn(w, Lot(w, k)[i], Lot(w, l)[j])
      BY <2>1 DEF AheadIn
    <3> QED BY <3>1, AwaitsType DEF IInv, OrderInv, LineOK
  <2> QED BY <2>1 DEF WorldOrder
<1> QED BY <1>1, OrderHolds, Inductive, PTL

(* Tasks that run at once in two worlds share no session: executeTask has    *)
(* found the players of each in its own transaction, and a player leaves a   *)
(* world only between that world's transactions.                             *)
THEOREM OneWorldAtATime == Spec => []OneWorldPerSession
<1>1. OrderInv => OneWorldPerSession
  BY DEF OrderInv, PresentOK, Present, OneWorldPerSession, RunningTask
<1> QED BY <1>1, OrderHolds, PTL

-----------------------------------------------------------------------------
(* The count of repetitions.                                                 *)

(* A step that neither takes up nor ends a repetition.                       *)
Gone == Final \cup {"returning"}
Ended == {"returning", "ran"}

Onward(t) ==
  /\ phase'[t] = "unused" => phase[t] = "unused"
  /\ wrapper[t] \in Handles => /\ phase[t] \in Gone => phase'[t] \in Gone
                               /\ phase'[t] \in Ended <=> phase[t] \in Ended

(* Such a step keeps the count of repetitions.                               *)
LEMMA RepeatElsewhere ==
  ASSUME RepeatOK, UNCHANGED <<wrapper, times, remaining>>, \A t \in Tasks : Onward(t)
  PROVE  RepeatOK'
<1>1. \A h \in Handles : Live(h)' \subseteq Live(h) /\ Done(h)' = Done(h)
  BY DEF Onward, Live, Done, Gone, Ended
<1>2. \A t \in Tasks : phase'[t] = "unused" => wrapper'[t] = NoHandle
  BY DEF Onward, RepeatOK
<1>3. \A h \in Handles : times'[h] = times[h] /\ remaining'[h] = remaining[h]
  OBVIOUS
<1> QED BY <1>1, <1>2, <1>3 DEF RepeatOK

(* One task goes on, and not to or from the end of a repetition.             *)
LEMMA RepeatOne ==
  ASSUME TypeOK, RepeatOK, UNCHANGED <<wrapper, times, remaining>>, NEW t \in Tasks, NEW l \in Phases,
         phase' = [phase EXCEPT ![t] = l], phase[t] \notin Gone, l \notin Ended, l = "unused" => phase[t] = "unused"
  PROVE  RepeatOK'
<1>1. \A u \in Tasks : phase'[u] = IF u = t THEN l ELSE phase[u]
  BY DEF TypeOK, TaskTypes
<1>2. \A u \in Tasks : Onward(u)
  BY <1>1 DEF Onward, Gone, Ended
<1> QED BY <1>2, RepeatElsewhere

(* ScheduleRepeating: the first repetition of a handle not used before.      *)
LEMMA RepeatBegins ==
  ASSUME TypeOK, RepeatOK, NEW t \in Tasks, NEW h \in Handles, NEW s \in Sessions, NEW at, NEW st,
         NEW n \in RepeatTimes, ScheduleRepeating(t, h, s, at, st, n)
  PROVE  RepeatOK'
<1>1. /\ phase[t] = "unused" /\ times[h] = 0 /\ n # 0 /\ n \in Int
      /\ \A u \in Tasks : phase'[u] = IF u = t THEN "adding" ELSE phase[u]
      /\ \A u \in Tasks : wrapper'[u] = IF u = t THEN h ELSE wrapper[u]
      /\ \A g \in Handles : times'[g] = (IF g = h THEN n ELSE times[g])
                            /\ remaining'[g] = IF g = h THEN n ELSE remaining[g]
  BY RepeatAssumption DEF ScheduleRepeating, Create, TypeOK, TaskTypes, SessionTypes
<1>2. wrapper[t] = NoHandle /\ \A u \in Tasks : wrapper[u] # h
  BY <1>1 DEF RepeatOK
<1>3. Live(h)' = {t} /\ Done(h)' = {}
  BY <1>1, <1>2 DEF Live, Done
<1>4. \A g \in Handles \ {h} : Live(g)' = Live(g) /\ Done(g)' = Done(g)
  BY <1>1, <1>2, TaskAssumption DEF Live, Done
<1>5. Cardinality(Done(h)') = 0 /\ IsFiniteSet(Done(h)')
  BY <1>3, FS_EmptySet
<1>6. \A u \in Tasks : phase'[u] = "unused" => wrapper'[u] = NoHandle
  BY <1>1 DEF RepeatOK
<1>7. /\ times'[h] # 0
      /\ \A u, v \in Live(h)' : u = v
      /\ IsFiniteSet(Done(h)')
      /\ times'[h] > 0 =>
           /\ Cardinality(Done(h)') <= times'[h]
           /\ remaining'[h] >= 1 /\ Cardinality(Done(h)') + remaining'[h] = times'[h]
  BY <1>1, <1>3, <1>5
<1>8. \A g \in Handles \ {h} :
       /\ times'[g] = 0 => \A u \in Tasks : wrapper'[u] # g
       /\ \A u, v \in Live(g)' : u = v
       /\ IsFiniteSet(Done(g)')
       /\ times'[g] > 0 =>
            /\ Cardinality(Done(g)') <= times'[g]
            /\ Live(g)' # {} => remaining'[g] >= 1 /\ Cardinality(Done(g)') + remaining'[g] = times'[g]
  BY <1>1, <1>4 DEF RepeatOK
<1> QED BY <1>6, <1>7, <1>8 DEF RepeatOK

(* The wrapper counts down, and schedules itself again if runs are left.     *)
LEMMA RepeatEnds ==
  ASSUME TypeOK, RepeatOK, NEW w \in Worlds, NEW u \in Tasks, NEW at \in Times, EndRepeating(w, u, at)
  PROVE  RepeatOK'
<1> PICK t : t = Head(tx[w])
  OBVIOUS
<1> PICK h : h = wrapper[t]
  OBVIOUS
<1>1. t \in Tasks /\ phase[t] = "running" /\ h \in Handles /\ times' = times
  BY AwaitsType DEF EndRepeating
<1>2. remaining' = [remaining EXCEPT ![h] = IF h \notin handleCancelled /\ @ > 0 THEN @ - 1 ELSE @]
  BY Zenon DEF EndRepeating
<1>3. /\ remaining[h] \in Int /\ \A g \in Handles \ {h} : remaining'[g] = remaining[g]
      /\ h \notin handleCancelled /\ remaining[h] > 0 => remaining'[h] = remaining[h] - 1
  BY <1>1, <1>2 DEF TypeOK, SessionTypes
<1>4. \/ phase' = [phase EXCEPT ![t] = "returning"] /\ wrapper' = wrapper
      \/ /\ phase[u] = "unused" /\ h \notin handleCancelled /\ remaining[h] # 1
         /\ phase' = [phase EXCEPT ![t] = "returning", ![u] = "adding"]
         /\ wrapper' = [wrapper EXCEPT ![u] = h]
  BY Zenon DEF EndRepeating, Reschedules
<1>5. /\ t \in Live(h) /\ t \notin Done(h) /\ Live(h) = {t} /\ IsFiniteSet(Done(h)) /\ times[h] # 0
      /\ times[h] \in Int /\ Cardinality(Done(h)) \in Nat
  <2>1. t \in Live(h) /\ t \notin Done(h)
    BY <1>1 DEF Live, Done
  <2> QED BY <1>1, <2>1, FS_CardinalityType DEF RepeatOK, TypeOK, SessionTypes
<1>6. IsFiniteSet(Done(h) \cup {t}) /\ Cardinality(Done(h) \cup {t}) = Cardinality(Done(h)) + 1
  BY <1>5, FS_AddElement
<1>7. times[h] > 0 => remaining[h] >= 1 /\ Cardinality(Done(h)) + remaining[h] = times[h]
  BY <1>1, <1>5 DEF RepeatOK
<1>8. CASE phase' = [phase EXCEPT ![t] = "returning"] /\ wrapper' = wrapper
  <2>1. \A v \in Tasks : phase'[v] = IF v = t THEN "returning" ELSE phase[v]
    BY <1>8 DEF TypeOK, TaskTypes
  <2>2. Done(h)' = Done(h) \cup {t} /\ Live(h)' = {}
    BY <1>1, <1>5, <1>8, <2>1 DEF Done, Live
  <2>3. \A g \in Handles \ {h} : Live(g)' = Live(g) /\ Done(g)' = Done(g)
    BY <1>8, <2>1 DEF Done, Live
  <2>4. \A v \in Tasks : phase'[v] = "unused" => wrapper'[v] = NoHandle
    BY <1>8, <2>1 DEF RepeatOK
  <2>5. /\ times'[h] # 0 /\ Live(h)' = {} /\ IsFiniteSet(Done(h)')
        /\ times'[h] > 0 => Cardinality(Done(h)') <= times'[h]
    BY <1>1, <1>3, <1>5, <1>6, <1>7, <2>2
  <2>6. \A g \in Handles \ {h} :
         /\ times'[g] = 0 => \A v \in Tasks : wrapper'[v] # g
         /\ \A v, x \in Live(g)' : v = x
         /\ IsFiniteSet(Done(g)')
         /\ times'[g] > 0 =>
              /\ Cardinality(Done(g)') <= times'[g]
              /\ Live(g)' # {} => remaining'[g] >= 1 /\ Cardinality(Done(g)') + remaining'[g] = times'[g]
    BY <1>1, <1>3, <1>8, <2>3 DEF RepeatOK
  <2> QED BY <2>4, <2>5, <2>6 DEF RepeatOK
<1>9. CASE /\ phase[u] = "unused" /\ h \notin handleCancelled /\ remaining[h] # 1
           /\ phase' = [phase EXCEPT ![t] = "returning", ![u] = "adding"]
           /\ wrapper' = [wrapper EXCEPT ![u] = h]
  <2>1. u # t /\ wrapper[u] = NoHandle
    BY <1>1, <1>9 DEF RepeatOK
  <2>2. /\ \A v \in Tasks : phase'[v] = IF v = t THEN "returning" ELSE IF v = u THEN "adding" ELSE phase[v]
        /\ \A v \in Tasks : wrapper'[v] = IF v = u THEN h ELSE wrapper[v]
    BY <1>9, <2>1 DEF TypeOK, TaskTypes
  <2>3. Done(h)' = Done(h) \cup {t} /\ Live(h)' = {u}
    <3>1. u \notin Done(h)
      BY <1>1, <2>1, TaskAssumption DEF Done
    <3>2. Done(h)' = Done(h) \cup {t}
      BY <1>1, <2>1, <2>2, <3>1 DEF Done
    <3>3. Live(h)' = {u}
      BY <1>1, <1>5, <2>1, <2>2 DEF Live
    <3> QED BY <3>2, <3>3
  <2>4. \A g \in Handles \ {h} : Live(g)' = Live(g) /\ Done(g)' = Done(g)
    BY <2>1, <2>2, TaskAssumption DEF Done, Live
  <2>5. \A v \in Tasks : phase'[v] = "unused" => wrapper'[v] = NoHandle
    BY <2>2 DEF RepeatOK
  <2>6. /\ times'[h] # 0 /\ (\A v, x \in Live(h)' : v = x) /\ IsFiniteSet(Done(h)')
        /\ times'[h] > 0 =>
             /\ Cardinality(Done(h)') <= times'[h]
             /\ remaining'[h] >= 1 /\ Cardinality(Done(h)') + remaining'[h] = times'[h]
    BY <1>1, <1>3, <1>5, <1>6, <1>7, <1>9, <2>3
  <2>7. \A g \in Handles \ {h} :
         /\ times'[g] = 0 => \A v \in Tasks : wrapper'[v] # g
         /\ \A v, x \in Live(g)' : v = x
         /\ IsFiniteSet(Done(g)')
         /\ times'[g] > 0 =>
              /\ Cardinality(Done(g)') <= times'[g]
              /\ Live(g)' # {} => remaining'[g] >= 1 /\ Cardinality(Done(g)') + remaining'[g] = times'[g]
    BY <1>1, <1>3, <2>2, <2>4 DEF RepeatOK
  <2> QED BY <2>5, <2>6, <2>7 DEF RepeatOK
<1> QED BY <1>4, <1>8, <1>9

(* Every step keeps the count of repetitions.                                *)
LEMMA RepeatNext ==
  ASSUME TypeOK, PlacesOK, RepeatOK, [Next]_vars
  PROVE  RepeatOK'
<1>1. ASSUME UNCHANGED <<phase, wrapper, times, remaining>> PROVE RepeatOK'
  BY <1>1 DEF RepeatOK, Live, Done
<1>2. ASSUME ClockStep PROVE RepeatOK'
  <2>1. UNCHANGED <<phase, wrapper, times, remaining>>
    BY <1>2 DEF ClockStep
  <2> QED BY <1>1, <2>1
<1>3. ASSUME SchedulerStep PROVE RepeatOK'
  <2>1. ASSUME RecvTick \/ RecvNotify \/ ReadClock \/ NextStage PROVE RepeatOK'
    <3>1. UNCHANGED <<phase, wrapper, times, remaining>>
      BY <2>1 DEF RecvTick, RecvNotify, ReadClock, NextStage
    <3> QED BY <1>1, <3>1
  <2>2. ASSUME PopDue PROVE RepeatOK'
    <3>1. UNCHANGED <<wrapper, times, remaining>>
      BY <2>2 DEF PopDue
    <3>2. \A t \in Tasks : phase'[t] = phase[t] \/ (phase[t] = "queued" /\ phase'[t] \in {"discarded", "due"})
      BY <2>2 DEF PopDue, DueAt, PlacesOK
    <3>3. \A t \in Tasks : Onward(t)
      BY <3>2 DEF Onward, Gone, Ended
    <3> QED BY <3>1, <3>3, RepeatElsewhere
  <2>3. ASSUME NEW t \in Tasks, GroupTask(t) PROVE RepeatOK'
    <3>1. UNCHANGED <<wrapper, times, remaining>> /\ phase[t] = "due"
      BY <2>3, PlacesSettled DEF GroupTask, StageTasks
    <3>2. \E l \in {"discarded", "grouped", "checking"} : phase' = [phase EXCEPT ![t] = l]
      BY <2>3 DEF GroupTask
    <3> QED BY <3>1, <3>2, RepeatOne DEF Gone, Ended
  <2>4. ASSUME NEW s \in Sessions, CheckSession(s) PROVE RepeatOK'
    <3>1. UNCHANGED <<wrapper, times, remaining>> /\ chk \in Tasks /\ phase[chk] = "checking"
      BY <2>4, PlacesSettled DEF CheckSession
    <3>2. \E l \in {"dropped", "grouped", "checking"} : phase' = [phase EXCEPT ![chk] = l]
      BY <2>4, <3>1 DEF CheckSession
    <3> QED BY <3>1, <3>2, RepeatOne DEF Gone, Ended
  <2>5. ASSUME DispatchGlobals \/ \E w \in Worlds : DispatchWorld(w) PROVE RepeatOK'
    <3>1. UNCHANGED <<wrapper, times, remaining>>
      BY <2>5 DEF DispatchGlobals, DispatchWorld
    <3>2. \A t \in Tasks : phase'[t] = phase[t] \/ (phase[t] = "grouped" /\ phase'[t] \in {"dispatched", "dropped"})
      BY <2>5, PlacesSettled DEF DispatchGlobals, DispatchWorld
    <3>3. \A t \in Tasks : Onward(t)
      BY <3>2 DEF Onward, Gone, Ended
    <3> QED BY <3>1, <3>3, RepeatElsewhere
  <2> QED BY <1>3, <2>1, <2>2, <2>3, <2>4, <2>5 DEF SchedulerStep
<1>4. ASSUME NEW w \in Worlds, BeginTx(w) PROVE RepeatOK'
  <2>1. UNCHANGED <<phase, wrapper, times, remaining>>
    BY <1>4 DEF BeginTx
  <2> QED BY <1>1, <2>1
<1>5. ASSUME NEW w \in Worlds, PickTask(w) PROVE RepeatOK'
  <2> PICK t : t = Head(tx[w])
    OBVIOUS
  <2>1. UNCHANGED <<wrapper, times, remaining>> /\ t \in Tasks /\ phase[t] = "dispatched"
    BY <1>5, AwaitsType DEF PickTask
  <2>2. \E l \in {"discarded", "picked"} : phase' = [phase EXCEPT ![t] = l]
    BY <1>5 DEF PickTask
  <2> QED BY <2>1, <2>2, RepeatOne DEF Gone, Ended
<1>6. ASSUME NEW w \in Worlds, StartTask(w) PROVE RepeatOK'
  <2> PICK t : t = Head(tx[w])
    OBVIOUS
  <2>1. UNCHANGED <<wrapper, times, remaining>> /\ t \in Tasks /\ phase[t] = "picked"
    BY <1>6, AwaitsType DEF StartTask
  <2>2. \E l \in {"dropped", "leaving", "running"} : phase' = [phase EXCEPT ![t] = l]
    BY <1>6 DEF StartTask
  <2> QED BY <2>1, <2>2, RepeatOne DEF Gone, Ended
<1>7. ASSUME NEW w \in Worlds, EndTask(w) PROVE RepeatOK'
  <2> PICK t : t = Head(tx[w])
    OBVIOUS
  <2>1. /\ UNCHANGED <<wrapper, times, remaining>> /\ t \in Tasks /\ phase[t] = "running" /\ wrapper[t] = NoHandle
        /\ phase' = [phase EXCEPT ![t] = "returning"]
    BY <1>7, AwaitsType DEF EndTask
  <2>2. \A v \in Tasks : phase'[v] = IF v = t THEN "returning" ELSE phase[v]
    BY <2>1 DEF TypeOK, TaskTypes
  <2>3. \A v \in Tasks : Onward(v)
    BY <2>1, <2>2, TaskAssumption DEF Onward
  <2> QED BY <2>1, <2>3, RepeatElsewhere
<1>8. ASSUME NEW w \in Worlds, RemoveTask(w) PROVE RepeatOK'
  <2> PICK t : t = Head(tx[w])
    OBVIOUS
  <2>1. /\ UNCHANGED <<wrapper, times, remaining>> /\ t \in Tasks /\ phase[t] \in {"returning", "leaving"}
        /\ phase' = [phase EXCEPT ![t] = IF @ = "returning" THEN "ran" ELSE "skipped"]
    BY <1>8, AwaitsType DEF RemoveTask
  <2>2. \A v \in Tasks : phase'[v] = IF v # t THEN phase[v] ELSE IF phase[t] = "returning" THEN "ran" ELSE "skipped"
    BY <2>1 DEF TypeOK, TaskTypes
  <2>3. \A v \in Tasks : Onward(v)
    BY <2>1, <2>2 DEF Onward, Gone, Ended
  <2> QED BY <2>1, <2>3, RepeatElsewhere
<1>9. ASSUME NEW t \in Tasks, CallerStep(t) PROVE RepeatOK'
  <2>1. CASE Push(t)
    <3>1. UNCHANGED <<wrapper, times, remaining>> /\ phase[t] = "adding" /\ phase' = [phase EXCEPT ![t] = "queued"]
      BY <2>1 DEF Push
    <3> QED BY <3>1, RepeatOne DEF Gone, Ended
  <2>2. CASE PushNotify(t) \/ \E s \in Sessions : AddTask(t, s)
    <3>1. UNCHANGED <<phase, wrapper, times, remaining>>
      BY <2>2 DEF PushNotify, AddTask
    <3> QED BY <1>1, <3>1
  <2> QED BY <1>9, <2>1, <2>2 DEF CallerStep
<1>10. ASSUME EnvStep PROVE RepeatOK'
  <2>1. ASSUME NEW t \in Tasks, NEW ss, NEW at, NEW st, Schedule(t, ss, at, st) PROVE RepeatOK'
    <3>1. /\ phase[t] = "unused" /\ phase' = [phase EXCEPT ![t] = "adding"] /\ UNCHANGED <<times, remaining>>
          /\ wrapper' = [wrapper EXCEPT ![t] = NoHandle]
      BY <2>1 DEF Schedule, Create
    <3>2. wrapper' = wrapper
      BY <3>1 DEF RepeatOK, TypeOK, TaskTypes
    <3>3. phase[t] \notin Gone /\ "adding" \notin Ended /\ "adding" \in Phases
      BY <3>1 DEF Gone, Ended
    <3> QED BY <3>1, <3>2, <3>3, RepeatOne
  <2>2. ASSUME NEW u, Cancel(u) \/ CancelRepeating(u) \/ CloseSwap(u) \/ CloseStep(u) PROVE RepeatOK'
    <3>1. UNCHANGED <<phase, wrapper, times, remaining>>
      BY <2>2 DEF Cancel, CancelRepeating, CloseSwap, CloseStep, CloseTake, CloseDone, CloseCancel
    <3> QED BY <1>1, <3>1
  <2>3. ASSUME NEW s, LeaveWorld(s) \/ UpdateWorldCache(s) \/ \E w \in Worlds : EnterWorld(s, w) PROVE RepeatOK'
    <3>1. UNCHANGED <<phase, wrapper, times, remaining>>
      BY <2>3 DEF LeaveWorld, UpdateWorldCache, EnterWorld
    <3> QED BY <1>1, <3>1
  <2> QED BY <1>10, <2>1, <2>2, <2>3, RepeatBegins DEF EnvStep
<1>11. ASSUME UNCHANGED vars PROVE RepeatOK'
  <2>1. UNCHANGED <<phase, wrapper, times, remaining>>
    BY <1>11 DEF vars
  <2> QED BY <1>1, <2>1
<1> QED
  BY <1>2, <1>3, <1>4, <1>5, <1>6, <1>7, <1>8, <1>9, <1>10, <1>11, RepeatEnds DEF Next, WorldStep

(* No repeating task yet.                                                    *)
LEMMA RepeatInit == Init => RepeatOK
<1> SUFFICES ASSUME Init PROVE RepeatOK
  OBVIOUS
<1>1. \A t \in Tasks : wrapper[t] = NoHandle
  BY DEF Init
<1>2. \A h \in Handles : times[h] = 0 /\ Live(h) = {} /\ Done(h) = {}
  BY <1>1, TaskAssumption DEF Init, Live, Done
<1>3. \A h \in Handles : IsFiniteSet(Done(h))
  BY <1>2, FS_EmptySet
<1> QED BY <1>1, <1>2, <1>3, TaskAssumption DEF RepeatOK

(* A set in which all elements are equal has at most one.                    *)
LEMMA AtMostOne ==
  ASSUME NEW S, \A x, y \in S : x = y
  PROVE  IsFiniteSet(S) /\ Cardinality(S) <= 1
<1>1. CASE S = {}
  BY <1>1, FS_EmptySet
<1>2. ASSUME NEW x \in S PROVE IsFiniteSet(S) /\ Cardinality(S) <= 1
  <2>1. S = {x}
    OBVIOUS
  <2>2. IsFiniteSet({x}) /\ Cardinality({x}) = 1
    BY FS_Singleton
  <2> QED BY <2>1, <2>2
<1> QED BY <1>1, <1>2

(* A repeating task has at most one repetition waiting, and has not run more *)
(* often than ScheduleRepeating was told, whoever cancels or closes when.    *)
THEOREM RepeatsStayBounded == Spec => []RepeatsBounded
<1>1. Init => RepeatOK
  BY RepeatInit
<1>2. IInv /\ RepeatOK /\ [Next]_vars => RepeatOK'
  BY RepeatNext DEF IInv
<1>3. IInv /\ RepeatOK => RepeatsBounded
  <2> SUFFICES ASSUME IInv, RepeatOK, NEW h \in Handles
               PROVE  Cardinality(AheadOf(h)) <= 1 /\ (times[h] > 0 => RunsOf(h) <= times[h])
    BY DEF RepeatsBounded
  <2>1. \A t, u \in Live(h) : t = u
    BY DEF RepeatOK
  <2>2. Cardinality(AheadOf(h)) <= 1
    <3>1. AheadOf(h) \subseteq Live(h)
      BY DEF AheadOf, Live, Started
    <3> QED BY <2>1, <3>1, AtMostOne
  <2>3. ASSUME times[h] > 0 PROVE RunsOf(h) <= times[h]
    <3> PICK R : R = {t \in Tasks : wrapper[t] = h /\ phase[t] \in Started}
      OBVIOUS
    <3>1. /\ IsFiniteSet(Done(h)) /\ Cardinality(Done(h)) \in Nat /\ Cardinality(Done(h)) <= times[h]
          /\ times[h] \in Int /\ remaining[h] \in Int
          /\ Live(h) # {} => remaining[h] >= 1 /\ Cardinality(Done(h)) + remaining[h] = times[h]
      BY <2>3, FS_CardinalityType DEF RepeatOK, IInv, TypeOK, SessionTypes
    <3>2. RunsOf(h) = Cardinality(R)
      BY DEF RunsOf
    <3>3. CASE \E t \in R : phase[t] = "running"
      <4>1. PICK t \in R : phase[t] = "running"
        BY <3>3
      <4>2. t \in Live(h) /\ R = Done(h) \cup {t} /\ t \notin Done(h)
        BY <2>1, <4>1 DEF Live, Done, Started
      <4>3. Cardinality(Done(h) \cup {t}) = Cardinality(Done(h)) + 1
        BY <3>1, <4>2, FS_AddElement
      <4>4. Live(h) # {}
        BY <4>2
      <4>5. RunsOf(h) = Cardinality(Done(h)) + 1
        BY <3>2, <4>2, <4>3
      <4> QED BY <3>1, <4>4, <4>5
    <3>4. CASE ~\E t \in R : phase[t] = "running"
      <4>1. R = Done(h)
        BY <3>4 DEF Done, Started
      <4> QED BY <3>1, <3>2, <4>1
    <3> QED BY <3>3, <3>4
  <2> QED BY <2>2, <2>3
<1> QED BY <1>1, <1>2, <1>3, Inductive, PTL DEF Spec

=============================================================================
