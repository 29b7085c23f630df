-------------------------------- MODULE Tasks --------------------------------
(****************************************************************************)
(* Scheduled tasks of PECS: the Schedule functions and the task queue of    *)
(* task.go, the scheduler's processTasks of scheduler.go, the transactions  *)
(* that run the tasks on the worlds' goroutines, and the part of a          *)
(* session's close (session.go) that cancels what is still pending.         *)
(*                                                                          *)
(* The actors are: callers of the Schedule functions and of Cancel, the     *)
(* goroutine of tickLoop, one goroutine per world, the goroutines that      *)
(* close sessions, and the server that moves players between worlds.        *)
(*                                                                          *)
(* Component masks and injected data are abstracted: whether a task passes  *)
(* canRun and injectSystem when its turn comes is a free choice.            *)
(****************************************************************************)
EXTENDS Integers, SequencesExt

CONSTANTS
  Sessions,      \* sessions of the manager
  Worlds,        \* worlds that run transactions
  Tasks,         \* identities of scheduledTask objects
  Targets,       \* the sets of sessions tasks are scheduled for, {} for global ones
  Handles,       \* identities of RepeatingTaskHandle objects
  NumStages,     \* stageCount: Before, Default, After
  MaxTime,       \* bound on the clock
  MaxMoves,      \* bound on the moves of players between worlds
  Mortal,        \* bound: the sessions that may be closed
  Cancellable,   \* bound: the tasks whose handle may be cancelled
  RepeatTimes,   \* values of "times" given to ScheduleRepeating
  DefaultWorld,  \* s.worlds[0], NoWorld when Init() was given no world
  PayloadTasks,  \* tasks whose type has payload fields
  Fieldless,     \* handles whose inner task has no field that is injected
  NoWorld, NoTask, NoHandle, NoTick

ASSUME StagesAssumption == NumStages \in Nat \ {0}
ASSUME TimeAssumption == MaxTime \in Nat
ASSUME MovesAssumption == MaxMoves \in Nat
ASSUME RepeatAssumption == RepeatTimes \subseteq Int
ASSUME WorldAssumption == NoWorld \notin Worlds /\ DefaultWorld \in Worlds \cup {NoWorld}
ASSUME TaskAssumption == NoTask \notin Tasks /\ NoHandle \notin Handles
ASSUME BoundAssumption == Mortal \subseteq Sessions /\ Cancellable \subseteq Tasks
ASSUME TargetAssumption == Targets \subseteq SUBSET Sessions
ASSUME TickAssumption == NoTick \notin Nat

VARIABLES
  now,           \* the clock
  tickC,         \* the buffered channel of the time.Ticker
  phase,         \* how far a scheduledTask has come
  executeAt, sessions, stage, wrapper,   \* its fields; wrapper: its handle, if repeating
  cancelled,     \* its atomic flag
  toAdd,         \* sessions whose addTask the Schedule call has yet to call
  notifying,     \* tasks pushed whose Push has yet to signal notif
  payload,       \* tasks whose payload fields hold the caller's values
  heap,          \* contents of the taskQueue
  notif,         \* taskQueue.notif holds a signal
  prompt,        \* tasks already due when they were pushed (history)
  pops, batch,   \* how many PopDue returned tasks, and which returned a task (history)
  spc, stamp,    \* tickLoop: where it is, the "now" it works with
  due, curStage, \* processTasks: tasks of dueTasks not yet looked at, the stage
  chk, chkLeft, chkWorld,  \* executeTasksForStage: task, its sessions, taskWorld
  groups, globals,         \* worldTasks and globalTasks
  worldQ,        \* transactions given to World.Exec and not begun
  tx,            \* tasks left in the transaction a world is running
  child,         \* the task a repeating task is rescheduling itself as
  pendingTasks,  \* Session.pendingTasks
  closing, toCancel,       \* Session.close: where it is, the list it took
  entityWorld,   \* the world the player's entity is in
  worldCache,    \* Session.worldCache
  moves,
  times, remaining,        \* of a handle: what ScheduleRepeating was given, what is left
  handleCancelled,
  crashed        \* the process died

clockVars   == <<now, tickC>>
fieldVars   == <<executeAt, sessions, stage, wrapper>>
queueVars   == <<heap, notif, prompt, pops, batch>>
schedVars   == <<spc, stamp, due, curStage, chk, chkLeft, chkWorld, groups, globals>>
worldVars   == <<worldQ, tx, child>>
sessionVars == <<pendingTasks, closing, toCancel>>
moveVars    == <<entityWorld, worldCache, moves>>
repeatVars  == <<times, remaining, handleCancelled>>
vars == <<clockVars, phase, fieldVars, cancelled, toAdd, notifying, payload,
          queueVars, schedVars, worldVars, sessionVars, moveVars, repeatVars, crashed>>

Times  == 0 .. MaxTime
Stages == 1 .. NumStages

(* A task is "adding" while Schedule calls addTask, "queued" once pushed,    *)
(* "due" once popped, "checking" while its sessions are looked at,           *)
(* "grouped" once put in a group, "dispatched" once its transaction is       *)
(* enqueued, "picked" once its transaction has seen it is not cancelled,     *)
(* "running" while its Run runs, "returning" or "leaving" until removeTask.  *)
(* "discarded": seen cancelled; "dropped": given up silently; "skipped": a   *)
(* repeating task that found its handle cancelled.                           *)
Final   == {"ran", "skipped", "discarded", "dropped"}
Phases  == {"unused", "adding", "queued", "due", "checking", "grouped", "dispatched",
            "picked", "running", "returning", "leaving"} \cup Final
Created == Phases \ {"unused"}
Started == {"running", "returning", "ran"}

Closed(s) == closing[s] # "open"

TaskTypes ==
  /\ phase \in [Tasks -> Phases]
  /\ executeAt \in [Tasks -> Times]
  /\ sessions \in [Tasks -> SUBSET Sessions]
  /\ stage \in [Tasks -> Stages]
  /\ wrapper \in [Tasks -> Handles \cup {NoHandle}]
  /\ cancelled \in [Tasks -> BOOLEAN]
  /\ toAdd \in [Tasks -> SUBSET Sessions]
  /\ notifying \in SUBSET Tasks /\ payload \in SUBSET Tasks

QueueTypes ==
  /\ now \in Times /\ tickC \in Times \cup {NoTick}
  /\ heap \in SUBSET Tasks /\ notif \in BOOLEAN /\ prompt \in SUBSET Tasks
  /\ pops \in Nat /\ batch \in [Tasks -> Nat]

SchedTypes ==
  /\ spc \in {"select", "woken", "popping", "grouping"}
  /\ stamp \in Times /\ due \in SUBSET Tasks /\ curStage \in Stages
  /\ chk \in Tasks \cup {NoTask} /\ chkLeft \in SUBSET Sessions
  /\ chkWorld \in Worlds \cup {NoWorld}
  /\ groups \in [Worlds -> Seq(Tasks)] /\ globals \in Seq(Tasks)

WorldTypes ==
  /\ worldQ \in [Worlds -> Seq(Seq(Tasks))] /\ tx \in [Worlds -> Seq(Tasks)]
  /\ child \in [Worlds -> Tasks \cup {NoTask}]

SessionTypes ==
  /\ pendingTasks \in [Sessions -> SUBSET Tasks]
  /\ closing \in [Sessions -> {"open", "swapped", "taken", "done"}]
  /\ toCancel \in [Sessions -> SUBSET Tasks]
  /\ entityWorld \in [Sessions -> Worlds \cup {NoWorld}]
  /\ worldCache \in [Sessions -> Worlds \cup {NoWorld}]
  /\ moves \in 0 .. MaxMoves
  /\ times \in [Handles -> Int] /\ remaining \in [Handles -> Int]
  /\ handleCancelled \in SUBSET Handles
  /\ crashed \in BOOLEAN

TypeOK == TaskTypes /\ QueueTypes /\ SchedTypes /\ WorldTypes /\ SessionTypes

Init ==
  /\ now = 0 /\ tickC = NoTick
  /\ phase = [t \in Tasks |-> "unused"]
  /\ executeAt = [t \in Tasks |-> 0]
  /\ sessions = [t \in Tasks |-> {}]
  /\ stage = [t \in Tasks |-> 1]
  /\ wrapper = [t \in Tasks |-> NoHandle]
  /\ cancelled = [t \in Tasks |-> FALSE]
  /\ toAdd = [t \in Tasks |-> {}]
  /\ notifying = {} /\ payload = {}
  /\ heap = {} /\ notif = FALSE /\ prompt = {} /\ pops = 0
  /\ batch = [t \in Tasks |-> 0]
  /\ spc = "select" /\ stamp = 0 /\ due = {} /\ curStage = 1
  /\ chk = NoTask /\ chkLeft = {} /\ chkWorld = NoWorld
  /\ groups = [w \in Worlds |-> <<>>] /\ globals = <<>>
  /\ worldQ = [w \in Worlds |-> <<>>] /\ tx = [w \in Worlds |-> <<>>]
  /\ child = [w \in Worlds |-> NoTask]
  /\ pendingTasks = [s \in Sessions |-> {}]
  /\ closing = [s \in Sessions |-> "open"] /\ toCancel = [s \in Sessions |-> {}]
  /\ entityWorld \in [Sessions -> Worlds] /\ worldCache \in [Sessions -> Worlds \cup {NoWorld}]
  /\ \A s \in Sessions : worldCache[s] \in {NoWorld, entityWorld[s]}
  /\ moves = 0
  /\ times = [h \in Handles |-> 0] /\ remaining = times /\ handleCancelled = {}
  /\ crashed = FALSE

-----------------------------------------------------------------------------
(* The Schedule functions and the task queue, task.go.                       *)

(* A scheduledTask comes into being: everything up to the first addTask.     *)
Create(t, ss, at, st, h) ==
  /\ phase[t] = "unused"
  /\ phase' = [phase EXCEPT ![t] = "adding"]
  /\ executeAt' = [executeAt EXCEPT ![t] = at]
  /\ sessions' = [sessions EXCEPT ![t] = ss]
  /\ stage' = [stage EXCEPT ![t] = st]
  /\ wrapper' = [wrapper EXCEPT ![t] = h]
  /\ toAdd' = [toAdd EXCEPT ![t] = ss]
  /\ payload' = payload \cup ({t} \cap PayloadTasks)

(* Schedule, Schedule2 and ScheduleAt give up when a session is closed.      *)
(* ScheduleGlobal has no session. "at" is in the past for some ScheduleAt.   *)
Schedule(t, ss, at, st) ==
  /\ \A s \in ss : ~Closed(s)
  /\ Create(t, ss, at, st, NoHandle)
  /\ UNCHANGED <<clockVars, cancelled, notifying, queueVars, schedVars, worldVars,
                 sessionVars, moveVars, repeatVars, crashed>>

ScheduleRepeating(t, h, s, at, st, n) ==
  /\ ~Closed(s) /\ n # 0
  /\ times[h] = 0
  /\ Create(t, {s}, at, st, h)
  /\ times' = [times EXCEPT ![h] = n]
  /\ remaining' = [remaining EXCEPT ![h] = n]
  /\ UNCHANGED <<clockVars, cancelled, notifying, queueVars, schedVars, worldVars,
                 sessionVars, moveVars, handleCancelled, crashed>>

AddTask(t, s) ==
  /\ phase[t] = "adding" /\ s \in toAdd[t]
  /\ toAdd' = [toAdd EXCEPT ![t] = @ \ {s}]
  /\ pendingTasks' = [pendingTasks EXCEPT ![s] = @ \cup {t}]
  /\ UNCHANGED <<clockVars, phase, fieldVars, cancelled, notifying, payload, queueVars,
                 schedVars, worldVars, closing, toCancel, moveVars, repeatVars, crashed>>

(* Push inserts under the lock and signals after it, without blocking.       *)
Push(t) ==
  /\ phase[t] = "adding" /\ toAdd[t] = {}
  /\ phase' = [phase EXCEPT ![t] = "queued"]
  /\ heap' = heap \cup {t}
  /\ notifying' = notifying \cup {t}
  /\ prompt' = IF executeAt[t] <= now THEN prompt \cup {t} ELSE prompt
  /\ UNCHANGED <<clockVars, fieldVars, cancelled, toAdd, payload, notif, pops, batch, schedVars,
                 worldVars, sessionVars, moveVars, repeatVars, crashed>>

PushNotify(t) ==
  /\ t \in notifying
  /\ notif' = TRUE
  /\ notifying' = notifying \ {t}
  /\ UNCHANGED <<clockVars, phase, fieldVars, cancelled, toAdd, payload, heap, prompt, pops, batch,
                 schedVars, worldVars, sessionVars, moveVars, repeatVars, crashed>>

(* A caller holds a handle once its Schedule call has returned.              *)
Cancel(t) ==
  /\ phase[t] \notin {"unused", "adding"} /\ t \notin notifying
  /\ wrapper[t] = NoHandle /\ ~cancelled[t]
  /\ cancelled' = [cancelled EXCEPT ![t] = TRUE]
  /\ UNCHANGED <<clockVars, phase, fieldVars, toAdd, notifying, payload, queueVars,
                 schedVars, worldVars, sessionVars, moveVars, repeatVars, crashed>>

(* The first task is pushed by the call that returns the handle, every later *)
(* one by the wrapper's Run, beside which the handle may be cancelled.       *)
CancelRepeating(h) ==
  /\ times[h] # 0 /\ h \notin handleCancelled
  /\ \A t \in Tasks : wrapper[t] = h /\ (phase[t] = "adding" \/ t \in notifying)
                      => \E w \in Worlds : child[w] = t
  /\ handleCancelled' = handleCancelled \cup {h}
  /\ UNCHANGED <<clockVars, phase, fieldVars, cancelled, toAdd, notifying, payload,
                 queueVars, schedVars, worldVars, sessionVars, moveVars, remaining,
                 times, crashed>>

-----------------------------------------------------------------------------
(* tickLoop and processTasks, scheduler.go, on one goroutine.                *)

schedRest == <<now, fieldVars, cancelled, toAdd, notifying, payload, sessionVars,
               moveVars, repeatVars, crashed>>

(* The ticker drops a tick nobody has received yet.                          *)
ClockStep ==
  /\ ~crashed
  /\ now' = IF now < MaxTime THEN now + 1 ELSE now
  /\ tickC' = IF tickC = NoTick THEN now' ELSE tickC
  /\ UNCHANGED <<phase, fieldVars, cancelled, toAdd, notifying, payload, queueVars,
                 schedVars, worldVars, sessionVars, moveVars, repeatVars, crashed>>

(* Receiving a tick leads to processTasks(now) with the tick's own time; the *)
(* loops that tick runs before take their time and leave the tasks alone.    *)
RecvTick ==
  /\ spc = "select" /\ tickC # NoTick
  /\ stamp' = tickC /\ tickC' = NoTick /\ spc' = "popping"
  /\ UNCHANGED <<schedRest, phase, queueVars, due, curStage, chk, chkLeft, chkWorld,
                 groups, globals, worldVars>>

RecvNotify ==
  /\ spc = "select" /\ notif
  /\ notif' = FALSE /\ spc' = "woken"
  /\ UNCHANGED <<schedRest, tickC, phase, heap, prompt, pops, batch, stamp, due, curStage, chk, chkLeft,
                 chkWorld, groups, globals, worldVars>>

(* Mutant: tasks woken by a signal are judged by the time of the last tick.  *)
LastStamp == stamp

WakeTime == now

ReadClock ==
  /\ spc = "woken"
  /\ stamp' = WakeTime /\ spc' = "popping"
  /\ UNCHANGED <<schedRest, tickC, phase, queueVars, due, curStage, chk, chkLeft, chkWorld,
                 groups, globals, worldVars>>

DueAt(time) == {t \in heap : executeAt[t] <= time}

(* Mutant: PopDue leaves in the queue what it returns.                       *)
HeapKept(time) == heap

HeapAfter(time) == heap \ DueAt(time)

PopDue ==
  /\ spc = "popping"
  /\ heap' = HeapAfter(stamp)
  /\ due' = {t \in DueAt(stamp) : ~cancelled[t]}
  /\ phase' = [t \in Tasks |-> IF t \notin DueAt(stamp) THEN phase[t]
                               ELSE IF cancelled[t] THEN "discarded" ELSE "due"]
  /\ pops' = IF due' = {} THEN pops ELSE pops + 1
  /\ batch' = [t \in Tasks |-> IF t \in due' THEN pops' ELSE batch[t]]
  /\ curStage' = 1
  /\ spc' = IF due' = {} THEN "select" ELSE "grouping"
  /\ UNCHANGED <<schedRest, tickC, notif, prompt, stamp, chk, chkLeft, chkWorld, groups,
                 globals, worldVars>>

StageTasks == {t \in due : stage[t] = curStage}

(* executeTasksForStage looks at the tasks in the order PopDue gave them.    *)
GroupTask(t) ==
  /\ spc = "grouping" /\ chk = NoTask
  /\ t \in StageTasks /\ \A u \in StageTasks : executeAt[t] <= executeAt[u]
  /\ due' = due \ {t}
  /\ \/ /\ cancelled[t]
        /\ phase' = [phase EXCEPT ![t] = "discarded"]
        /\ UNCHANGED <<chk, chkLeft, globals>>
     \/ /\ ~cancelled[t] /\ sessions[t] = {}
        /\ phase' = [phase EXCEPT ![t] = "grouped"]
        /\ globals' = Append(globals, t)
        /\ UNCHANGED <<chk, chkLeft>>
     \/ /\ ~cancelled[t] /\ sessions[t] # {}
        /\ phase' = [phase EXCEPT ![t] = "checking"]
        /\ chk' = t /\ chkLeft' = sessions[t]
        /\ UNCHANGED globals
  /\ chkWorld' = NoWorld
  /\ UNCHANGED <<schedRest, tickC, queueVars, spc, stamp, curStage, groups, worldVars>>

SameWorld(s) == chkWorld \in {NoWorld, worldCache[s]} /\ (chkLeft = {s} => worldCache[s] # NoWorld)

(* Mutant: the closed flag is not looked at.                                 *)
GoodWhenClosed(s) == SameWorld(s)

Good(s) == ~Closed(s) /\ SameWorld(s)

(* One session of the task under check: closed.Load() and World().           *)
CheckSession(s) ==
  LET last == chkLeft = {s}
      fails == ~Good(s)
  IN
  /\ chk # NoTask /\ s \in chkLeft
  /\ chk' = IF fails \/ last THEN NoTask ELSE chk
  /\ chkLeft' = IF fails THEN {} ELSE chkLeft \ {s}
  /\ chkWorld' = worldCache[s]
  /\ phase' = [phase EXCEPT ![chk] = IF fails THEN "dropped" ELSE IF last THEN "grouped" ELSE @]
  /\ groups' = IF last /\ ~fails
                 THEN [groups EXCEPT ![worldCache[s]] = Append(@, chk)] ELSE groups
  /\ UNCHANGED <<schedRest, tickC, queueVars, spc, stamp, due, curStage, globals, worldVars>>

StageGrouped == spc = "grouping" /\ chk = NoTask /\ StageTasks = {}

(* The jobs of a stage call World.Exec in any order: a worker takes a job,   *)
(* or the scheduler runs it inline. Exec only enqueues the transaction.      *)
DispatchWorld(w) ==
  /\ StageGrouped /\ groups[w] # <<>>
  /\ worldQ' = [worldQ EXCEPT ![w] = Append(@, groups[w])]
  /\ groups' = [groups EXCEPT ![w] = <<>>]
  /\ phase' = [t \in Tasks |-> IF t \in ToSet(groups[w]) THEN "dispatched" ELSE phase[t]]
  /\ UNCHANGED <<schedRest, tickC, queueVars, spc, stamp, due, curStage, chk, chkLeft,
                 chkWorld, globals, tx, child>>

DispatchGlobals ==
  /\ StageGrouped /\ globals # <<>>
  /\ globals' = <<>>
  /\ \/ /\ DefaultWorld # NoWorld
        /\ worldQ' = [worldQ EXCEPT ![DefaultWorld] = Append(@, globals)]
        /\ phase' = [t \in Tasks |-> IF t \in ToSet(globals) THEN "dispatched" ELSE phase[t]]
     \/ /\ DefaultWorld = NoWorld
        /\ phase' = [t \in Tasks |-> IF t \in ToSet(globals) THEN "dropped" ELSE phase[t]]
        /\ UNCHANGED worldQ
  /\ UNCHANGED <<schedRest, tickC, queueVars, spc, stamp, due, curStage, chk, chkLeft,
                 chkWorld, groups, tx, child>>

(* Mutant: the jobs of a stage are not waited for.                           *)
NoWait == TRUE

(* wg.Wait.                                                                  *)
JobsDone == globals = <<>> /\ \A w \in Worlds : groups[w] = <<>>

(* Mutant: the loop over the stages ends one short.                          *)
StageBeforeLast == NumStages - 1

(* Mutant: the loop over the stages goes one too far.                        *)
StagePastLast == NumStages + 1

LastStage == NumStages

(* wg.Wait ends the stage; the last stage ends processTasks.                 *)
NextStage ==
  /\ StageGrouped /\ JobsDone
  /\ \/ curStage < LastStage /\ curStage' = curStage + 1 /\ UNCHANGED spc
     \/ curStage = LastStage /\ spc' = "select" /\ UNCHANGED curStage
  /\ UNCHANGED <<schedRest, tickC, phase, queueVars, stamp, due, chk, chkLeft, chkWorld,
                 groups, globals, worldVars>>

-----------------------------------------------------------------------------
(* Transactions on the goroutine of a world: executeTasksForWorld and        *)
(* executeTask, scheduler.go, and repeatingTaskWrapper.Run, task.go.         *)

worldRest == <<clockVars, fieldVars, queueVars, schedVars, closing, toCancel, moveVars,
               times, handleCancelled>>

BeginTx(w) ==
  /\ tx[w] = <<>> /\ worldQ[w] # <<>>
  /\ tx' = [tx EXCEPT ![w] = Head(worldQ[w])]
  /\ worldQ' = [worldQ EXCEPT ![w] = Tail(@)]
  /\ UNCHANGED <<worldRest, phase, cancelled, toAdd, notifying, payload, child,
                 pendingTasks, remaining, crashed>>

(* The second look at the cancelled flag.                                    *)
PickTask(w) ==
  /\ tx[w] # <<>> /\ phase[Head(tx[w])] = "dispatched"
  /\ LET t == Head(tx[w]) IN
       \/ /\ cancelled[t]
          /\ phase' = [phase EXCEPT ![t] = "discarded"]
          /\ tx' = [tx EXCEPT ![w] = Tail(@)]
       \/ /\ ~cancelled[t]
          /\ phase' = [phase EXCEPT ![t] = "picked"]
          /\ UNCHANGED tx
  /\ UNCHANGED <<worldRest, cancelled, toAdd, notifying, payload, worldQ, child,
                 pendingTasks, remaining, crashed>>

(* Mutant: the sessions are not looked up in the transaction.                *)
PresentAnywhere(t, w) == TRUE

Present(t, w) == \A s \in sessions[t] : entityWorld[s] = w

(* getPlayerFromTx, canRun and injectSystem come before Run; when one of     *)
(* them fails executeTask returns. injectSystem zeroes payload fields. For a *)
(* repeating task it writes the inner task's fields over the wrapper itself, *)
(* which then calls through a destroyed interface value, unless the inner    *)
(* task has no field to write.                                               *)
StartTask(w) ==
  /\ tx[w] # <<>> /\ phase[Head(tx[w])] = "picked"
  /\ LET t == Head(tx[w])
         h == wrapper[t] IN
       \/ /\ phase' = [phase EXCEPT ![t] = "dropped"]
          /\ tx' = [tx EXCEPT ![w] = Tail(@)]
          /\ UNCHANGED <<payload, crashed>>
       \/ /\ Present(t, w)
          /\ payload' = payload \ {t}
          /\ phase' = [phase EXCEPT ![t] = IF h \in handleCancelled THEN "leaving" ELSE "running"]
          /\ crashed' = IF h \in Handles \ (Fieldless \cup handleCancelled) THEN TRUE ELSE crashed
          /\ UNCHANGED tx
  /\ UNCHANGED <<worldRest, cancelled, toAdd, notifying, worldQ, child, pendingTasks,
                 remaining>>

EndTask(w) ==
  /\ tx[w] # <<>>
  /\ LET t == Head(tx[w]) IN
       /\ phase[t] = "running" /\ wrapper[t] = NoHandle
       /\ phase' = [phase EXCEPT ![t] = "returning"]
  /\ UNCHANGED <<worldRest, cancelled, toAdd, notifying, payload, worldQ, tx, child,
                 pendingTasks, remaining, crashed>>

(* Mutant: the countdown is tested before it is counted.                     *)
CountsToZero(h, s) ==
  h \notin handleCancelled /\ remaining[h] # 0 /\ ~Closed(s)

(* The wrapper after its inner task: it counts down and, unless that was the *)
(* last run or the session is closed, schedules itself again.                *)
Reschedules(h, s) ==
  h \notin handleCancelled /\ remaining[h] # 1 /\ ~Closed(s)

EndRepeating(w, u, at) ==
  /\ tx[w] # <<>>
  /\ LET t == Head(tx[w])
         h == wrapper[t]
         again == Reschedules(h, CHOOSE s \in sessions[t] : TRUE) IN
       /\ phase[t] = "running" /\ h \in Handles
       /\ remaining' = [remaining EXCEPT ![h] =
                          IF h \notin handleCancelled /\ @ > 0 THEN @ - 1 ELSE @]
       /\ \/ /\ ~again
             /\ phase' = [phase EXCEPT ![t] = "returning"]
             /\ UNCHANGED <<fieldVars, toAdd, child>>
          \/ /\ again
             /\ phase[u] = "unused"
             /\ phase' = [phase EXCEPT ![t] = "returning", ![u] = "adding"]
             /\ executeAt' = [executeAt EXCEPT ![u] = at]
             /\ sessions' = [sessions EXCEPT ![u] = sessions[t]]
             /\ stage' = [stage EXCEPT ![u] = stage[t]]
             /\ wrapper' = [wrapper EXCEPT ![u] = h]
             /\ toAdd' = [toAdd EXCEPT ![u] = sessions[t]]
             /\ child' = [child EXCEPT ![w] = u]
  /\ UNCHANGED <<clockVars, cancelled, notifying, payload, queueVars, schedVars, worldQ, tx,
                 sessionVars, moveVars, times, handleCancelled, crashed>>

(* Run has returned, the push of the next repetition included: removeTask.   *)
RemoveTask(w) ==
  /\ tx[w] # <<>>
  /\ child[w] # NoTask => phase[child[w]] # "adding" /\ child[w] \notin notifying
  /\ LET t == Head(tx[w]) IN
       /\ phase[t] \in {"returning", "leaving"}
       /\ phase' = [phase EXCEPT ![t] = IF @ = "returning" THEN "ran" ELSE "skipped"]
       /\ pendingTasks' = [s \in Sessions |-> IF s \in sessions[t] THEN pendingTasks[s] \ {t}
                                              ELSE pendingTasks[s]]
  /\ tx' = [tx EXCEPT ![w] = Tail(@)]
  /\ child' = [child EXCEPT ![w] = NoTask]
  /\ UNCHANGED <<worldRest, cancelled, toAdd, notifying, payload, worldQ, remaining, crashed>>

-----------------------------------------------------------------------------
(* Session.close, session.go: the flag, the list, the tasks of the list.     *)

closeRest == <<clockVars, phase, fieldVars, toAdd, notifying, payload, queueVars, schedVars,
               worldVars, moveVars, repeatVars, crashed>>

CloseSwap(s) ==
  /\ closing[s] = "open"
  /\ closing' = [closing EXCEPT ![s] = "swapped"]
  /\ UNCHANGED <<closeRest, cancelled, pendingTasks, toCancel>>

CloseTake(s) ==
  /\ closing[s] = "swapped"
  /\ closing' = [closing EXCEPT ![s] = "taken"]
  /\ toCancel' = [toCancel EXCEPT ![s] = pendingTasks[s]]
  /\ pendingTasks' = [pendingTasks EXCEPT ![s] = {}]
  /\ UNCHANGED <<closeRest, cancelled>>

CloseCancel(s, t) ==
  /\ closing[s] = "taken" /\ t \in toCancel[s]
  /\ toCancel' = [toCancel EXCEPT ![s] = @ \ {t}]
  /\ cancelled' = [cancelled EXCEPT ![t] = TRUE]
  /\ UNCHANGED <<closeRest, closing, pendingTasks>>

CloseDone(s) ==
  /\ closing[s] = "taken" /\ toCancel[s] = {}
  /\ closing' = [closing EXCEPT ![s] = "done"]
  /\ UNCHANGED <<closeRest, cancelled, pendingTasks, toCancel>>

-----------------------------------------------------------------------------
(* The server. A player leaves a world in a transaction of that world, so    *)
(* never while the world runs tasks, and enters the next in a transaction of *)
(* that one; the session hears of it afterwards.                             *)

moveRest == <<clockVars, phase, fieldVars, cancelled, toAdd, notifying, payload, queueVars,
              schedVars, worldVars, sessionVars, repeatVars, crashed>>

LeaveWorld(s) ==
  /\ moves < MaxMoves /\ entityWorld[s] # NoWorld /\ tx[entityWorld[s]] = <<>>
  /\ entityWorld' = [entityWorld EXCEPT ![s] = NoWorld]
  /\ moves' = moves + 1
  /\ UNCHANGED <<moveRest, worldCache>>

EnterWorld(s, w) ==
  /\ entityWorld[s] = NoWorld /\ tx[w] = <<>>
  /\ entityWorld' = [entityWorld EXCEPT ![s] = w]
  /\ UNCHANGED <<moveRest, worldCache, moves>>

(* HandleChangeWorld, and NewSession for a player that has just joined.      *)
UpdateWorldCache(s) ==
  /\ entityWorld[s] # NoWorld /\ worldCache[s] # entityWorld[s]
  /\ worldCache' = [worldCache EXCEPT ![s] = entityWorld[s]]
  /\ UNCHANGED <<moveRest, entityWorld, moves>>

-----------------------------------------------------------------------------
SchedulerStep ==
  /\ ~crashed
  /\ \/ RecvTick \/ RecvNotify \/ ReadClock \/ PopDue \/ NextStage \/ DispatchGlobals
     \/ \E t \in Tasks : GroupTask(t)
     \/ \E s \in Sessions : CheckSession(s)
     \/ \E w \in Worlds : DispatchWorld(w)

WorldStep(w) ==
  /\ ~crashed
  /\ \/ BeginTx(w) \/ PickTask(w) \/ StartTask(w) \/ EndTask(w) \/ RemoveTask(w)
     \/ \E u \in Tasks, at \in Times : at >= now /\ EndRepeating(w, u, at)

(* What a Schedule call that has begun does next.                            *)
CallerStep(t) ==
  /\ ~crashed
  /\ Push(t) \/ PushNotify(t) \/ \E s \in Sessions : AddTask(t, s)

CloseStep(s) ==
  CloseTake(s) \/ CloseDone(s) \/ \E t \in Tasks : CloseCancel(s, t)

(* What nothing makes happen: calls of the API, and the server's doings.     *)
EnvStep ==
  /\ ~crashed
  /\ \/ \E t \in Cancellable : Cancel(t)
     \/ \E t \in Tasks, ss \in Targets, at \in Times, st \in Stages :
          Schedule(t, ss, at, st)
     \/ \E t \in Tasks, h \in Handles, s \in Sessions, at \in Times, st \in Stages,
           n \in RepeatTimes : at >= now /\ ScheduleRepeating(t, h, s, at, st, n)
     \/ \E h \in Handles : CancelRepeating(h)
     \/ \E s \in Mortal : CloseSwap(s) \/ CloseStep(s)
     \/ \E s \in Sessions : LeaveWorld(s) \/ UpdateWorldCache(s)
     \/ \E s \in Sessions, w \in Worlds : EnterWorld(s, w)

Next ==
  \/ ClockStep
  \/ SchedulerStep
  \/ \E w \in Worlds : WorldStep(w)
  \/ \E t \in Tasks : CallerStep(t)
  \/ EnvStep

(* The ticker and the goroutines that are running go on; nobody has to       *)
(* schedule, cancel, close or move anything.                                 *)
Fairness ==
  /\ WF_vars(ClockStep) /\ WF_vars(SchedulerStep)
  /\ \A w \in Worlds : WF_vars(WorldStep(w))
  /\ \A t \in Tasks : WF_vars(CallerStep(t))

Spec == Init /\ [][Next]_vars
FairSpec == Spec /\ Fairness

-----------------------------------------------------------------------------
(* Properties.                                                               *)

(* A task that was due when Push inserted it is popped without waiting for   *)
(* the ticker: while it is in the queue a signal is pending, is about to be  *)
(* sent, or has woken the scheduler for a PopDue that will return it. It     *)
(* speaks of Push's signal after the unlock and of tickLoop's select.        *)
NoLostWakeup ==
  \A t \in heap \cap prompt :
     \/ t \in notifying \/ notif \/ spc = "woken"
     \/ spc = "popping" /\ executeAt[t] <= stamp

(* Once close has worked through its list, no transaction takes up a task of *)
(* the session any more: what was scheduled before is cancelled, what was    *)
(* scheduled too late for the list is turned away by executeTasksForStage. A *)
(* task its transaction had taken up by then still runs: executeTask does    *)
(* not look at "cancelled" again.                                            *)
ClosedTasksStopped ==
  [][\A s \in Sessions, t \in Tasks :
       closing[s] = "done" /\ s \in sessions[t] /\ phase'[t] = "picked"
       => phase[t] = "picked"]_vars

(* Tasks running at once in two worlds never share a session, however the    *)
(* player moved while they waited: executeTask looks for the player in its   *)
(* own transaction.                                                          *)
RunningTask(w) == IF tx[w] = <<>> THEN NoTask ELSE Head(tx[w])

OneWorldPerSession ==
  \A v, w \in Worlds :
     v # w /\ tx[v] # <<>> /\ tx[w] # <<>>
     /\ phase[RunningTask(v)] = "running" /\ phase[RunningTask(w)] = "running"
     => sessions[RunningTask(v)] \cap sessions[RunningTask(w)] = {}

(* Tasks wait for a world in the order of processTasks: those of an earlier  *)
(* PopDue first, then those of an earlier stage, then, for tasks that have   *)
(* sessions, those with the earlier executeAt.                               *)
Before(t, u) ==
  \/ batch[t] < batch[u]
  \/ batch[t] = batch[u] /\ stage[t] < stage[u]
  \/ /\ batch[t] = batch[u] /\ stage[t] = stage[u]
     /\ sessions[t] # {} /\ sessions[u] # {} => executeAt[t] <= executeAt[u]

(* The transactions of a world: number 0 is the one that runs.               *)
Lots(w)   == 0 .. Len(worldQ[w])
Lot(w, k) == IF k = 0 THEN tx[w] ELSE worldQ[w][k]

WorldOrder ==
  \A w \in Worlds : \A k, l \in Lots(w) : \A i \in DOMAIN Lot(w, k), j \in DOMAIN Lot(w, l) :
     k < l \/ (k = l /\ i < j) => Before(Lot(w, k)[i], Lot(w, l)[j])

(* A repeating task never has two repetitions waiting, and never runs more   *)
(* often than ScheduleRepeating was told.                                    *)
RunsOf(h) == Cardinality({t \in Tasks : wrapper[t] = h /\ phase[t] \in Started})

AheadOf(h) == {t \in Tasks : wrapper[t] = h /\ phase[t] \notin Final \cup Started}

RepeatsBounded ==
  \A h \in Handles :
     /\ Cardinality(AheadOf(h)) <= 1
     /\ times[h] > 0 => RunsOf(h) <= times[h]

(* A task that has run, was found cancelled or was given up is never taken   *)
(* up again: it runs at most once.                                           *)
TakenOnce == [][\A t \in Tasks : phase[t] \in Final => phase'[t] = phase[t]]_vars

(* Every pushed task comes to an end: it runs, is found cancelled, or is     *)
(* given up, and no lost signal or skipped stage leaves it behind.           *)
EveryTaskEnds == \A t \in Tasks : phase[t] = "queued" ~> phase[t] \in Final

-----------------------------------------------------------------------------
(* What comments and the readme say of the code, and the code does not do.   *)

(* readme.md: "Repeating task (runs 5 times, every second)". A repeating     *)
(* task would run without taking the process down.                           *)
RepeatingTasksRun == ~crashed

=============================================================================
