------------------------------ MODULE Lifecycle ------------------------------
(****************************************************************************)
(* Starting and stopping: Start, Stop, the workers and the tick loop of     *)
(* scheduler.go, Shutdown of manager.go, and the lock of the sessions map,  *)
(* which a tick holds for reading while it removes expired components and   *)
(* runs their Detach hooks.                                                 *)
(*                                                                          *)
(* The controllers are the program's own goroutines and the one that        *)
(* handleSystemPanic starts, once. A job hands tasks or loops to a world,   *)
(* which queues them, so that it never waits; what the worlds do with them  *)
(* is the matter of Tasks and Loops. A tick submits one round of jobs for   *)
(* each stage and each list of due tasks; the number of rounds is a bound.  *)
(****************************************************************************)
EXTENDS Integers, Sequences, FiniteSets

CONSTANTS
  Callers,      \* goroutines that call Start or Shutdown
  Panicker,     \* the goroutine of handleSystemPanic
  Workers,
  Capacity,     \* of workerPool: four times the workers in the code
  JobWorlds,    \* a round has a job for each
  Rounds,       \* bound: rounds of a tick
  Hooks,        \* bound: hooks that run in a tick
  MaxTicks,     \* bound: ticks and notifications
  MaxWrites,    \* bound: joins and quits beside the ticks
  Meet          \* bound: whether hooks that read the map meet joins and quits

ASSUME LifecycleBounds ==
  {Capacity, Rounds, Hooks, MaxTicks, MaxWrites} \subseteq Nat /\ Meet \in BOOLEAN
ASSUME LifecycleNames == Panicker \notin Callers

VARIABLES
  running,
  stopCh, doneCh, poolCh,  \* how often each channel was closed
  pool,                    \* workerPool
  worker,                  \* what each worker does
  loop,                    \* the tick loop
  wait,                    \* the jobs that wg waits for
  ctl,                     \* the controllers
  readers,                 \* read locks of the sessions map
  writer,                  \* "none", "waiting" or "holding"
  reading,                 \* whether hooks read the sessions map
  ticks, writes, panicked

lifeVars == <<running, stopCh, doneCh, poolCh, pool, worker, loop, wait, ctl, readers, writer,
              reading, ticks, writes, panicked>>

Controllers == Callers \cup {Panicker}

LifeInit ==
  /\ running = FALSE /\ stopCh = 0 /\ doneCh = 0 /\ poolCh = 0
  /\ pool = <<>> /\ worker = [w \in Workers |-> "none"]
  /\ loop = [pc |-> "none", left |-> 0, rounds |-> 0] /\ wait = {}
  /\ ctl = [c \in Controllers |-> "idle"]
  /\ readers = 0 /\ writer = "none" /\ reading \in BOOLEAN
  /\ ticks = 0 /\ writes = 0 /\ panicked = FALSE

Channels == UNCHANGED <<stopCh, doneCh, poolCh>>
Lock     == UNCHANGED <<readers, writer, reading>>
Counts   == UNCHANGED <<ticks, writes, panicked>>

-----------------------------------------------------------------------------
(* Controllers.                                                              *)

Goto(c, l) == ctl' = [ctl EXCEPT ![c] = l]

(* Start. Bound: it does not start anew what was stopped.                    *)
Start(c) ==
  /\ ctl[c] = "idle" /\ c \in Callers
  /\ running \/ (loop.pc = "none" /\ stopCh = 0 /\ \A d \in Controllers : ctl[d] # "launch")
  /\ running' = TRUE
  /\ Goto(c, IF running THEN "idle" ELSE "launch")
  /\ Channels /\ Lock /\ Counts /\ UNCHANGED <<pool, worker, loop, wait>>

(* The workers, and the tick loop after them.                                *)
LaunchWorker(c, w) ==
  /\ ctl[c] = "launch" /\ worker[w] = "none"
  /\ worker' = [worker EXCEPT ![w] = "ready"]
  /\ Channels /\ Lock /\ Counts /\ UNCHANGED <<running, pool, loop, wait, ctl>>

LaunchLoop(c) ==
  /\ ctl[c] = "launch" /\ \A w \in Workers : worker[w] # "none"
  /\ loop' = [loop EXCEPT !.pc = "select"]
  /\ Goto(c, "idle")
  /\ Channels /\ Lock /\ Counts /\ UNCHANGED <<running, pool, worker, wait>>

Stopped == FALSE

(* Shutdown calls Stop; one that finds it stopped goes on at once.           *)
Shutdown(c) ==
  /\ (c \in Callers /\ ctl[c] = "idle") \/ ctl[c] = "panic"
  /\ running' = Stopped
  /\ Goto(c, IF running THEN "close" ELSE "sessions")
  /\ Channels /\ Lock /\ Counts /\ UNCHANGED <<pool, worker, loop, wait>>

CloseStop(c) ==
  /\ ctl[c] = "close" /\ stopCh' = stopCh + 1
  /\ Goto(c, "done?")
  /\ Lock /\ Counts /\ UNCHANGED <<running, doneCh, poolCh, pool, worker, loop, wait>>

(* Mutant: Stop does not wait for the tick loop.                             *)
LoopEndedOrNot == TRUE

LoopEnded == doneCh > 0

ClosePool(c) ==
  /\ ctl[c] = "done?" /\ LoopEnded
  /\ poolCh' = poolCh + 1
  /\ Goto(c, "workers?")
  /\ Lock /\ Counts /\ UNCHANGED <<running, stopCh, doneCh, pool, worker, loop, wait>>

WorkersEnded(c) ==
  /\ ctl[c] = "workers?" /\ \A w \in Workers : worker[w] \in {"none", "ended"}
  /\ Goto(c, "sessions")
  /\ Channels /\ Lock /\ Counts /\ UNCHANGED <<running, pool, worker, loop, wait>>

(* Shutdown then takes the lock of the sessions map for a moment.            *)
TakeSessions(c) ==
  /\ ctl[c] = "sessions" /\ readers = 0 /\ writer # "holding"
  /\ Goto(c, "returned")
  /\ Channels /\ Lock /\ Counts /\ UNCHANGED <<running, pool, worker, loop, wait>>

(* handleSystemPanic: in a transaction, at any time once something runs.     *)
Panic ==
  /\ ~panicked /\ panicked' = TRUE /\ loop.pc # "none"
  /\ Goto(Panicker, "panic")
  /\ Channels /\ Lock /\ UNCHANGED <<running, pool, worker, loop, wait, ticks, writes>>

-----------------------------------------------------------------------------
(* The tick loop.                                                            *)

Loop(l) == loop' = l

StopLoop ==
  /\ loop.pc = "select" /\ stopCh > 0 /\ doneCh' = doneCh + 1
  /\ Loop([loop EXCEPT !.pc = "ended"])
  /\ Lock /\ Counts /\ UNCHANGED <<running, stopCh, poolCh, pool, worker, wait, ctl>>

(* A tick begins with the expirations, a notification processes tasks only.  *)
Tick ==
  /\ loop.pc = "select" /\ ticks < MaxTicks /\ ticks' = ticks + 1
  /\ Loop([pc |-> "lock", left |-> Hooks, rounds |-> Rounds])
  /\ Channels /\ Lock /\ UNCHANGED <<running, pool, worker, wait, ctl, writes, panicked>>

Notified ==
  /\ loop.pc = "select" /\ ticks < MaxTicks /\ ticks' = ticks + 1
  /\ Loop([pc |-> "round", left |-> 0, rounds |-> 1])
  /\ Channels /\ Lock /\ UNCHANGED <<running, pool, worker, wait, ctl, writes, panicked>>

(* RLock waits for a writer that holds the lock and for one that waits.      *)
ReadLock ==
  /\ loop.pc = "lock" /\ writer = "none"
  /\ readers' = readers + 1 /\ Loop([loop EXCEPT !.pc = "hooks"])
  /\ Channels /\ Counts /\ UNCHANGED <<running, pool, worker, wait, ctl, writer, reading>>

(* A hook or a handler of the detach event, which may read the map itself.   *)
Hook ==
  /\ loop.pc = "hooks" /\ loop.left > 0 /\ (reading => writer = "none")
  /\ Loop([loop EXCEPT !.left = @ - 1])
  /\ Channels /\ Lock /\ Counts /\ UNCHANGED <<running, pool, worker, wait, ctl>>

(* Mutant: the read lock is kept.                                            *)
ReadersKept == readers

ReadersLess == readers - 1

ReadUnlock ==
  /\ loop.pc = "hooks" /\ loop.left = 0
  /\ readers' = ReadersLess /\ Loop([loop EXCEPT !.pc = "round"])
  /\ Channels /\ Counts /\ UNCHANGED <<running, pool, worker, wait, ctl, writer, reading>>

(* runLoopsForStage and processTasks: a job for each world, run in place     *)
(* when the channel is full.                                                 *)
BeginRound ==
  /\ loop.pc = "round"
  /\ IF loop.rounds = 0 THEN Loop([loop EXCEPT !.pc = "select"]) /\ UNCHANGED wait
     ELSE Loop([loop EXCEPT !.pc = "submit", !.rounds = @ - 1]) /\ wait' = JobWorlds
  /\ Channels /\ Lock /\ Counts /\ UNCHANGED <<running, pool, worker, ctl>>

Submitted == {pool[i] : i \in DOMAIN pool} \cup {worker[w] : w \in Workers}

Submit(j) ==
  /\ loop.pc = "submit" /\ j \in wait \ Submitted
  /\ IF Len(pool) < Capacity THEN pool' = Append(pool, j) /\ UNCHANGED wait
     ELSE wait' = wait \ {j} /\ UNCHANGED pool
  /\ Channels /\ Lock /\ Counts /\ UNCHANGED <<running, worker, loop, ctl>>

AllSubmitted ==
  /\ loop.pc = "submit" /\ wait \subseteq Submitted
  /\ Loop([loop EXCEPT !.pc = "wait"])
  /\ Channels /\ Lock /\ Counts /\ UNCHANGED <<running, pool, worker, wait, ctl>>

EndRound ==
  /\ loop.pc = "wait" /\ wait = {}
  /\ Loop([loop EXCEPT !.pc = "round"])
  /\ Channels /\ Lock /\ Counts /\ UNCHANGED <<running, pool, worker, wait, ctl>>

-----------------------------------------------------------------------------
(* Workers, and the goroutines of worlds, where sessions join and quit.      *)

TakeJob(w) ==
  /\ worker[w] = "ready" /\ pool # <<>>
  /\ worker' = [worker EXCEPT ![w] = Head(pool)] /\ pool' = Tail(pool)
  /\ Channels /\ Lock /\ Counts /\ UNCHANGED <<running, loop, wait, ctl>>

FinishJob(w) ==
  /\ worker[w] \in JobWorlds
  /\ wait' = wait \ {worker[w]} /\ worker' = [worker EXCEPT ![w] = "ready"]
  /\ Channels /\ Lock /\ Counts /\ UNCHANGED <<running, pool, loop, ctl>>

EndWorker(w) ==
  /\ worker[w] = "ready" /\ pool = <<>> /\ poolCh > 0
  /\ worker' = [worker EXCEPT ![w] = "ended"]
  /\ Channels /\ Lock /\ Counts /\ UNCHANGED <<running, pool, loop, wait, ctl>>

(* addSession and removeSession.                                             *)
WantLock ==
  /\ writer = "none" /\ writes < MaxWrites /\ writes' = writes + 1
  /\ Meet \/ ~reading
  /\ writer' = "waiting"
  /\ Channels /\ UNCHANGED <<running, pool, worker, loop, wait, ctl, readers, reading, ticks, panicked>>

WriteLock ==
  /\ writer = "waiting" /\ readers = 0 /\ writer' = "holding"
  /\ Channels /\ Counts /\ UNCHANGED <<running, pool, worker, loop, wait, ctl, readers, reading>>

WriteUnlock ==
  /\ writer = "holding" /\ writer' = "none"
  /\ Channels /\ Counts /\ UNCHANGED <<running, pool, worker, loop, wait, ctl, readers, reading>>

-----------------------------------------------------------------------------
Control(c) ==
  \/ (\E w \in Workers : LaunchWorker(c, w)) \/ LaunchLoop(c)
  \/ CloseStop(c) \/ ClosePool(c) \/ WorkersEnded(c)

Ticking ==
  \/ Hook \/ ReadUnlock \/ BeginRound \/ (\E j \in JobWorlds : Submit(j)) \/ AllSubmitted \/ EndRound

Working(w) == TakeJob(w) \/ FinishJob(w) \/ EndWorker(w)

LifeNext ==
  \/ \E c \in Controllers : Start(c) \/ Shutdown(c) \/ Control(c) \/ TakeSessions(c)
  \/ Panic
  \/ Tick \/ Notified \/ StopLoop \/ ReadLock \/ Ticking
  \/ \E w \in Workers : Working(w)
  \/ WantLock \/ WriteLock \/ WriteUnlock

LifeSpec == LifeInit /\ [][LifeNext]_lifeVars

(* Goroutines are scheduled; select does not pass over a closed stopCh for   *)
(* ever; RWMutex lets neither readers nor writers starve. As every behaviour *)
(* of a controller is finite, it is enough that some controller, and some    *)
(* worker, goes on.                                                          *)
Fairness ==
  /\ WF_lifeVars(Shutdown(Panicker) \/ \E c \in Controllers : Control(c))
  /\ SF_lifeVars(\E c \in Controllers : TakeSessions(c))
  /\ SF_lifeVars(StopLoop) /\ SF_lifeVars(ReadLock) /\ WF_lifeVars(Ticking)
  /\ WF_lifeVars(\E w \in Workers : Working(w))
  /\ SF_lifeVars(WriteLock) /\ WF_lifeVars(WriteUnlock)

FairSpec == LifeSpec /\ Fairness

-----------------------------------------------------------------------------
(* Properties.                                                               *)

(* However many goroutines shut down and panic at once, no channel of the    *)
(* scheduler is closed twice and nothing is sent on workerPool once it is    *)
(* closed: either would end the program.                                     *)
NoChannelPanic ==
  /\ stopCh <= 1 /\ doneCh <= 1 /\ poolCh <= 1
  /\ loop.pc = "submit" => poolCh = 0

(* A tick ends, so the lock of the sessions map is given back.               *)
EveryTickEnds == loop.pc \notin {"none", "select", "ended"} ~> loop.pc \in {"select", "ended"}

(* Stop and Shutdown return, from wherever they are called and whatever the  *)
(* tick loop is at.                                                          *)
EveryShutdownReturns == \A c \in Controllers : ctl[c] \in {"close", "sessions", "panic"} ~> ctl[c] = "returned"

=============================================================================
