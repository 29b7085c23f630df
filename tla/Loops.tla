-------------------------------- MODULE Loops --------------------------------
(****************************************************************************)
(* The loops of a tick: which of them are due, the transactions they are    *)
(* put in, and their running, scheduler.go. A tick runs the global loops    *)
(* world by world; then, stage by stage, one job per world on the worker    *)
(* pool goes through the stage's batches. A job asks ShouldRun, hands the   *)
(* batch to World.Exec, which only queues it, and calls MarkRun at once.    *)
(* The state of a loop is shared by the jobs of all worlds, without a lock, *)
(* so ShouldRun and MarkRun are made of single reads and writes.            *)
(*                                                                          *)
(* Batches come from Batching; tasks, which end a tick, are in Tasks.       *)
(****************************************************************************)
EXTENDS Integers, Sequences, FiniteSets

CONSTANTS
  Loops,
  Interval,       \* loopState.interval
  Stages,         \* number of stages
  Batches,        \* Scheduler.batches, a sequence of sets of loops per stage
  GlobalBatches,  \* Scheduler.globalBatches
  Worlds,
  WorldSeq,       \* Scheduler.worlds, in the order given to Init
  Sessions,
  QueueSize,      \* external: transactions a world holds before Exec blocks
  FirstTime,          \* the time at first, long after the zero time
  Built,          \* bound: the times at which addLoop may have been called
  MaxTime,        \* bound on the time of a tick
  NoTx, NoLoop

ASSUME LoopAssumption == Interval \in [Loops -> Nat] /\ Stages \in Nat \ {0}
ASSUME BatchAssumption == {Batches, GlobalBatches} \subseteq [1 .. Stages -> Seq(SUBSET Loops)]
(* A loop is in one batch, as Batching has it (EachLoopOnce).                *)
ASSUME OnceAssumption ==
  \A s, r \in 1 .. Stages : \A i \in 1 .. Len(Batches[s]), j \in 1 .. Len(Batches[r]) :
    Batches[s][i] \cap Batches[r][j] # {} => s = r /\ i = j
ASSUME WorldAssumption == WorldSeq \in Seq(Worlds)
ASSUME BoundAssumption ==
  /\ MaxTime \in Nat /\ FirstTime \in Nat /\ Built \subseteq 1 .. FirstTime
  /\ QueueSize \in Nat \ {0}

VARIABLES
  now,       \* the time of the tick
  nextRun, lastRun,     \* loopState
  prevRun,   \* the time of the run before lastRun (history)
  pc, stage, \* the tick: where it is
  nth,       \* the world whose global loops run
  grouped,   \* groupedSessions
  job,       \* per world: its batch, where it is, the due loops it has yet
             \* to mark, the one it marks, the time it will store for it
  queue,     \* external: the transactions of a world, in order
  tx,        \* the one it runs: valid sessions, loops still running
  ran,       \* which loop has run for which session in which tick (history)
  again,     \* whether one of them has run twice (history)
  loc,       \* external: the world of a player, as sessionsByWorld has it
  closed

tickVars  == <<now, pc, stage, nth, grouped>>
loopVars  == <<nextRun, lastRun, prevRun>>
worldVars == <<queue, tx>>
histVars  == <<ran, again>>
sessVars  == <<loc, closed>>
vars == <<tickVars, loopVars, job, worldVars, histVars, sessVars>>

Times   == 0 .. MaxTime
NoJob   == [at |-> "idle", k |-> 1, due |-> {}, loop |-> NoLoop, next |-> 0]
TxTypes == [tick : Times, stage : 0 .. Stages, k : Nat, loops : SUBSET Loops,
            sessions : SUBSET Sessions, global : BOOLEAN]

TypeOK ==
  /\ now \in Times
  /\ nextRun \in [Loops -> Nat] /\ lastRun \in [Loops -> Times] /\ prevRun \in [Loops -> Times]
  /\ pc \in {"idle", "global", "jobs"} /\ stage \in 1 .. Stages /\ nth \in Nat
  /\ grouped \in [Worlds -> SUBSET Sessions]
  /\ \A w \in Worlds :
       /\ job[w].at \in {"idle", "filter", "exec", "mark", "store", "check", "late"}
       /\ job[w].k \in Nat /\ job[w].due \in SUBSET Loops
       /\ job[w].loop \in Loops \cup {NoLoop} /\ job[w].next \in Nat
       /\ queue[w] \in Seq(TxTypes) /\ tx[w] \in TxTypes \cup {NoTx}
  /\ loc \in [Sessions -> Worlds] /\ closed \in SUBSET Sessions /\ again \in BOOLEAN

(* addLoop has set nextRun to the time it was called; lastRun is the zero    *)
(* time.                                                                     *)
Init ==
  /\ now = FirstTime
  /\ nextRun \in [Loops -> Built]
  /\ lastRun = [l \in Loops |-> 0] /\ prevRun = lastRun
  /\ pc = "idle" /\ stage = 1 /\ nth = 1
  /\ grouped = [w \in Worlds |-> {}]
  /\ job = [w \in Worlds |-> NoJob]
  /\ queue = [w \in Worlds |-> <<>>] /\ tx = [w \in Worlds |-> NoTx]
  /\ ran = {} /\ again = FALSE
  /\ loc \in [Sessions -> Worlds] /\ closed = {}

-----------------------------------------------------------------------------
(* loopState.                                                                *)

ShouldRun(l) == Interval[l] = 0 \/ now >= nextRun[l]

(* Mutant: no catching up.                                                   *)
BehindNever(l) == FALSE

Behind(l) == nextRun[l] < now

-----------------------------------------------------------------------------
(* A job: filter and Exec, then MarkRun, batch after batch. The global loops *)
(* of a world go the same way, without sessions.                             *)

StageBatches == IF pc = "global" THEN GlobalBatches[stage] ELSE Batches[stage]

Active(w) == job[w].at # "idle"

Due(w) == {l \in StageBatches[job[w].k] : ShouldRun(l)}

Advanced(w) == IF job[w].k < Len(StageBatches) THEN [NoJob EXCEPT !.at = "filter", !.k = job[w].k + 1]
               ELSE NoJob

(* Mutant: the index is read anew for each batch.                            *)
ListedNow(w) == {s \in Sessions : loc[s] = w}

(* The snapshot taken at the beginning of the tick.                          *)
Listed(w) == grouped[w]

Filter(w) ==
  /\ job[w].at = "filter"
  /\ job' = [job EXCEPT ![w] = IF Due(w) = {} THEN Advanced(w)
                               ELSE [@ EXCEPT !.at = "exec", !.due = Due(w)]]
  /\ UNCHANGED <<tickVars, loopVars, worldVars, histVars, sessVars>>

Exec(w) ==
  /\ job[w].at = "exec" /\ Len(queue[w]) < QueueSize
  /\ queue' = [queue EXCEPT ![w] = Append(@,
       [tick |-> now, stage |-> IF pc = "global" THEN 0 ELSE stage, k |-> job[w].k,
        loops |-> job[w].due, sessions |-> IF pc = "global" THEN {} ELSE Listed(w),
        global |-> pc = "global"])]
  /\ job' = [job EXCEPT ![w].at = "mark"]
  /\ UNCHANGED <<tickVars, loopVars, tx, histVars, sessVars>>

Marked(w, l) == IF job[w].due = {l} THEN Advanced(w)
                ELSE [job[w] EXCEPT !.at = "mark", !.due = @ \ {l}, !.loop = NoLoop, !.next = 0]

(* MarkRun sets lastRun, which is not read by the code, and reads nextRun ... *)
MarkRun(w, l) ==
  /\ job[w].at = "mark" /\ l \in job[w].due
  /\ lastRun' = [lastRun EXCEPT ![l] = now]
  /\ prevRun' = [prevRun EXCEPT ![l] = IF lastRun[l] # now THEN lastRun[l] ELSE @]
  /\ job' = [job EXCEPT ![w] =
       IF Interval[l] = 0 THEN Marked(w, l)
       ELSE [@ EXCEPT !.at = "store", !.loop = l, !.next = nextRun[l] + Interval[l]]]
  /\ UNCHANGED <<tickVars, nextRun, worldVars, histVars, sessVars>>

(* ... stores the time an interval later, ...                                *)
StoreNext(w) ==
  /\ job[w].at = "store"
  /\ nextRun' = [nextRun EXCEPT ![job[w].loop] = job[w].next]
  /\ job' = [job EXCEPT ![w].at = "check", ![w].next = 0]
  /\ UNCHANGED <<tickVars, lastRun, prevRun, worldVars, histVars, sessVars>>

(* ... reads it again, and if that has passed as well ...                    *)
CheckBehind(w) ==
  /\ job[w].at = "check"
  /\ job' = [job EXCEPT ![w] = IF Behind(job[w].loop) THEN [@ EXCEPT !.at = "late"]
                               ELSE Marked(w, job[w].loop)]
  /\ UNCHANGED <<tickVars, loopVars, worldVars, histVars, sessVars>>

(* ... stores the time an interval from now.                                 *)
CatchUp(w) ==
  /\ job[w].at = "late"
  /\ nextRun' = [nextRun EXCEPT ![job[w].loop] = now + Interval[job[w].loop]]
  /\ job' = [job EXCEPT ![w] = Marked(w, job[w].loop)]
  /\ UNCHANGED <<tickVars, lastRun, prevRun, worldVars, histVars, sessVars>>

-----------------------------------------------------------------------------
(* The tick.                                                                 *)

Started == [NoJob EXCEPT !.at = "filter"]

GlobalJobs(n, s) ==
  [w \in Worlds |-> IF n <= Len(WorldSeq) /\ w = WorldSeq[n] /\ GlobalBatches[s] # <<>>
                    THEN Started ELSE NoJob]

(* A transaction of the tick of that time is waiting or running.             *)
Pending(w, t) ==
  (tx[w] # NoTx /\ tx[w].tick = t) \/ \E i \in DOMAIN queue[w] : queue[w][i].tick = t

(* A tick comes any time after the one before; t is when the ticker sent it. *)
TickStart(t) ==
  /\ pc = "idle" /\ now < t
  /\ now' = t /\ pc' = "global" /\ stage' = 1 /\ nth' = 1
  /\ job' = GlobalJobs(1, 1)
  /\ ran' = {x \in ran : \E w \in Worlds : Pending(w, x[1])} /\ UNCHANGED again
  /\ UNCHANGED <<grouped, loopVars, worldVars, sessVars>>

AllWaited == \A w \in Worlds : ~Active(w)

(* The next stage of this world's global loops, else the next world's.       *)
NextGlobal ==
  /\ pc = "global" /\ AllWaited /\ nth <= Len(WorldSeq)
  /\ stage' = IF stage < Stages THEN stage + 1 ELSE 1
  /\ nth' = IF stage < Stages THEN nth ELSE nth + 1
  /\ job' = GlobalJobs(nth', stage')
  /\ UNCHANGED <<now, pc, grouped, loopVars, worldVars, histVars, sessVars>>

Jobs(s, groups) ==
  [w \in Worlds |-> IF groups[w] # {} /\ Batches[s] # <<>> THEN Started ELSE NoJob]

(* groupedSessions, and the first stage.                                     *)
Group ==
  /\ pc = "global" /\ AllWaited /\ nth > Len(WorldSeq)
  /\ grouped' = [w \in Worlds |-> {s \in Sessions \ closed : loc[s] = w}]
  /\ pc' = "jobs" /\ stage' = 1 /\ job' = Jobs(1, grouped')
  /\ UNCHANGED <<now, nth, loopVars, worldVars, histVars, sessVars>>

(* wg.Wait, and the next stage or the end of the tick.                       *)
NextStage ==
  /\ pc = "jobs" /\ AllWaited
  /\ IF stage < Stages
     THEN stage' = stage + 1 /\ job' = Jobs(stage', grouped) /\ UNCHANGED pc
     ELSE pc' = "idle" /\ UNCHANGED <<stage, job>>
  /\ UNCHANGED <<now, nth, grouped, loopVars, worldVars, histVars, sessVars>>

-----------------------------------------------------------------------------
(* The worlds. External: transactions run one at a time, in order.           *)

(* The sessions that are still open and in the world; the loops of the batch *)
(* run side by side, unless no session is left.                              *)
Begin(w) ==
  LET h == Head(queue[w])
      valid == {s \in h.sessions : s \notin closed /\ loc[s] = w}
  IN
  /\ tx[w] = NoTx /\ queue[w] # <<>>
  /\ queue' = [queue EXCEPT ![w] = Tail(@)]
  /\ tx' = [tx EXCEPT ![w] = IF valid = {} /\ ~h.global THEN NoTx ELSE [h EXCEPT !.sessions = valid]]
  /\ UNCHANGED <<tickVars, loopVars, job, histVars, sessVars>>

(* executeLoopForSessions ends for one loop; the last ends the transaction.  *)
RunLoop(w, l) ==
  /\ tx[w] # NoTx /\ l \in tx[w].loops
  /\ tx' = [tx EXCEPT ![w] = IF tx[w].loops = {l} THEN NoTx
                              ELSE [tx[w] EXCEPT !.loops = tx[w].loops \ {l}]]
  /\ LET these == {<<tx[w].tick, l, s>> : s \in tx[w].sessions} IN
     ran' = ran \cup these /\ again' = (again \/ ran \cap these # {})
  /\ UNCHANGED <<tickVars, loopVars, job, queue, sessVars>>

(* A player changes worlds, between two transactions, or its session closes. *)
Move(s, w) ==
  /\ s \notin closed /\ w # loc[s] /\ tx[loc[s]] = NoTx
  /\ loc' = [loc EXCEPT ![s] = w]
  /\ UNCHANGED <<tickVars, loopVars, job, worldVars, histVars, closed>>

Close(s) ==
  /\ s \notin closed /\ closed' = closed \cup {s}
  /\ UNCHANGED <<tickVars, loopVars, job, worldVars, histVars, loc>>

-----------------------------------------------------------------------------
Next ==
  \/ \E t \in Times : TickStart(t)
  \/ NextGlobal \/ Group \/ NextStage
  \/ \E w \in Worlds :
       \/ Filter(w) \/ Exec(w) \/ StoreNext(w) \/ CheckBehind(w) \/ CatchUp(w) \/ Begin(w)
       \/ \E l \in Loops : MarkRun(w, l) \/ RunLoop(w, l)
  \/ \E s \in Sessions : Close(s) \/ \E w \in Worlds : Move(s, w)

Spec == Init /\ [][Next]_vars

-----------------------------------------------------------------------------
(* Properties.                                                               *)

(* However late ticks come, a loop does not make up for lost runs in a       *)
(* burst: three runs in a row take an interval at least. Two may be closer,  *)
(* since a run just an interval late leaves the loop due at once.            *)
NoBurst ==
  [][\A l \in Loops : lastRun'[l] # lastRun[l] /\ prevRun[l] # 0
       => lastRun'[l] - prevRun[l] >= Interval[l]]_vars

(* A tick leaves no loop of an inhabited world behind: whatever was overdue  *)
(* has been run and is due again no earlier than now.                        *)
NeverBehind ==
  pc = "jobs" /\ stage = Stages /\ AllWaited /\ (\E w \in Worlds : grouped[w] # {}) =>
    \A s \in 1 .. Stages : \A k \in 1 .. Len(Batches[s]) : \A l \in Batches[s][k] :
      Interval[l] > 0 => nextRun[l] >= now

(* A loop runs at most once in a tick for a session, whichever worlds the    *)
(* player goes through while the tick's transactions wait in their queues.   *)
OncePerTick == ~again

-----------------------------------------------------------------------------
(* What the documentation promises and the code does not keep.               *)

(* "for all sessions that match": a loop that this tick has run in one world *)
(* is due for the next world as well.                                        *)
EveryWorldRuns ==
  \A w \in Worlds : job[w].at = "filter" /\ pc = "jobs" =>
    \A l \in StageBatches[job[w].k] : lastRun[l] = now => ShouldRun(l)

=============================================================================
