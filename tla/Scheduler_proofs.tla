-------------------------- MODULE Scheduler_proofs ---------------------------
(****************************************************************************)
(* Proofs about the two parts of the scheduler that drive everything else.  *)
(*                                                                          *)
(* Loops, for any loops, intervals, batches, worlds and ticks: a loop does  *)
(* not run in a burst, a tick leaves none behind, and no loop runs twice    *)
(* for a session in a tick. The first two rest on what MarkRun does to      *)
(* nextRun, though the jobs of several worlds may be inside it for one loop *)
(* at once, reading and writing what the others write; the third on what    *)
(* waits in the worlds' queues.                                             *)
(*                                                                          *)
(* Lifecycle, for any number of callers, workers, worlds and ticks: however *)
(* starts, shutdowns and a panic fall, no channel is closed twice and no    *)
(* job is sent on a closed one.                                             *)
(****************************************************************************)
EXTENDS Loops, Lifecycle, TLAPS


MarkSteps == {"store", "check", "late"}

JobTypes == [at : {"idle", "filter", "exec", "mark"} \cup MarkSteps, k : Nat, due : SUBSET Loops,
             loop : Loops \cup {NoLoop}, next : Nat]

Typed ==
  /\ now \in Nat /\ nextRun \in [Loops -> Nat]
  /\ lastRun \in [Loops -> Nat] /\ prevRun \in [Loops -> Nat]
  /\ stage \in 1 .. Stages /\ job \in [Worlds -> JobTypes]

(* A job at work is at one of its stage's batches.                           *)
IndexOK == \A w \in Worlds : Active(w) => job[w].k \in 1 .. Len(StageBatches)

(* The job of a world has read nextRun of a loop and may still store it; no  *)
(* job has.                                                                  *)
Marking(w, l) == job[w].at \in MarkSteps /\ job[w].loop = l

Settled(l) == \A w \in Worlds : ~Marking(w, l)

(* A loop that no job is marking is due no earlier than its last run, and an *)
(* interval after the one before it.                                         *)
Spaced(l) ==
  /\ prevRun[l] <= lastRun[l] /\ lastRun[l] <= now
  /\ Interval[l] > 0 =>
       /\ prevRun[l] <= nextRun[l]
       /\ Settled(l) => /\ lastRun[l] <= nextRun[l]
                        /\ prevRun[l] # 0 => prevRun[l] + Interval[l] <= nextRun[l]

SpacedOK == \A l \in Loops : Spaced(l)

(* What a job is about to store, and what anyone has stored since, is an     *)
(* interval after the run before this tick's.                                *)
StoreOK(w, l) ==
  Marking(w, l) =>
    /\ l \in job[w].due /\ Interval[l] > 0 /\ lastRun[l] = now
    /\ job[w].at = "store" => prevRun[l] + Interval[l] <= job[w].next
    /\ job[w].at # "store" => prevRun[l] + Interval[l] <= nextRun[l]

StoresOK == \A w \in Worlds : \A l : StoreOK(w, l)

(* What a job has found due is due until another job marks it in this tick.  *)
MarkedOK ==
  \A w \in Worlds : job[w].at \notin {"idle", "filter"} => \A l \in job[w].due :
    Interval[l] > 0 /\ lastRun[l] # now => nextRun[l] <= now

(* Not overdue any more, or about to be marked.                              *)
Served(l) == Interval[l] > 0 => nextRun[l] >= now \/ ~Settled(l)

ServedIn(s, k) == \A l \in Batches[s][k] : Served(l)

(* How far the job of an inhabited world has come.                           *)
JobOK(w) ==
  /\ \A s \in 1 .. stage - 1 : \A k \in 1 .. Len(Batches[s]) : ServedIn(s, k)
  /\ Active(w) => \A k \in 1 .. job[w].k - 1 : ServedIn(stage, k)
  /\ job[w].at \notin {"idle", "filter"} =>
       \A l \in Batches[stage][job[w].k] : l \in job[w].due \/ Served(l)
  /\ ~Active(w) => \A k \in 1 .. Len(Batches[stage]) : ServedIn(stage, k)

JobsOK == pc = "jobs" => \A w \in Worlds : grouped[w] # {} => JobOK(w)

(* Between two ticks no job is at work.                                      *)
IdleOK == pc = "idle" => AllWaited

IInv == Typed /\ IndexOK /\ SpacedOK /\ StoresOK /\ MarkedOK /\ JobsOK /\ IdleOK

-----------------------------------------------------------------------------
LEMMA BatchCounts ==
  /\ Interval \in [Loops -> Nat] /\ Stages \in Nat \ {0}
  /\ \A s \in 1 .. Stages : /\ Len(Batches[s]) \in Nat /\ Len(GlobalBatches[s]) \in Nat
                            /\ Batches[s] # <<>> => 1 <= Len(Batches[s])
                            /\ GlobalBatches[s] # <<>> => 1 <= Len(GlobalBatches[s])
                            /\ Batches[s] = <<>> => Len(Batches[s]) = 0
<1>1. \A q \in Seq(SUBSET Loops) :
        Len(q) \in Nat /\ (q # <<>> => 1 <= Len(q)) /\ (q = <<>> => Len(q) = 0)
  OBVIOUS
<1>2. \A s \in 1 .. Stages : Batches[s] \in Seq(SUBSET Loops) /\ GlobalBatches[s] \in Seq(SUBSET Loops)
  BY BatchAssumption
<1> QED BY <1>1, <1>2, LoopAssumption

LEMMA BatchLoops ==
  ASSUME NEW s \in 1 .. Stages
  PROVE  /\ \A k \in 1 .. Len(Batches[s]) : \A l \in Batches[s][k] : l \in Loops
         /\ \A k \in 1 .. Len(GlobalBatches[s]) : \A l \in GlobalBatches[s][k] : l \in Loops
<1>1. \A q \in Seq(SUBSET Loops) : \A k \in 1 .. Len(q) : \A l \in q[k] : l \in Loops
  <2> SUFFICES ASSUME NEW q \in Seq(SUBSET Loops), NEW k \in 1 .. Len(q) PROVE q[k] \in SUBSET Loops
    OBVIOUS
  <2> QED OBVIOUS
<1>2. Batches[s] \in Seq(SUBSET Loops) /\ GlobalBatches[s] \in Seq(SUBSET Loops)
  BY BatchAssumption
<1> QED BY <1>1, <1>2

LEMMA JobsTyped ==
  /\ NoJob \in JobTypes /\ NoJob.at = "idle" /\ NoJob.k = 1
  /\ Started \in JobTypes /\ Started.at = "filter" /\ Started.k = 1
  /\ \A n \in Nat : LET j == [NoJob EXCEPT !.at = "filter", !.k = n] IN
       j \in JobTypes /\ j.at = "filter" /\ j.k = n
  BY DEF NoJob, Started, JobTypes, MarkSteps

LEMMA StartHolds == Init => IInv
<1> SUFFICES ASSUME Init PROVE IInv
  OBVIOUS
<1>1. Typed
  <2>1. job \in [Worlds -> JobTypes]
    BY JobsTyped DEF Init
  <2>2. nextRun \in [Loops -> Nat]
    <3>1. Built \subseteq Nat
      BY BoundAssumption
    <3> QED BY <3>1 DEF Init
  <2>3. lastRun \in [Loops -> Nat] /\ prevRun \in [Loops -> Nat]
    BY DEF Init
  <2>4. now \in Nat /\ stage \in 1 .. Stages
    BY BoundAssumption, LoopAssumption DEF Init
  <2> QED BY <2>1, <2>2, <2>3, <2>4 DEF Typed
<1>2. IndexOK /\ MarkedOK /\ JobsOK /\ StoresOK /\ IdleOK
  BY JobsTyped DEF Init, IndexOK, Active, MarkedOK, JobsOK, StoresOK, StoreOK, Marking, MarkSteps,
     IdleOK, AllWaited
<1>3. SpacedOK
  BY <1>1, BoundAssumption DEF Init, SpacedOK, Spaced, Typed
<1> QED BY <1>1, <1>2, <1>3 DEF IInv

-----------------------------------------------------------------------------
(* A step of the tick's own goroutine, between the jobs.                     *)
Between == (\E t \in Times : TickStart(t)) \/ NextGlobal \/ Group \/ NextStage

LEMMA StartedJobs ==
  ASSUME NEW s \in 1 .. Stages
  PROVE  /\ \A n : /\ GlobalJobs(n, s) \in [Worlds -> JobTypes]
                   /\ \A w \in Worlds :
                        LET j == GlobalJobs(n, s)[w] IN
                        j.at \in {"idle", "filter"} /\ (j.at # "idle" => j.k \in 1 .. Len(GlobalBatches[s]))
         /\ \A g : /\ Jobs(s, g) \in [Worlds -> JobTypes]
                   /\ \A w \in Worlds :
                        LET j == Jobs(s, g)[w] IN
                        /\ j.at \in {"idle", "filter"} /\ (j.at # "idle" => j.k \in 1 .. Len(Batches[s]) /\ j.k = 1)
                        /\ j.at = "idle" /\ g[w] # {} => Len(Batches[s]) = 0
<1>1. Len(Batches[s]) \in Nat /\ Len(GlobalBatches[s]) \in Nat
  BY BatchCounts
<1>2. ASSUME NEW n
      PROVE  /\ GlobalJobs(n, s) \in [Worlds -> JobTypes]
             /\ \A w \in Worlds :
                  \/ GlobalJobs(n, s)[w] = Started /\ GlobalBatches[s] # <<>>
                  \/ GlobalJobs(n, s)[w] = NoJob
  BY JobsTyped DEF GlobalJobs
<1>3. ASSUME NEW g
      PROVE  /\ Jobs(s, g) \in [Worlds -> JobTypes]
             /\ \A w \in Worlds :
                  \/ Jobs(s, g)[w] = Started /\ Batches[s] # <<>>
                  \/ Jobs(s, g)[w] = NoJob /\ (g[w] = {} \/ Batches[s] = <<>>)
  BY JobsTyped DEF Jobs
<1>4. /\ Batches[s] # <<>> => 1 \in 1 .. Len(Batches[s])
      /\ GlobalBatches[s] # <<>> => 1 \in 1 .. Len(GlobalBatches[s])
      /\ Batches[s] = <<>> => Len(Batches[s]) = 0
  BY <1>1, BatchCounts
<1>5. /\ NoJob.at = "idle" /\ Started.at = "filter" /\ Started.k = 1
  BY JobsTyped
<1>6. ASSUME NEW n, NEW w \in Worlds
      PROVE  LET j == GlobalJobs(n, s)[w] IN
             j.at \in {"idle", "filter"} /\ (j.at # "idle" => j.k \in 1 .. Len(GlobalBatches[s]))
  BY <1>2, <1>4, <1>5
<1>7. ASSUME NEW g, NEW w \in Worlds
      PROVE  LET j == Jobs(s, g)[w] IN
             /\ j.at \in {"idle", "filter"} /\ (j.at # "idle" => j.k \in 1 .. Len(Batches[s]) /\ j.k = 1)
             /\ j.at = "idle" /\ g[w] # {} => Len(Batches[s]) = 0
  BY <1>3, <1>4, <1>5
<1> QED BY <1>2, <1>3, <1>6, <1>7

LEMMA BetweenKeeps ==
  ASSUME Typed, Between
  PROVE  /\ Typed' /\ IndexOK' /\ UNCHANGED loopVars /\ now <= now'
         /\ \A w \in Worlds : job'[w].at \in {"idle", "filter"}
<1>1. CASE \E t \in Times : TickStart(t)
  <2> PICK t \in Times : TickStart(t)
    BY <1>1
  <2>1. now' = t /\ now < t /\ pc' = "global" /\ stage' = 1 /\ job' = GlobalJobs(1, 1) /\ UNCHANGED loopVars
    BY DEF TickStart
  <2>2. t \in Nat /\ 1 \in 1 .. Stages
    BY BoundAssumption, LoopAssumption DEF Times
  <2>3. Typed'
    BY <2>1, <2>2, StartedJobs DEF Typed, loopVars
  <2>4. IndexOK' /\ \A w \in Worlds : job'[w].at \in {"idle", "filter"}
    BY <2>1, <2>2, StartedJobs DEF IndexOK, Active, StageBatches
  <2> QED BY <2>1, <2>2, <2>3, <2>4 DEF Typed
<1>2. CASE NextGlobal
  <2>1. now' = now /\ pc' = "global" /\ job' = GlobalJobs(nth', stage') /\ UNCHANGED loopVars
    BY <1>2 DEF NextGlobal
  <2>2. stage' \in 1 .. Stages
    BY <1>2, LoopAssumption DEF NextGlobal, Typed
  <2>3. Typed'
    BY <2>1, <2>2, StartedJobs DEF Typed, loopVars
  <2>4. IndexOK' /\ \A w \in Worlds : job'[w].at \in {"idle", "filter"}
    BY <2>1, <2>2, StartedJobs DEF IndexOK, Active, StageBatches
  <2> QED BY <2>1, <2>3, <2>4 DEF Typed
<1>3. CASE Group
  <2>1. now' = now /\ pc' = "jobs" /\ stage' = 1 /\ job' = Jobs(1, grouped') /\ UNCHANGED loopVars
    BY <1>3 DEF Group
  <2>2. 1 \in 1 .. Stages
    BY LoopAssumption
  <2>3. Typed'
    BY <2>1, <2>2, StartedJobs DEF Typed, loopVars
  <2>4. IndexOK' /\ \A w \in Worlds : job'[w].at \in {"idle", "filter"}
    BY <2>1, <2>2, StartedJobs DEF IndexOK, Active, StageBatches
  <2> QED BY <2>1, <2>3, <2>4 DEF Typed
<1>4. CASE NextStage
  <2>1. now' = now /\ AllWaited /\ UNCHANGED loopVars /\ pc = "jobs"
    BY <1>4 DEF NextStage
  <2>2. CASE stage < Stages
    <3>1. pc' = "jobs" /\ stage' = stage + 1 /\ job' = Jobs(stage', grouped)
      BY <1>4, <2>1, <2>2 DEF NextStage
    <3>2. stage' \in 1 .. Stages
      BY <2>2, <3>1, LoopAssumption DEF Typed
    <3>3. Typed'
      BY <2>1, <3>1, <3>2, StartedJobs DEF Typed, loopVars
    <3>4. IndexOK' /\ \A w \in Worlds : job'[w].at \in {"idle", "filter"}
      BY <3>1, <3>2, StartedJobs DEF IndexOK, Active, StageBatches
    <3> QED BY <2>1, <3>3, <3>4 DEF Typed
  <2>3. CASE ~(stage < Stages)
    <3>1. UNCHANGED <<stage, job>>
      BY <1>4, <2>3 DEF NextStage
    <3> QED BY <2>1, <3>1 DEF Typed, IndexOK, AllWaited, Active, loopVars
  <2> QED BY <2>2, <2>3
<1> QED BY <1>1, <1>2, <1>3, <1>4 DEF Between

(* No job is marking a loop when the tick goes on, nor is one afterwards.    *)
LEMMA BetweenLoops ==
  ASSUME IInv, Between
  PROVE  /\ SpacedOK' /\ StoresOK' /\ MarkedOK' /\ IdleOK'
         /\ \A l \in Loops : Settled(l) /\ Settled(l)'
<1>1. AllWaited
  BY DEF Between, TickStart, NextGlobal, Group, NextStage, IInv, IdleOK
<1>2. /\ Typed /\ Typed' /\ UNCHANGED loopVars /\ now <= now'
      /\ \A w \in Worlds : job'[w].at \in {"idle", "filter"}
  BY BetweenKeeps DEF IInv
<1>3. \A w \in Worlds : \A l : ~Marking(w, l) /\ ~Marking(w, l)'
  BY <1>1, <1>2 DEF AllWaited, Active, Marking, MarkSteps
<1>4. \A l : Settled(l) /\ Settled(l)'
  BY <1>3 DEF Settled
<1>5. ASSUME NEW l \in Loops PROVE Spaced(l)'
  BY <1>2, <1>4 DEF IInv, SpacedOK, Spaced, loopVars, Typed
<1>6. SpacedOK' /\ StoresOK' /\ MarkedOK'
  BY <1>2, <1>3, <1>5 DEF SpacedOK, StoresOK, StoreOK, MarkedOK
<1>7. IdleOK'
  BY <1>1 DEF Between, TickStart, NextGlobal, Group, NextStage, IdleOK, AllWaited, Active
<1> QED BY <1>4, <1>6, <1>7

LEMMA BetweenJobs ==
  ASSUME IInv, Between
  PROVE  JobsOK'
<1> USE DEF IInv
<1>1. CASE (\E t \in Times : TickStart(t)) \/ NextGlobal
  BY <1>1 DEF TickStart, NextGlobal, JobsOK
<1>2. CASE Group
  <2>1. stage' = 1 /\ job' = Jobs(1, grouped') /\ 1 \in 1 .. Stages
    BY <1>2, LoopAssumption DEF Group
  <2> SUFFICES ASSUME NEW w \in Worlds, (grouped[w] # {})' PROVE JobOK(w)'
    BY DEF JobsOK
  <2> QED BY <2>1, StartedJobs DEF JobOK, Active
<1>3. CASE NextStage
  <2>1. pc = "jobs" /\ AllWaited /\ UNCHANGED <<now, grouped, loopVars>>
    BY <1>3 DEF NextStage
  <2>2. CASE stage < Stages
    <3>1. stage' = stage + 1 /\ job' = Jobs(stage', grouped)
      BY <1>3, <2>2 DEF NextStage
    <3>2. stage' \in 1 .. Stages /\ stage \in 1 .. Stages
      BY <2>2, <3>1, LoopAssumption DEF Typed
    <3> SUFFICES ASSUME NEW w \in Worlds, grouped[w] # {} PROVE JobOK(w)'
      BY <2>1 DEF JobsOK
    <3>3. JobOK(w) /\ ~Active(w)
      BY <2>1 DEF JobsOK, AllWaited
    <3>4. ASSUME NEW s \in 1 .. Stages, NEW k \in 1 .. Len(Batches[s]), ServedIn(s, k)
          PROVE  ServedIn(s, k)'
      <4>1. \A l \in Batches[s][k] : l \in Loops /\ Settled(l)
        BY BatchLoops, BetweenLoops
      <4> QED BY <2>1, <3>4, <4>1 DEF ServedIn, Served, loopVars
    <3>5. \A s \in 1 .. stage' - 1 : \A k \in 1 .. Len(Batches[s]) : ServedIn(s, k)'
      <4> SUFFICES ASSUME NEW s \in 1 .. stage' - 1, NEW k \in 1 .. Len(Batches[s]) PROVE ServedIn(s, k)'
        OBVIOUS
      <4>1. s \in 1 .. Stages /\ (s = stage \/ s \in 1 .. stage - 1)
        BY <3>1, <3>2, LoopAssumption
      <4>2. ServedIn(s, k)
        BY <3>3, <4>1 DEF JobOK
      <4> QED BY <3>4, <4>1, <4>2
    <3>6. /\ job'[w].at \in {"idle", "filter"} /\ (job'[w].at # "idle" => job'[w].k = 1)
          /\ job'[w].at = "idle" => Len(Batches[stage']) = 0
      BY <3>1, <3>2, StartedJobs
    <3> QED BY <3>5, <3>6 DEF JobOK, Active
  <2>3. CASE ~(stage < Stages)
    BY <1>3, <2>3 DEF NextStage, JobsOK
  <2> QED BY <2>2, <2>3
<1> QED BY <1>1, <1>2, <1>3 DEF Between

-----------------------------------------------------------------------------
(* What a job does.                                                          *)

LEMMA AdvancedTyped ==
  ASSUME Typed, IndexOK, NEW w \in Worlds, Active(w)
  PROVE  /\ Advanced(w) \in JobTypes /\ Advanced(w).at \in {"idle", "filter"}
         /\ Advanced(w).at = "filter" =>
              Advanced(w).k = job[w].k + 1 /\ Advanced(w).k \in 1 .. Len(StageBatches)
         /\ Advanced(w).at = "idle" => job[w].k = Len(StageBatches)
<1>1. job[w].k \in 1 .. Len(StageBatches) /\ job[w].k + 1 \in Nat
  BY DEF IndexOK, Typed, JobTypes
<1>2. Len(StageBatches) \in Nat
  BY BatchCounts DEF StageBatches, Typed
<1>3. CASE job[w].k < Len(StageBatches)
  <2>1. Advanced(w) = [at |-> "filter", k |-> job[w].k + 1, due |-> {}, loop |-> NoLoop, next |-> 0]
    BY <1>3 DEF Advanced, NoJob
  <2> QED BY <1>1, <1>2, <1>3, <2>1 DEF JobTypes
<1>4. CASE ~(job[w].k < Len(StageBatches))
  <2>1. Advanced(w) = NoJob
    BY <1>4 DEF Advanced
  <2>2. job[w].k = Len(StageBatches)
    BY <1>1, <1>2, <1>4
  <2> QED BY <2>1, <2>2, JobsTyped
<1> QED BY <1>3, <1>4

LEMMA DueTyped ==
  ASSUME Typed, IndexOK, NEW w \in Worlds, Active(w)
  PROVE  Due(w) \subseteq Loops
<1>1. job[w].k \in 1 .. Len(StageBatches)
  BY DEF IndexOK
<1>2. \A l \in StageBatches[job[w].k] : l \in Loops
  BY <1>1, BatchLoops DEF StageBatches, Typed
<1> QED BY <1>2 DEF Due

Work(w) ==
  \/ Filter(w) \/ Exec(w) \/ StoreNext(w) \/ CheckBehind(w) \/ CatchUp(w)
  \/ \E l \in Loops : MarkRun(w, l)

(* A job that has marked a loop goes on with the next, or the next batch.    *)
LEMMA MarkedJob ==
  ASSUME Typed, IndexOK, NEW w \in Worlds, Active(w), NEW l \in job[w].due
  PROVE  /\ Marked(w, l) \in JobTypes /\ \A x : ~(Marked(w, l).at \in MarkSteps /\ Marked(w, l).loop = x)
         /\ \/ job[w].due = {l} /\ Marked(w, l) = Advanced(w)
            \/ /\ Marked(w, l).at = "mark" /\ Marked(w, l).k = job[w].k
               /\ Marked(w, l).due = job[w].due \ {l}
<1>1. job[w] \in JobTypes /\ Advanced(w) \in JobTypes /\ Advanced(w).at \in {"idle", "filter"}
  BY AdvancedTyped DEF Typed
<1>2. CASE job[w].due = {l}
  BY <1>1, <1>2 DEF Marked, MarkSteps
<1>3. CASE job[w].due # {l}
  <2>1. Marked(w, l) = [job[w] EXCEPT !.at = "mark", !.due = @ \ {l}, !.loop = NoLoop, !.next = 0]
    BY <1>3 DEF Marked
  <2> PICK j : j = job[w]
    OBVIOUS
  <2> PICK d : d = j.due \ {l}
    OBVIOUS
  <2>2. Marked(w, l) = [j EXCEPT !.at = "mark", !.due = d, !.loop = NoLoop, !.next = 0]
    BY <2>1
  <2>3. d \in SUBSET Loops /\ j \in JobTypes
    BY <1>1 DEF JobTypes
  <2>4. /\ Marked(w, l).at = "mark" /\ Marked(w, l).k = j.k /\ Marked(w, l).due = d
        /\ Marked(w, l) \in JobTypes
    <3> PICK r : r = [at |-> "mark", k |-> j.k, due |-> d, loop |-> NoLoop, next |-> 0]
      OBVIOUS
    <3>1. Marked(w, l) = r
      BY <2>2, <2>3 DEF JobTypes
    <3>2. r.at = "mark" /\ r.k = j.k /\ r.due = d
      OBVIOUS
    <3>3. r \in JobTypes
      BY <2>3 DEF JobTypes
    <3> QED BY <3>1, <3>2, <3>3
  <2>5. Marked(w, l).at \notin MarkSteps
    BY <2>4 DEF MarkSteps
  <2>6. Marked(w, l).k = job[w].k /\ Marked(w, l).due = job[w].due \ {l}
    BY <2>4
  <2> QED BY <2>4, <2>5, <2>6
<1> QED BY <1>2, <1>3

(* What a step of a job leaves alone.                                        *)
Stays(w) ==
  /\ UNCHANGED <<now, pc, stage, grouped>>
  /\ \A v \in Worlds \ {w} : job'[v] = job[v] /\ \A l : Marking(v, l)' <=> Marking(v, l)

LEMMA WorkStays ==
  ASSUME Typed, NEW w \in Worlds, Work(w)
  PROVE  /\ Stays(w) /\ Active(w) /\ DOMAIN job = Worlds /\ job[w] \in JobTypes /\ StageBatches' = StageBatches
         /\ job' = [job EXCEPT ![w] = job'[w]]
<1>1. UNCHANGED <<now, pc, stage, grouped>> /\ Active(w) /\ DOMAIN job = Worlds
  BY DEF Work, Filter, Exec, StoreNext, CheckBehind, CatchUp, MarkRun, tickVars, Active, Typed
<1>2. job' = [job EXCEPT ![w] = job'[w]]
  BY <1>1 DEF Work, Filter, Exec, StoreNext, CheckBehind, CatchUp, MarkRun
<1>3. \A v \in Worlds \ {w} : job'[v] = job[v]
  BY <1>1, <1>2
<1>4. \A v \in Worlds \ {w} : \A l : Marking(v, l)' <=> Marking(v, l)
  BY <1>3 DEF Marking
<1> QED BY <1>1, <1>2, <1>3, <1>4 DEF Stays, Typed, StageBatches

(* A step of a job that leaves no loop of its batch behind.                  *)
LEMMA JobGoes ==
  ASSUME Typed, IndexOK, JobsOK, NEW w \in Worlds, Active(w), Stays(w),
         \A l \in Loops : Served(l) => Served(l)',
         \/ job'[w] = Advanced(w) /\ (pc = "jobs" /\ grouped[w] # {} =>
              \A l \in StageBatches[job[w].k] : Served(l)')
         \/ /\ job'[w].k = job[w].k /\ job'[w].at \notin {"idle", "filter"}
            /\ pc = "jobs" /\ grouped[w] # {} =>
                 \A l \in StageBatches[job[w].k] : l \in job'[w].due \/ Served(l)'
  PROVE  IndexOK' /\ JobsOK'
<1>1. /\ UNCHANGED <<now, pc, stage, grouped>> /\ StageBatches' = StageBatches
      /\ \A v \in Worlds \ {w} : job'[v] = job[v]
  BY DEF Stays, StageBatches
<1>2. \/ /\ job'[w] = Advanced(w) /\ job'[w].at = "filter"
         /\ job'[w].k = job[w].k + 1 /\ job'[w].k \in 1 .. Len(StageBatches)
      \/ job'[w] = Advanced(w) /\ job'[w].at = "idle" /\ job[w].k = Len(StageBatches)
      \/ job'[w].k = job[w].k /\ job'[w].at \notin {"idle", "filter"}
  BY AdvancedTyped
<1>3. IndexOK'
  BY <1>1, <1>2 DEF IndexOK, Active
<1>4. JobsOK'
  <2> SUFFICES ASSUME pc = "jobs", NEW v \in Worlds, grouped[v] # {}, JobOK(v) PROVE JobOK(v)'
    BY <1>1 DEF JobsOK
  <2>1. /\ stage \in 1 .. Stages /\ StageBatches = Batches[stage] /\ Len(Batches[stage]) \in Nat
        /\ \A s \in 1 .. stage - 1 : s \in 1 .. Stages
    BY BatchCounts, LoopAssumption DEF Typed, StageBatches
  <2>2. \A s \in 1 .. Stages : \A k \in 1 .. Len(Batches[s]) : ServedIn(s, k) => ServedIn(s, k)'
    BY BatchLoops DEF ServedIn
  <2>3. \A s \in 1 .. stage - 1 : \A k \in 1 .. Len(Batches[s]) : ServedIn(s, k)'
    BY <2>1, <2>2 DEF JobOK
  <2>4. Active(v) => job[v].k \in 1 .. Len(Batches[stage])
    BY <2>1 DEF IndexOK
  <2>5. Active(v) => \A k \in 1 .. job[v].k - 1 : ServedIn(stage, k)'
    <3> SUFFICES ASSUME Active(v), NEW k \in 1 .. job[v].k - 1 PROVE ServedIn(stage, k)'
      OBVIOUS
    <3>1. k \in 1 .. Len(Batches[stage])
      BY <2>1, <2>4
    <3>2. ServedIn(stage, k)
      BY DEF JobOK
    <3> QED BY <1>1, <2>1, <2>2, <3>1, <3>2
  <2>6. ~Active(v) => \A k \in 1 .. Len(Batches[stage]) : ServedIn(stage, k)'
    BY <1>1, <2>1, <2>2 DEF JobOK
  <2>7. CASE v # w
    <3>1. job'[v] = job[v]
      BY <1>1, <2>7
    <3>2. job[v].at \notin {"idle", "filter"} =>
            \A l \in Batches[stage][job[v].k] : l \in job[v].due \/ Served(l)'
      <4> SUFFICES ASSUME job[v].at \notin {"idle", "filter"}, NEW l \in Batches[stage][job[v].k],
                          l \notin job[v].due
                   PROVE  Served(l)'
        OBVIOUS
      <4>1. l \in Loops
        BY <2>1, <2>4, BatchLoops DEF Active
      <4> QED BY <4>1 DEF JobOK
    <3> QED BY <1>1, <2>3, <2>5, <2>6, <3>1, <3>2 DEF JobOK, Active
  <2>8. CASE v = w
    <3>1. CASE job'[w] = Advanced(w)
      <4>0. \A l \in StageBatches[job[w].k] : Served(l)'
        <5>1. job'[w].at \in {"idle", "filter"} /\ pc = "jobs" /\ grouped[w] # {}
          BY <2>8, <3>1, AdvancedTyped
        <5> QED BY <5>1
      <4>1. ASSUME NEW k, k = job[w].k PROVE ServedIn(stage, k)'
        BY <1>1, <2>1, <4>0, <4>1 DEF ServedIn
      <4>2. \A k \in 1 .. job[w].k : ServedIn(stage, k)'
        <5>1. \A k \in 1 .. job[w].k : k = job[w].k \/ k \in 1 .. job[w].k - 1
          BY <2>4, <2>8
        <5> QED BY <2>5, <2>8, <4>1, <5>1
      <4>3. CASE job'[w].at = "filter"
        <5>1. 1 .. job'[w].k - 1 = 1 .. job[w].k
          BY <1>2, <2>4, <2>8, <4>3
        <5> QED BY <1>1, <2>3, <2>8, <4>2, <4>3, <5>1 DEF JobOK, Active
      <4>4. CASE job'[w].at = "idle"
        <5>1. job[w].k = Len(Batches[stage])
          BY <1>2, <2>1, <4>4
        <5>2. \A k \in 1 .. Len(Batches[stage]) : ServedIn(stage, k)'
          BY <4>2, <5>1
        <5> QED BY <1>1, <2>3, <2>8, <4>4, <5>2 DEF JobOK, Active
      <4>5. job'[w].at \in {"idle", "filter"}
        BY <3>1, AdvancedTyped
      <4> QED BY <4>3, <4>4, <4>5
    <3>2. CASE job'[w].k = job[w].k /\ job'[w].at \notin {"idle", "filter"}
      <4>1. \A l \in Batches[stage][job[w].k] : l \in job'[w].due \/ Served(l)'
        BY <1>2, <2>1, <2>8, <3>2, AdvancedTyped
      <4> QED BY <1>1, <2>3, <2>5, <2>8, <3>2, <4>1 DEF JobOK, Active
    <3> QED BY <1>2, <3>1, <3>2
  <2> QED BY <2>7, <2>8
<1> QED BY <1>3, <1>4

(* A step in which a job touches no loop.                                    *)
LEMMA NoLoopGoes ==
  ASSUME IInv, NEW w \in Worlds, Stays(w), UNCHANGED <<nextRun, lastRun, prevRun>>,
         \A l : ~Marking(w, l) /\ ~Marking(w, l)',
         job'[w].at \notin {"idle", "filter"} => \A l \in job'[w].due :
           l \in Loops /\ (Interval[l] > 0 /\ lastRun[l] # now => nextRun[l] <= now)
  PROVE  /\ SpacedOK' /\ StoresOK' /\ MarkedOK'
         /\ \A l : Served(l)' <=> Served(l)
<1>1. now' = now /\ \A v \in Worlds \ {w} : job'[v] = job[v]
  BY DEF Stays
<1>2. \A v \in Worlds : \A l : Marking(v, l)' <=> Marking(v, l)
  BY DEF Stays
<1>3. \A l : Settled(l)' <=> Settled(l)
  BY <1>2 DEF Settled
<1>4. SpacedOK' /\ \A l : Served(l)' <=> Served(l)
  BY <1>1, <1>3 DEF IInv, SpacedOK, Spaced, Served
<1>5. StoresOK'
  <2> SUFFICES ASSUME NEW v \in Worlds, NEW l, Marking(v, l) PROVE StoreOK(v, l)'
    BY <1>2 DEF StoresOK, StoreOK
  <2>1. v # w /\ job'[v] = job[v] /\ StoreOK(v, l)
    BY <1>1 DEF IInv, StoresOK
  <2> QED BY <1>1, <1>2, <2>1 DEF StoreOK
<1>6. MarkedOK'
  <2> SUFFICES ASSUME NEW v \in Worlds, job'[v].at \notin {"idle", "filter"}, NEW l \in job'[v].due,
                      Interval[l] > 0, lastRun[l] # now
               PROVE  nextRun[l] <= now
    BY <1>1 DEF MarkedOK
  <2>1. CASE v = w
    BY <2>1
  <2>2. CASE v # w
    BY <1>1, <2>2 DEF IInv, MarkedOK
  <2> QED BY <2>1, <2>2
<1> QED BY <1>4, <1>5, <1>6

(* A step of a job inside MarkRun for loop l.                                *)
LEMMA LoopGoes ==
  ASSUME IInv, NEW w \in Worlds, Stays(w), NEW l \in Loops, lastRun'[l] = now,
         \A x \in Loops \ {l} :
           nextRun'[x] = nextRun[x] /\ lastRun'[x] = lastRun[x] /\ prevRun'[x] = prevRun[x],
         \A x : x # l => ~Marking(w, x) /\ ~Marking(w, x)',
         job[w].at \notin {"idle", "filter"},
         job'[w].at \notin {"idle", "filter"} => job'[w].due \subseteq job[w].due,
         lastRun[l] = now => prevRun'[l] = prevRun[l],
         nextRun'[l] = nextRun[l] \/ prevRun[l] + Interval[l] <= nextRun'[l],
         Spaced(l)', StoreOK(w, l)', Served(l)'
  PROVE  /\ SpacedOK' /\ StoresOK' /\ MarkedOK'
         /\ \A x \in Loops : Served(x) => Served(x)'
<1>1. now' = now /\ \A v \in Worlds \ {w} : job'[v] = job[v]
  BY DEF Stays
<1>2. \A v \in Worlds : \A x : v # w \/ x # l => (Marking(v, x)' <=> Marking(v, x))
  BY DEF Stays
<1>3. \A x : x # l => (Settled(x)' <=> Settled(x))
  BY <1>2 DEF Settled
<1>4. SpacedOK' /\ \A x \in Loops : Served(x) => Served(x)'
  <2> SUFFICES ASSUME NEW x \in Loops, x # l PROVE Spaced(x)' /\ (Served(x) => Served(x)')
    BY DEF SpacedOK
  <2> QED BY <1>1, <1>3 DEF IInv, SpacedOK, Spaced, Served
<1>5. StoresOK'
  <2> SUFFICES ASSUME NEW v \in Worlds, v # w, NEW x, Marking(v, x) PROVE StoreOK(v, x)'
    BY <1>2 DEF StoresOK, StoreOK
  <2>1. job'[v] = job[v] /\ StoreOK(v, x) /\ x \in Loops
    BY <1>1 DEF IInv, StoresOK, StoreOK, Typed, JobTypes
  <2>2. lastRun[x] = now /\ Interval[x] > 0 /\ x \in job[v].due
    BY <2>1 DEF StoreOK
  <2>3. CASE x # l
    BY <1>1, <2>1, <2>3 DEF StoreOK
  <2>4. CASE x = l
    BY <1>1, <2>1, <2>2, <2>4 DEF StoreOK
  <2> QED BY <2>3, <2>4
<1>6. MarkedOK'
  <2> SUFFICES ASSUME NEW v \in Worlds, job'[v].at \notin {"idle", "filter"}, NEW x \in job'[v].due,
                      Interval[x] > 0, lastRun'[x] # now
               PROVE  nextRun'[x] <= now
    BY <1>1 DEF MarkedOK
  <2>1. job[v].at \notin {"idle", "filter"} /\ x \in job[v].due
    BY <1>1
  <2>2. x \in Loops /\ x # l
    BY <2>1 DEF IInv, Typed, JobTypes
  <2> QED BY <2>1, <2>2 DEF IInv, MarkedOK
<1> QED BY <1>4, <1>5, <1>6

LEMMA FilterKeeps ==
  ASSUME IInv, NEW w \in Worlds, Filter(w)
  PROVE  IInv'
<1> USE DEF IInv
<1>1. /\ Stays(w) /\ Active(w) /\ DOMAIN job = Worlds /\ job[w] \in JobTypes /\ job[w].at = "filter"
      /\ UNCHANGED <<nextRun, lastRun, prevRun>> /\ UNCHANGED <<now, pc, stage, grouped>>
  BY WorkStays DEF Work, Filter, loopVars, Stays
<1>2. PICK n : n = [job[w] EXCEPT !.at = "exec", !.due = Due(w)]
  OBVIOUS
<1>3. Due(w) \subseteq Loops /\ Advanced(w) \in JobTypes /\ Advanced(w).at \in {"idle", "filter"}
  BY <1>1, DueTyped, AdvancedTyped
<1>4. n \in JobTypes /\ n.at = "exec" /\ n.due = Due(w) /\ n.k = job[w].k
  BY <1>1, <1>2, <1>3 DEF JobTypes
<1>5. \/ Due(w) = {} /\ job' = [job EXCEPT ![w] = Advanced(w)]
      \/ Due(w) # {} /\ job' = [job EXCEPT ![w] = n]
  BY <1>2 DEF Filter
<1>6. Typed'
  BY <1>1, <1>3, <1>4, <1>5 DEF Typed
<1>7. \A l \in job[w].due \cup Due(w) : l \in Loops
  BY <1>1, <1>3 DEF JobTypes
<1>8. \A l \in Loops : l \in Due(w) /\ Interval[l] > 0 => nextRun[l] <= now
  BY BatchCounts DEF Due, ShouldRun, Typed
<1>9. \A l : ~Marking(w, l) /\ ~Marking(w, l)'
  BY <1>1, <1>3, <1>4, <1>5 DEF Marking, MarkSteps
<1>10. /\ SpacedOK' /\ StoresOK' /\ MarkedOK'
       /\ \A l : Served(l)' <=> Served(l)
  <2>1. job'[w].at \notin {"idle", "filter"} => job'[w].due = Due(w)
    BY <1>1, <1>3, <1>4, <1>5
  <2> QED BY <1>1, <1>7, <1>8, <1>9, <2>1, NoLoopGoes
<1>11. \A l \in StageBatches[job[w].k] : l \in Due(w) \/ Served(l)'
  <2> SUFFICES ASSUME NEW l \in StageBatches[job[w].k], l \notin Due(w) PROVE Served(l)
    BY <1>10
  <2>1. l \in Loops
    BY <1>1, BatchLoops DEF IndexOK, StageBatches, Typed
  <2>2. ~ShouldRun(l)
    BY DEF Due
  <2> QED BY <1>1, <2>1, <2>2 DEF ShouldRun, Typed, Served
<1>12. IndexOK' /\ JobsOK'
  <2>1. CASE Due(w) = {}
    <3>1. job'[w] = Advanced(w)
      BY <1>1, <1>5, <2>1
    <3> QED BY <1>1, <1>10, <1>11, <2>1, <3>1, JobGoes
  <2>2. CASE Due(w) # {}
    <3>1. job'[w] = n
      BY <1>1, <1>5, <2>2
    <3> QED BY <1>1, <1>4, <1>10, <1>11, <3>1, JobGoes
  <2> QED BY <2>1, <2>2
<1>13. IdleOK'
  BY <1>1 DEF IdleOK, AllWaited
<1> QED BY <1>6, <1>10, <1>12, <1>13

LEMMA ExecKeeps ==
  ASSUME IInv, NEW w \in Worlds, Exec(w)
  PROVE  IInv'
<1> USE DEF IInv
<1>1. /\ Stays(w) /\ Active(w) /\ DOMAIN job = Worlds /\ job[w] \in JobTypes /\ job[w].at = "exec"
      /\ UNCHANGED <<nextRun, lastRun, prevRun>> /\ UNCHANGED <<now, pc, stage, grouped>>
  BY WorkStays DEF Work, Exec, loopVars, Stays
<1>2. PICK n : n = [job[w] EXCEPT !.at = "mark"]
  OBVIOUS
<1>3. n \in JobTypes /\ n.at = "mark" /\ n.due = job[w].due /\ n.k = job[w].k
  BY <1>1, <1>2 DEF JobTypes
<1>4. job' = [job EXCEPT ![w] = n] /\ job'[w] = n
  BY <1>1, <1>2 DEF Exec
<1>5. Typed'
  BY <1>1, <1>3, <1>4 DEF Typed
<1>6. \A l : ~Marking(w, l) /\ ~Marking(w, l)'
  BY <1>1, <1>3, <1>4 DEF Marking, MarkSteps
<1>7. /\ SpacedOK' /\ StoresOK' /\ MarkedOK'
      /\ \A l : Served(l)' <=> Served(l)
  <2>1. job[w].due \subseteq Loops
    BY <1>1 DEF JobTypes
  <2> QED BY <1>1, <1>3, <1>4, <1>6, <2>1, NoLoopGoes DEF MarkedOK
<1>8. pc = "jobs" /\ grouped[w] # {} =>
        \A l \in StageBatches[job[w].k] : l \in job'[w].due \/ Served(l)'
  BY <1>1, <1>3, <1>4, <1>7 DEF JobsOK, JobOK, StageBatches
<1>9. IndexOK' /\ JobsOK'
  BY <1>1, <1>3, <1>4, <1>7, <1>8, JobGoes
<1>10. IdleOK'
  BY <1>1 DEF IdleOK, AllWaited
<1> QED BY <1>5, <1>7, <1>9, <1>10

(* The end of MarkRun for loop l, or another step of it.                     *)
LEMMA MarkGoes ==
  ASSUME IInv, NEW w \in Worlds, Stays(w), Active(w), job[w].at \notin {"filter", "exec"},
         NEW l \in Loops, l \in job[w].due, Served(l)', \A x \in Loops : Served(x) => Served(x)',
         \/ job'[w] = Marked(w, l)
         \/ /\ job'[w].at \notin {"idle", "filter"} /\ job'[w].k = job[w].k
            /\ job'[w].due = job[w].due
  PROVE  IndexOK' /\ JobsOK' /\ IdleOK'
<1> USE DEF IInv
<1>1. pc = "jobs" /\ grouped[w] # {} =>
        \A x \in StageBatches[job[w].k] : x \in job[w].due \/ Served(x)'
  <2> SUFFICES ASSUME pc = "jobs", grouped[w] # {}, NEW x \in StageBatches[job[w].k], x \notin job[w].due
               PROVE  Served(x)'
    OBVIOUS
  <2>1. x \in Loops
    BY BatchLoops DEF IndexOK, StageBatches, Typed
  <2>2. JobOK(w) /\ job[w].at \notin {"idle", "filter"}
    BY DEF JobsOK, Active
  <2> QED BY <2>1, <2>2 DEF JobOK, StageBatches
<1>2. CASE job'[w] = Marked(w, l)
  <2>1. CASE job[w].due = {l} /\ Marked(w, l) = Advanced(w)
    BY <1>1, <1>2, <2>1, JobGoes DEF IdleOK, AllWaited, Stays
  <2>2. CASE Marked(w, l).at = "mark" /\ Marked(w, l).k = job[w].k /\ Marked(w, l).due = job[w].due \ {l}
    <3>1. /\ job'[w].k = job[w].k /\ job'[w].at \notin {"idle", "filter"}
          /\ pc = "jobs" /\ grouped[w] # {} =>
                 \A x \in StageBatches[job[w].k] : x \in job'[w].due \/ Served(x)'
      BY <1>1, <1>2, <2>2
    <3> QED BY <3>1, JobGoes DEF IdleOK, AllWaited, Stays
  <2> QED BY <2>1, <2>2, MarkedJob
<1>3. CASE /\ job'[w].at \notin {"idle", "filter"} /\ job'[w].k = job[w].k
           /\ job'[w].due = job[w].due
  BY <1>1, <1>3, JobGoes DEF IdleOK, AllWaited, Stays
<1> QED BY <1>2, <1>3

LEMMA LoopNats ==
  ASSUME Typed, NEW l \in Loops
  PROVE  Interval[l] \in Nat /\ nextRun[l] \in Nat /\ lastRun[l] \in Nat /\ prevRun[l] \in Nat /\ now \in Nat
  BY BatchCounts DEF Typed

LEMMA MarkRunKeeps ==
  ASSUME IInv, NEW w \in Worlds, NEW l \in Loops, MarkRun(w, l)
  PROVE  IInv'
<1> USE DEF IInv
<1>1. /\ Stays(w) /\ Active(w) /\ DOMAIN job = Worlds /\ job[w] \in JobTypes /\ job[w].at = "mark"
      /\ l \in job[w].due /\ nextRun' = nextRun /\ UNCHANGED <<now, pc, stage, grouped>>
  BY WorkStays DEF Work, MarkRun, Stays
<1>2. /\ lastRun' \in [Loops -> Nat] /\ prevRun' \in [Loops -> Nat] /\ lastRun'[l] = now
      /\ prevRun'[l] = IF lastRun[l] # now THEN lastRun[l] ELSE prevRun[l]
      /\ \A x \in Loops \ {l} : lastRun'[x] = lastRun[x] /\ prevRun'[x] = prevRun[x]
  BY DEF MarkRun, Typed
<1>3. PICK n : n = [job[w] EXCEPT !.at = "store", !.loop = l, !.next = nextRun[l] + Interval[l]]
  OBVIOUS
<1>4. /\ n \in JobTypes /\ n.at = "store" /\ n.due = job[w].due /\ n.k = job[w].k
      /\ n.loop = l /\ n.next = nextRun[l] + Interval[l]
  <2>1. nextRun[l] + Interval[l] \in Nat
    BY LoopNats
  <2>2. n \in JobTypes
    BY <1>1, <1>3, <2>1 DEF JobTypes, MarkSteps
  <2> QED BY <1>1, <1>3, <2>2 DEF JobTypes
<1>5. \/ Interval[l] = 0 /\ job' = [job EXCEPT ![w] = Marked(w, l)] /\ job'[w] = Marked(w, l)
      \/ Interval[l] # 0 /\ job' = [job EXCEPT ![w] = n] /\ job'[w] = n
  BY <1>1, <1>3 DEF MarkRun
<1>6. Typed'
  BY <1>1, <1>2, <1>4, <1>5, MarkedJob DEF Typed
<1>7. \A x : ~Marking(w, x) /\ (Marking(w, x)' => x = l /\ job'[w] = n)
  BY <1>1, <1>4, <1>5, MarkedJob DEF Marking, MarkSteps
<1>8. Interval[l] # 0 => Marking(w, l)' /\ ~Settled(l)'
  BY <1>4, <1>5 DEF Marking, MarkSteps, Settled
<1>9. lastRun[l] # now => Settled(l)
  BY DEF StoresOK, StoreOK, Settled
<1>10. prevRun'[l] <= nextRun[l] \/ Interval[l] = 0
  BY <1>2, <1>9, LoopNats DEF SpacedOK, Spaced
<1>11. Spaced(l)'
  <2>1. prevRun'[l] <= lastRun'[l] /\ lastRun'[l] <= now'
    BY <1>1, <1>2, LoopNats DEF SpacedOK, Spaced
  <2> QED BY <1>1, <1>8, <1>10, <2>1, LoopNats DEF Spaced
<1>12. StoreOK(w, l)'
  <2> SUFFICES ASSUME Marking(w, l)' PROVE StoreOK(w, l)'
    BY DEF StoreOK
  <2>1. job'[w] = n /\ Interval[l] > 0
    BY <1>4, <1>5, <1>7, LoopNats, MarkedJob, <1>1 DEF Marking
  <2>2. prevRun'[l] + Interval[l] <= n.next
    <3>1. prevRun'[l] \in Nat
      BY <1>2
    <3> QED BY <1>4, <1>10, <2>1, <3>1, LoopNats
  <2> QED BY <1>1, <1>2, <1>4, <2>1, <2>2 DEF StoreOK
<1>13. Served(l)'
  BY <1>8 DEF Served
<1>14. job'[w].at \notin {"idle", "filter"} => job'[w].due \subseteq job[w].due
  BY <1>1, <1>4, <1>5, MarkedJob, AdvancedTyped
<1>15. /\ SpacedOK' /\ StoresOK' /\ MarkedOK'
       /\ \A x \in Loops : Served(x) => Served(x)'
  BY <1>1, <1>2, <1>7, <1>11, <1>12, <1>13, <1>14, LoopGoes
<1>16. IndexOK' /\ JobsOK' /\ IdleOK'
  BY <1>1, <1>4, <1>5, <1>13, <1>15, MarkGoes
<1> QED BY <1>6, <1>15, <1>16

(* The loop a job is inside MarkRun for.                                     *)
LEMMA MarkedLoop ==
  ASSUME IInv, NEW w \in Worlds, job[w].at \in MarkSteps, NEW l, l = job[w].loop
  PROVE  /\ l \in Loops /\ l \in job[w].due /\ lastRun[l] = now /\ Interval[l] > 0
         /\ prevRun[l] <= lastRun[l] /\ prevRun[l] <= nextRun[l]
         /\ job[w].at = "store" => prevRun[l] + Interval[l] <= job[w].next
         /\ job[w].at # "store" => prevRun[l] + Interval[l] <= nextRun[l]
         /\ Active(w) /\ job[w].next \in Nat
<1>1. StoreOK(w, l) /\ Marking(w, l) /\ job[w] \in JobTypes
  BY DEF IInv, StoresOK, Marking, Typed
<1>2. l \in Loops /\ l \in job[w].due
  BY <1>1 DEF StoreOK, JobTypes
<1>3. Spaced(l)
  BY <1>2 DEF IInv, SpacedOK
<1> QED BY <1>1, <1>2, <1>3 DEF StoreOK, Spaced, JobTypes, Active, MarkSteps

LEMMA StoreNextKeeps ==
  ASSUME IInv, NEW w \in Worlds, StoreNext(w)
  PROVE  IInv'
<1> USE DEF IInv
<1>1. PICK l : /\ l = job[w].loop /\ Stays(w) /\ DOMAIN job = Worlds /\ job[w] \in JobTypes
               /\ job[w].at = "store" /\ lastRun' = lastRun /\ prevRun' = prevRun
               /\ UNCHANGED <<now, pc, stage, grouped>>
  BY WorkStays DEF Work, StoreNext, Stays
<1>2. /\ l \in Loops /\ l \in job[w].due /\ lastRun[l] = now /\ Interval[l] > 0
      /\ prevRun[l] <= lastRun[l] /\ prevRun[l] + Interval[l] <= job[w].next
      /\ Active(w) /\ job[w].next \in Nat
  BY <1>1, MarkedLoop DEF MarkSteps
<1>3. nextRun' = [nextRun EXCEPT ![l] = job[w].next] /\ nextRun' \in [Loops -> Nat] /\ nextRun'[l] = job[w].next
      /\ \A x \in Loops \ {l} : nextRun'[x] = nextRun[x]
  BY <1>1, <1>2 DEF StoreNext, Typed
<1>4. PICK n : n = [job[w] EXCEPT !.at = "check", !.next = 0]
  OBVIOUS
<1>5. n \in JobTypes /\ n.at = "check" /\ n.due = job[w].due /\ n.k = job[w].k /\ n.loop = l
  BY <1>1, <1>4 DEF JobTypes, MarkSteps
<1>6. job' = [job EXCEPT ![w] = n] /\ job'[w] = n
  BY <1>1, <1>4 DEF StoreNext
<1>7. Typed'
  BY <1>1, <1>3, <1>5, <1>6 DEF Typed
<1>8. Marking(w, l)' /\ ~Settled(l)' /\ \A x : x # l => ~Marking(w, x) /\ ~Marking(w, x)'
  BY <1>1, <1>5, <1>6 DEF Marking, MarkSteps, Settled
<1>9. Spaced(l)'
  BY <1>1, <1>2, <1>3, <1>8, LoopNats DEF Spaced
<1>10. StoreOK(w, l)' /\ Served(l)'
  BY <1>1, <1>2, <1>3, <1>5, <1>6, <1>8 DEF StoreOK, Served
<1>11. /\ SpacedOK' /\ StoresOK' /\ MarkedOK'
       /\ \A x \in Loops : Served(x) => Served(x)'
  BY <1>1, <1>2, <1>3, <1>5, <1>6, <1>8, <1>9, <1>10, LoopGoes
<1>12. IndexOK' /\ JobsOK' /\ IdleOK'
  BY <1>1, <1>2, <1>5, <1>6, <1>10, <1>11, MarkGoes
<1> QED BY <1>7, <1>11, <1>12

LEMMA CheckBehindKeeps ==
  ASSUME IInv, NEW w \in Worlds, CheckBehind(w)
  PROVE  IInv'
<1> USE DEF IInv
<1>1. PICK l : /\ l = job[w].loop /\ Stays(w) /\ DOMAIN job = Worlds /\ job[w] \in JobTypes
               /\ job[w].at = "check" /\ UNCHANGED <<nextRun, lastRun, prevRun>>
               /\ UNCHANGED <<now, pc, stage, grouped>>
  BY WorkStays DEF Work, CheckBehind, Stays, loopVars
<1>2. /\ l \in Loops /\ l \in job[w].due /\ lastRun[l] = now /\ Interval[l] > 0
      /\ prevRun[l] <= lastRun[l] /\ prevRun[l] <= nextRun[l] /\ prevRun[l] + Interval[l] <= nextRun[l]
      /\ Active(w)
  BY <1>1, MarkedLoop DEF MarkSteps
<1>3. PICK n : n = [job[w] EXCEPT !.at = "late"]
  OBVIOUS
<1>4. n \in JobTypes /\ n.at = "late" /\ n.due = job[w].due /\ n.k = job[w].k /\ n.loop = l
  BY <1>1, <1>3 DEF JobTypes, MarkSteps
<1>5. \/ Behind(l) /\ job' = [job EXCEPT ![w] = n] /\ job'[w] = n
      \/ ~Behind(l) /\ job' = [job EXCEPT ![w] = Marked(w, l)] /\ job'[w] = Marked(w, l)
  BY <1>1, <1>3 DEF CheckBehind
<1>6. Typed'
  BY <1>1, <1>2, <1>4, <1>5, MarkedJob DEF Typed
<1>7. /\ \A x : x # l => ~Marking(w, x) /\ ~Marking(w, x)'
      /\ Marking(w, l)' <=> Behind(l)
      /\ Behind(l) => ~Settled(l)'
  BY <1>1, <1>2, <1>4, <1>5, MarkedJob DEF Marking, MarkSteps, Settled
<1>8. ~Behind(l) => nextRun[l] >= now
  BY <1>2, LoopNats DEF Behind
<1>9. Spaced(l)' /\ Served(l)'
  BY <1>1, <1>2, <1>7, <1>8, LoopNats DEF Spaced, Served
<1>10. StoreOK(w, l)'
  BY <1>1, <1>2, <1>4, <1>5, <1>7 DEF StoreOK
<1>11. job'[w].at \notin {"idle", "filter"} => job'[w].due \subseteq job[w].due
  BY <1>2, <1>4, <1>5, MarkedJob, AdvancedTyped
<1>12. /\ SpacedOK' /\ StoresOK' /\ MarkedOK'
       /\ \A x \in Loops : Served(x) => Served(x)'
  BY <1>1, <1>2, <1>7, <1>9, <1>10, <1>11, LoopGoes
<1>13. IndexOK' /\ JobsOK' /\ IdleOK'
  BY <1>1, <1>2, <1>4, <1>5, <1>9, <1>12, MarkGoes
<1> QED BY <1>6, <1>12, <1>13

LEMMA CatchUpKeeps ==
  ASSUME IInv, NEW w \in Worlds, CatchUp(w)
  PROVE  IInv'
<1> USE DEF IInv
<1>1. PICK l : /\ l = job[w].loop /\ Stays(w) /\ DOMAIN job = Worlds /\ job[w] \in JobTypes
               /\ job[w].at = "late" /\ lastRun' = lastRun /\ prevRun' = prevRun
               /\ UNCHANGED <<now, pc, stage, grouped>>
  BY WorkStays DEF Work, CatchUp, Stays
<1>2. /\ l \in Loops /\ l \in job[w].due /\ lastRun[l] = now /\ Interval[l] > 0
      /\ prevRun[l] <= lastRun[l] /\ Active(w)
  BY <1>1, MarkedLoop DEF MarkSteps
<1>3. /\ nextRun' \in [Loops -> Nat] /\ nextRun'[l] = now + Interval[l]
      /\ \A x \in Loops \ {l} : nextRun'[x] = nextRun[x]
  BY <1>1, <1>2, LoopNats DEF CatchUp, Typed
<1>4. job' = [job EXCEPT ![w] = Marked(w, l)] /\ job'[w] = Marked(w, l)
  BY <1>1 DEF CatchUp
<1>5. Typed'
  BY <1>1, <1>2, <1>3, <1>4, MarkedJob DEF Typed
<1>6. ~Marking(w, l)' /\ \A x : x # l => ~Marking(w, x) /\ ~Marking(w, x)'
  BY <1>1, <1>2, <1>4, MarkedJob DEF Marking, MarkSteps
<1>7. Spaced(l)' /\ Served(l)' /\ prevRun[l] + Interval[l] <= nextRun'[l]
  BY <1>1, <1>2, <1>3, LoopNats DEF Spaced, Served
<1>8. StoreOK(w, l)'
  BY <1>6 DEF StoreOK
<1>9. job'[w].at \notin {"idle", "filter"} => job'[w].due \subseteq job[w].due
  BY <1>2, <1>4, MarkedJob, AdvancedTyped
<1>10. /\ SpacedOK' /\ StoresOK' /\ MarkedOK'
       /\ \A x \in Loops : Served(x) => Served(x)'
  BY <1>1, <1>2, <1>3, <1>6, <1>7, <1>8, <1>9, LoopGoes
<1>11. IndexOK' /\ JobsOK' /\ IdleOK'
  BY <1>1, <1>2, <1>4, <1>7, <1>10, MarkGoes
<1> QED BY <1>5, <1>10, <1>11

-----------------------------------------------------------------------------
(* The worlds and the players touch neither loops nor jobs.                   *)
LEMMA OthersKeep ==
  ASSUME IInv, UNCHANGED <<now, pc, stage, grouped, loopVars, job>>
  PROVE  IInv'
<1>1. /\ \A w \in Worlds : \A l : Marking(w, l)' <=> Marking(w, l)
      /\ \A l : (Settled(l)' <=> Settled(l)) /\ (Served(l)' <=> Served(l))
      /\ \A w \in Worlds : Active(w)' <=> Active(w)
  BY DEF Marking, Settled, Served, Active, loopVars
<1>2. Typed' /\ IndexOK' /\ MarkedOK'
  BY DEF IInv, Typed, IndexOK, MarkedOK, Active, StageBatches, loopVars
<1>3. SpacedOK'
  BY <1>1 DEF IInv, SpacedOK, Spaced, loopVars
<1>4. StoresOK'
  BY <1>1 DEF IInv, StoresOK, StoreOK, loopVars
<1>5. JobsOK' /\ IdleOK'
  BY <1>1 DEF IInv, JobsOK, JobOK, ServedIn, IdleOK, AllWaited
<1> QED BY <1>2, <1>3, <1>4, <1>5 DEF IInv

LEMMA StepCases ==
  ASSUME [Next]_vars
  PROVE  \/ UNCHANGED <<now, pc, stage, grouped, loopVars, job>>
         \/ Between
         \/ \E w \in Worlds : Work(w)
  BY DEF Next, vars, tickVars, Begin, RunLoop, Close, Move, Between, Work

LEMMA Inductive == IInv /\ [Next]_vars => IInv'
<1> SUFFICES ASSUME IInv, [Next]_vars PROVE IInv'
  OBVIOUS
<1>1. CASE UNCHANGED <<now, pc, stage, grouped, loopVars, job>>
  BY <1>1, OthersKeep
<1>2. CASE Between
  BY <1>2, BetweenKeeps, BetweenLoops, BetweenJobs DEF IInv
<1>3. CASE \E w \in Worlds : Work(w)
  BY <1>3, FilterKeeps, ExecKeeps, MarkRunKeeps, StoreNextKeeps, CheckBehindKeeps, CatchUpKeeps DEF Work
<1> QED BY <1>1, <1>2, <1>3, StepCases

(* The invariant the two results rest on: what is due when, and how far the  *)
(* jobs of a stage have come.                                                *)
THEOREM Invariance == Spec => []IInv
  BY StartHolds, Inductive, PTL DEF Spec

(* However late ticks come and however many worlds mark a loop in a tick,    *)
(* the run after the next comes an interval later at least (MarkRun).        *)
THEOREM NeverInBursts == Spec => NoBurst
<1>1. IInv /\ [Next]_vars => [\A l \in Loops : lastRun'[l] # lastRun[l] /\ prevRun[l] # 0
         => lastRun'[l] - prevRun[l] >= Interval[l]]_vars
  <2> SUFFICES ASSUME IInv, [Next]_vars, NEW l \in Loops, lastRun'[l] # lastRun[l], prevRun[l] # 0
               PROVE  lastRun'[l] - prevRun[l] >= Interval[l]
    OBVIOUS
  <2>1. PICK w \in Worlds : \E x \in Loops : MarkRun(w, x)
    BY StepCases, BetweenKeeps DEF IInv, loopVars, Work, Filter, Exec, StoreNext, CheckBehind, CatchUp
  <2>2. MarkRun(w, l) /\ lastRun'[l] = now /\ lastRun[l] # now
    BY <2>1 DEF MarkRun, IInv, Typed
  <2>3. (Interval[l] > 0 => nextRun[l] <= now) /\ Settled(l)
    BY <2>2 DEF IInv, MarkedOK, MarkRun, StoresOK, StoreOK, Settled
  <2>4. Spaced(l)
    BY DEF IInv, SpacedOK
  <2> QED BY <2>2, <2>3, <2>4, LoopNats DEF IInv, Spaced
<1> QED BY <1>1, Invariance, PTL DEF Spec, NoBurst

(* When the jobs of a tick's last stage have ended, no loop of an inhabited  *)
(* world's batches is overdue (runStages, MarkRun).                          *)
THEOREM LeavesNoneBehind == Spec => []NeverBehind
<1>1. IInv => NeverBehind
  <2> SUFFICES ASSUME IInv, pc = "jobs", stage = Stages, AllWaited,
                      NEW w \in Worlds, grouped[w] # {},
                      NEW s \in 1 .. Stages, NEW k \in 1 .. Len(Batches[s]), NEW l \in Batches[s][k],
                      Interval[l] > 0
               PROVE  nextRun[l] >= now
    BY DEF NeverBehind
  <2>1. JobOK(w) /\ ~Active(w) /\ Settled(l)
    BY DEF IInv, JobsOK, AllWaited, Settled, Marking, MarkSteps, Active
  <2>2. CASE s = stage
    BY <2>1, <2>2 DEF JobOK, ServedIn, Served
  <2>3. CASE s # stage
    <3>1. s \in 1 .. stage - 1
      BY <2>3, LoopAssumption
    <3> QED BY <2>1, <3>1 DEF JobOK, ServedIn, Served
  <2> QED BY <2>2, <2>3
<1> QED BY <1>1, Invariance, PTL

-----------------------------------------------------------------------------
(* Once per tick. The transactions that wait in the queues of the worlds.    *)

LotTypes == [tick : Nat, stage : Nat, k : Nat, loops : SUBSET Loops,
             sessions : SUBSET Sessions, global : BOOLEAN]

QueueTyped ==
  /\ queue \in [Worlds -> Seq(LotTypes)] /\ tx \in [Worlds -> LotTypes \cup {NoTx}]
  /\ grouped \in [Worlds -> SUBSET Sessions]

(* What a world still has to do: number 0 is the transaction it runs.        *)
Spots(w)   == {i \in 0 .. Len(queue[w]) : i = 0 => tx[w] # NoTx}
Item(w, i) == IF i = 0 THEN tx[w] ELSE queue[w][i]

(* No two transactions of a tick have a loop and a session in common.        *)
Clash(r, q) == r.tick = q.tick /\ r.loops \cap q.loops # {} /\ r.sessions \cap q.sessions # {}

ApartOK ==
  \A v, w \in Worlds : \A i \in Spots(v), j \in Spots(w) :
    v # w \/ i # j => ~Clash(Item(v, i), Item(w, j))

(* What a transaction will run has not run.                                  *)
Unrun(r) == \A l \in r.loops, s \in r.sessions : <<r.tick, l, s>> \notin ran

FreshOK == \A w \in Worlds : \A i \in Spots(w) : Unrun(Item(w, i))

(* The job of a world has handed out this batch in this tick.                *)
Passed(w, s, k) ==
  /\ s \in 1 .. Stages /\ k \in 1 .. Len(Batches[s])
  /\ \/ s < stage
     \/ s = stage /\ (~Active(w) \/ k < job[w].k \/ (k = job[w].k /\ job[w].at \notin {"filter", "exec"}))

(* A transaction of the present tick comes from a batch its world's job has  *)
(* handed out.                                                               *)
OfTick(w, r) ==
  /\ r.tick <= now
  /\ r.tick = now /\ pc = "global" => r.sessions = {}
  /\ r.tick = now /\ pc = "jobs" /\ r.sessions # {} =>
       /\ r.sessions \subseteq grouped[w]
       /\ Passed(w, r.stage, r.k) /\ r.loops \subseteq Batches[r.stage][r.k]

OfTickOK == \A w \in Worlds : \A i \in Spots(w) : OfTick(w, Item(w, i))

(* So does what has run in it.                                               *)
HandedOut(l, s) ==
  \E w \in Worlds : s \in grouped[w] /\
    \E st \in 1 .. Stages : \E k \in 1 .. Len(Batches[st]) : Passed(w, st, k) /\ l \in Batches[st][k]

RanOK ==
  /\ \A t, l, s : <<t, l, s>> \in ran => t \in Nat /\ t <= now
  /\ pc = "global" => \A l, s : <<now, l, s>> \notin ran
  /\ pc = "jobs" => \A l, s : <<now, l, s>> \in ran => HandedOut(l, s)

RestOK == pc \in {"idle", "global", "jobs"} /\ (pc = "idle" => AllWaited)

(* What a job has found due is of its batch.                                 *)
HeldOK ==
  \A w \in Worlds : job[w].at \notin {"idle", "filter"} => job[w].due \subseteq StageBatches[job[w].k]

GroupsOK == pc = "jobs" => \A v, w \in Worlds : v # w => grouped[v] \cap grouped[w] = {}

OnceInv == QueueTyped /\ ApartOK /\ FreshOK /\ OfTickOK /\ RanOK /\ RestOK /\ GroupsOK /\ again = FALSE

-----------------------------------------------------------------------------
(* What happens to the transactions of a world.                              *)

LEMMA ItemTyped ==
  ASSUME QueueTyped, NEW w \in Worlds, NEW i \in Spots(w)
  PROVE  Item(w, i) \in LotTypes /\ i \in Nat
<1>1. queue[w] \in Seq(LotTypes) /\ tx[w] \in LotTypes \cup {NoTx} /\ Len(queue[w]) \in Nat
  BY DEF QueueTyped
<1> QED BY <1>1 DEF Spots, Item

(* r is what is left of q.                                                   *)
Part(r, q) ==
  /\ r.tick = q.tick /\ r.stage = q.stage /\ r.k = q.k
  /\ r.loops \subseteq q.loops /\ r.sessions \subseteq q.sessions

(* Every transaction of a world is what is left of one it had, d further on. *)
LeftOver(w, d) ==
  /\ \A v \in Worlds \ {w} : \A i \in Spots(v)' : i \in Spots(v) /\ Item(v, i)' = Item(v, i)
  /\ \A i \in Spots(w)' : i \in Nat /\ i + d \in Spots(w) /\ Part(Item(w, i)', Item(w, i + d))

LEMMA BeginItems ==
  ASSUME QueueTyped, NEW w \in Worlds, Begin(w)
  PROVE  QueueTyped' /\ LeftOver(w, 1)
<1>1. /\ queue[w] \in Seq(LotTypes) /\ queue[w] # <<>> /\ queue \in [Worlds -> Seq(LotTypes)]
      /\ queue' = [queue EXCEPT ![w] = Tail(@)] /\ tx \in [Worlds -> LotTypes \cup {NoTx}] /\ grouped' = grouped
  BY DEF QueueTyped, Begin, tickVars
<1> PICK h : h = queue[w][1]
  OBVIOUS
<1> PICK S : S = {s \in h.sessions : s \notin closed /\ loc[s] = w}
  OBVIOUS
<1>2. /\ Head(queue[w]) = h /\ h \in LotTypes /\ Len(queue[w]) \in Nat /\ Len(queue[w]) >= 1
      /\ Tail(queue[w]) \in Seq(LotTypes) /\ Len(Tail(queue[w])) = Len(queue[w]) - 1
      /\ \A i \in 1 .. Len(queue[w]) - 1 : Tail(queue[w])[i] = queue[w][i + 1]
  BY <1>1
<1>3. tx' = [tx EXCEPT ![w] = IF S = {} /\ ~h.global THEN NoTx ELSE [h EXCEPT !.sessions = S]]
  BY <1>2 DEF Begin
<1> PICK r : r = [h EXCEPT !.sessions = S]
  OBVIOUS
<1>4. r \in LotTypes /\ Part(r, h)
  BY <1>2 DEF LotTypes, Part
<1>5. /\ queue'[w] = Tail(queue[w]) /\ tx'[w] \in {NoTx, r}
      /\ \A v \in Worlds \ {w} : queue'[v] = queue[v] /\ tx'[v] = tx[v]
      /\ tx' \in [Worlds -> LotTypes \cup {NoTx}] /\ queue' \in [Worlds -> Seq(LotTypes)]
  BY <1>1, <1>2, <1>3, <1>4
<1>6. \A v \in Worlds \ {w} : \A i \in Spots(v)' : i \in Spots(v) /\ Item(v, i)' = Item(v, i)
  BY <1>5 DEF Spots, Item
<1>7. ASSUME NEW i \in Spots(w)' PROVE i \in Nat /\ i + 1 \in Spots(w) /\ Part(Item(w, i)', Item(w, i + 1))
  <2>1. i \in 0 .. Len(queue[w]) - 1 /\ (i = 0 => tx'[w] = r)
    BY <1>2, <1>5 DEF Spots
  <2>2. i \in Nat /\ i + 1 \in Spots(w) /\ Item(w, i + 1) = queue[w][i + 1]
    BY <1>2, <2>1 DEF Spots, Item
  <2>3. CASE i = 0
    BY <1>4, <2>1, <2>2, <2>3 DEF Item
  <2>4. CASE i # 0
    <3>1. Item(w, i)' = queue[w][i + 1]
      BY <1>2, <1>5, <2>1, <2>4 DEF Item
    <3> QED BY <2>2, <3>1 DEF Part
  <2> QED BY <2>2, <2>3, <2>4
<1> QED BY <1>1, <1>5, <1>6, <1>7 DEF QueueTyped, LeftOver

LEMMA RunItems ==
  ASSUME QueueTyped, NEW w \in Worlds, NEW l \in Loops, RunLoop(w, l)
  PROVE  QueueTyped' /\ LeftOver(w, 0) /\ (0 \in Spots(w)' => l \notin (Item(w, 0)').loops)
<1>1. /\ queue' = queue /\ grouped' = grouped /\ tx[w] # NoTx /\ l \in tx[w].loops
      /\ queue \in [Worlds -> Seq(LotTypes)] /\ tx \in [Worlds -> LotTypes \cup {NoTx}]
  BY DEF QueueTyped, RunLoop, tickVars
<1> PICK q : q = tx[w]
  OBVIOUS
<1> PICK r : r = [q EXCEPT !.loops = q.loops \ {l}]
  OBVIOUS
<1>2. tx' = [tx EXCEPT ![w] = IF q.loops = {l} THEN NoTx ELSE r]
  BY DEF RunLoop
<1>3. q \in LotTypes
  BY <1>1
<1>4. r \in LotTypes /\ Part(r, q) /\ l \notin r.loops
  BY <1>3 DEF LotTypes, Part
<1>5. /\ tx'[w] \in {NoTx, r} /\ \A v \in Worlds \ {w} : tx'[v] = tx[v]
      /\ tx' \in [Worlds -> LotTypes \cup {NoTx}]
  BY <1>1, <1>2, <1>4
<1>6. \A v \in Worlds \ {w} : \A i \in Spots(v)' : i \in Spots(v) /\ Item(v, i)' = Item(v, i)
  BY <1>1, <1>5 DEF Spots, Item
<1>7. ASSUME NEW i \in Spots(w)' PROVE i \in Nat /\ i + 0 \in Spots(w) /\ Part(Item(w, i)', Item(w, i + 0))
  <2>1. i \in Nat /\ i + 0 = i /\ i \in Spots(w) /\ (i = 0 => tx'[w] = r)
    BY <1>1, <1>5 DEF Spots
  <2>2. CASE i = 0
    BY <1>4, <2>1, <2>2 DEF Item
  <2>3. CASE i # 0
    <3>1. Item(w, i)' = Item(w, i)
      BY <1>1, <2>3 DEF Item
    <3> QED BY <2>1, <3>1 DEF Part
  <2> QED BY <2>1, <2>2, <2>3
<1>8. 0 \in Spots(w)' => l \notin (Item(w, 0)').loops
  BY <1>4, <1>5 DEF Spots, Item
<1> QED BY <1>1, <1>5, <1>6, <1>7, <1>8 DEF QueueTyped, LeftOver

LEMMA ApartLeft ==
  ASSUME QueueTyped, ApartOK, NEW w \in Worlds, NEW d \in Nat, LeftOver(w, d)
  PROVE  ApartOK'
<1> SUFFICES ASSUME NEW u \in Worlds, NEW v \in Worlds, NEW i \in Spots(u)', NEW j \in Spots(v)',
                    u # v \/ i # j
             PROVE  ~Clash(Item(u, i), Item(v, j))'
  BY DEF ApartOK
<1>1. \E m \in Spots(u) : Part(Item(u, i)', Item(u, m)) /\ m = (IF u = w THEN i + d ELSE i) /\ i \in Nat
  <2>1. u # w => i \in Spots(u) /\ Item(u, i)' = Item(u, i) /\ i \in Nat
    BY ItemTyped DEF LeftOver
  <2> QED BY <2>1 DEF LeftOver, Part
<1>2. \E n \in Spots(v) : Part(Item(v, j)', Item(v, n)) /\ n = (IF v = w THEN j + d ELSE j) /\ j \in Nat
  <2>1. v # w => j \in Spots(v) /\ Item(v, j)' = Item(v, j) /\ j \in Nat
    BY ItemTyped DEF LeftOver
  <2> QED BY <2>1 DEF LeftOver, Part
<1>3. PICK m \in Spots(u) : Part(Item(u, i)', Item(u, m)) /\ m = (IF u = w THEN i + d ELSE i) /\ i \in Nat
  BY <1>1
<1>4. PICK n \in Spots(v) : Part(Item(v, j)', Item(v, n)) /\ n = (IF v = w THEN j + d ELSE j) /\ j \in Nat
  BY <1>2
<1>5. u # v \/ m # n
  BY <1>3, <1>4
<1>6. ~Clash(Item(u, m), Item(v, n))
  BY <1>5 DEF ApartOK
<1> QED BY <1>3, <1>4, <1>6 DEF Clash, Part

(* What is true of a transaction stays true of what is left of it.           *)
LEMMA PartLess ==
  ASSUME NEW r, NEW q, Part(r, q)
  PROVE  /\ \A w : OfTick(w, q) => OfTick(w, r)
         /\ Unrun(q) => Unrun(r)
  BY DEF Part, OfTick, Unrun

LEMMA LeftItems ==
  ASSUME NEW w \in Worlds, NEW d \in Nat, LeftOver(w, d)
  PROVE  \A v \in Worlds : \A i \in Spots(v)' : \E j \in Spots(v) : Part(Item(v, i)', Item(v, j))
  BY DEF LeftOver, Part

-----------------------------------------------------------------------------
(* Steps that touch no transaction.                                          *)

LEMMA SameItems ==
  ASSUME UNCHANGED <<queue, tx>>
  PROVE  \A w : Spots(w)' = Spots(w) /\ \A i : Item(w, i)' = Item(w, i)
  BY DEF Spots, Item

LEMMA QuietSteps ==
  ASSUME OnceInv, UNCHANGED <<queue, tx, again>>, ran' \subseteq ran, grouped' \in [Worlds -> SUBSET Sessions]
  PROVE  QueueTyped' /\ ApartOK' /\ FreshOK' /\ again' = FALSE
<1>1. QueueTyped'
  BY DEF OnceInv, QueueTyped
<1>2. \A w : Spots(w)' = Spots(w) /\ \A i : Item(w, i)' = Item(w, i)
  BY SameItems
<1>3. ApartOK'
  <2> SUFFICES ASSUME NEW v \in Worlds, NEW w \in Worlds, NEW i \in Spots(v)', NEW j \in Spots(w)', v # w \/ i # j
               PROVE  ~Clash(Item(v, i), Item(w, j))'
    BY DEF ApartOK
  <2>1. i \in Spots(v) /\ j \in Spots(w) /\ Item(v, i)' = Item(v, i) /\ Item(w, j)' = Item(w, j)
    BY <1>2
  <2>2. ~Clash(Item(v, i), Item(w, j))
    BY <2>1 DEF OnceInv, ApartOK
  <2> QED BY <2>1, <2>2 DEF Clash
<1>4. FreshOK'
  <2> SUFFICES ASSUME NEW w \in Worlds, NEW i \in Spots(w)' PROVE Unrun(Item(w, i))'
    BY DEF FreshOK
  <2>1. i \in Spots(w) /\ Item(w, i)' = Item(w, i)
    BY <1>2
  <2>2. Unrun(Item(w, i))
    BY <2>1 DEF OnceInv, FreshOK
  <2> QED BY <2>1, <2>2 DEF Unrun
<1> QED BY <1>1, <1>3, <1>4 DEF OnceInv

(* A job only goes on, and nothing else changes.                             *)
LEMMA GoneOn ==
  ASSUME OnceInv, UNCHANGED <<queue, tx, ran, again, now, grouped>>, pc' # "idle" => pc' = pc, RestOK',
         \A w \in Worlds : \A s, k : Passed(w, s, k) => Passed(w, s, k)'
  PROVE  OnceInv'
<1>1. QueueTyped' /\ ApartOK' /\ FreshOK' /\ again' = FALSE
  BY QuietSteps DEF OnceInv, QueueTyped
<1>2. OfTickOK'
  <2> SUFFICES ASSUME NEW w \in Worlds, NEW i \in Spots(w)' PROVE OfTick(w, Item(w, i))'
    BY DEF OfTickOK
  <2>1. i \in Spots(w) /\ Item(w, i)' = Item(w, i)
    BY SameItems
  <2>2. OfTick(w, Item(w, i))
    BY <2>1 DEF OnceInv, OfTickOK
  <2> QED BY <2>1, <2>2 DEF OfTick
<1>3. RanOK'
  <2>1. \A l, s : HandedOut(l, s) => HandedOut(l, s)'
    BY DEF HandedOut
  <2> QED BY <2>1 DEF OnceInv, RanOK
<1>4. GroupsOK'
  BY DEF OnceInv, GroupsOK
<1> QED BY <1>1, <1>2, <1>3, <1>4 DEF OnceInv

LEMMA OnlyForward ==
  ASSUME Typed, IndexOK, NEW w \in Worlds, Active(w), UNCHANGED <<pc, stage>>,
         \A v \in Worlds \ {w} : job'[v] = job[v],
         \/ job'[w] = Advanced(w)
         \/ /\ job'[w].k = job[w].k
            /\ job'[w].at \in {"filter", "exec"} => job[w].at \in {"filter", "exec"}
  PROVE  \A v \in Worlds : \A s, k : Passed(v, s, k) => Passed(v, s, k)'
<1> SUFFICES ASSUME NEW v \in Worlds, NEW s, NEW k, Passed(v, s, k) PROVE Passed(v, s, k)'
  OBVIOUS
<1>1. s \in 1 .. Stages /\ k \in 1 .. Len(Batches[s]) /\ Len(Batches[s]) \in Nat /\ job[w].k \in Nat
  BY BatchCounts DEF Passed, Typed, JobTypes
<1>2. CASE v # w
  BY <1>2 DEF Passed, Active
<1>3. CASE v = w
  <2>1. s < stage \/ (s = stage /\ k <= job[w].k)
    BY <1>1, <1>3 DEF Passed
  <2>2. CASE job'[w] = Advanced(w)
    <3>1. \/ job'[w].at = "idle"
          \/ job'[w].at = "filter" /\ job'[w].k = job[w].k + 1
      BY <2>2, AdvancedTyped
    <3> QED BY <1>1, <1>3, <2>1, <3>1 DEF Passed, Active
  <2>3. CASE /\ job'[w].k = job[w].k
             /\ job'[w].at \in {"filter", "exec"} => job[w].at \in {"filter", "exec"}
    BY <1>1, <1>3, <2>1, <2>3 DEF Passed, Active
  <2> QED BY <2>2, <2>3
<1> QED BY <1>2, <1>3

-----------------------------------------------------------------------------
(* The steps of a tick, one by one.                                          *)

LEMMA OnceStarts == Init => OnceInv
<1> SUFFICES ASSUME Init PROVE OnceInv
  OBVIOUS
<1>1. QueueTyped
  <2>1. <<>> \in Seq(LotTypes)
    OBVIOUS
  <2> QED BY <2>1 DEF Init, QueueTyped
<1>2. \A w \in Worlds : Spots(w) = {}
  <2> SUFFICES ASSUME NEW w \in Worlds, NEW i \in Spots(w) PROVE FALSE
    OBVIOUS
  <2>1. queue[w] = <<>> /\ tx[w] = NoTx /\ Len(queue[w]) = 0
    BY DEF Init
  <2>2. i \in 0 .. 0 /\ i # 0
    BY <2>1 DEF Spots
  <2> QED BY <2>2
<1>3. RestOK
  BY JobsTyped DEF Init, RestOK, AllWaited, Active
<1>4. RanOK /\ GroupsOK /\ again = FALSE
  BY DEF Init, RanOK, GroupsOK
<1> QED BY <1>1, <1>2, <1>3, <1>4 DEF OnceInv, ApartOK, FreshOK, OfTickOK

LEMMA OnceTicks ==
  ASSUME Typed, OnceInv, NEW t \in Times, TickStart(t)
  PROVE  OnceInv'
<1>1. /\ UNCHANGED <<queue, tx, again, grouped>> /\ ran' \subseteq ran /\ now' = t /\ now < t /\ pc' = "global"
      /\ now \in Nat /\ t \in Nat
  BY BoundAssumption DEF TickStart, worldVars, Typed, Times
<1>2. QueueTyped' /\ ApartOK' /\ FreshOK' /\ again' = FALSE
  BY <1>1, QuietSteps DEF OnceInv, QueueTyped
<1>3. OfTickOK'
  <2> SUFFICES ASSUME NEW w \in Worlds, NEW i \in Spots(w)' PROVE OfTick(w, Item(w, i))'
    BY DEF OfTickOK
  <2>1. i \in Spots(w) /\ Item(w, i)' = Item(w, i)
    BY <1>1, SameItems
  <2>2. OfTick(w, Item(w, i)) /\ Item(w, i).tick \in Nat
    BY <2>1, ItemTyped DEF OnceInv, OfTickOK, LotTypes
  <2>3. Item(w, i).tick <= now
    BY <2>2 DEF OfTick
  <2>4. Item(w, i).tick <= t /\ Item(w, i).tick # t
    BY <1>1, <2>2, <2>3
  <2> QED BY <1>1, <2>1, <2>4 DEF OfTick
<1>4. RanOK'
  <2>1. \A r, l, s : <<r, l, s>> \in ran' => r \in Nat /\ r <= now
    BY <1>1 DEF OnceInv, RanOK
  <2> SUFFICES /\ \A r, l, s : <<r, l, s>> \in ran' => r \in Nat /\ r <= t
               /\ \A l, s : <<t, l, s>> \notin ran'
    BY <1>1 DEF RanOK
  <2>2. ASSUME NEW r, NEW l, NEW s, <<r, l, s>> \in ran' PROVE r \in Nat /\ r <= t
    BY <1>1, <2>1, <2>2
  <2>3. \A l, s : <<t, l, s>> \notin ran'
    BY <1>1, <2>1
  <2> QED BY <2>2, <2>3
<1>6. RestOK' /\ GroupsOK'
  BY <1>1 DEF RestOK, GroupsOK
<1> QED BY <1>2, <1>3, <1>4, <1>6 DEF OnceInv

LEMMA OnceGroups ==
  ASSUME Typed, OnceInv, Group
  PROVE  OnceInv'
<1>1. /\ UNCHANGED <<queue, tx, again, ran, now>> /\ pc = "global" /\ pc' = "jobs"
      /\ grouped' = [w \in Worlds |-> {s \in Sessions \ closed : loc[s] = w}]
  BY DEF Group, worldVars, histVars
<1>2. grouped' \in [Worlds -> SUBSET Sessions]
  BY <1>1
<1>3. QueueTyped' /\ ApartOK' /\ FreshOK' /\ again' = FALSE
  BY <1>1, <1>2, QuietSteps
<1>4. OfTickOK'
  <2> SUFFICES ASSUME NEW w \in Worlds, NEW i \in Spots(w)' PROVE OfTick(w, Item(w, i))'
    BY DEF OfTickOK
  <2>1. i \in Spots(w) /\ Item(w, i)' = Item(w, i)
    BY <1>1, SameItems
  <2>2. OfTick(w, Item(w, i))
    BY <2>1 DEF OnceInv, OfTickOK
  <2> QED BY <1>1, <2>1, <2>2 DEF OfTick
<1>5. RanOK'
  BY <1>1 DEF OnceInv, RanOK
<1>6. GroupsOK'
  <2> SUFFICES ASSUME NEW v \in Worlds, NEW w \in Worlds, v # w PROVE (grouped[v] \cap grouped[w] = {})'
    BY DEF GroupsOK
  <2>1. \A s \in grouped'[v] : loc[s] = v
    BY <1>1
  <2>2. \A s \in grouped'[w] : loc[s] = w
    BY <1>1
  <2> QED BY <2>1, <2>2
<1> QED BY <1>1, <1>3, <1>4, <1>5, <1>6 DEF OnceInv, RestOK

LEMMA OnceStages ==
  ASSUME Typed, OnceInv, NextGlobal \/ NextStage
  PROVE  OnceInv'
<1>1. UNCHANGED <<queue, tx, again, ran, now, grouped>>
  BY DEF NextGlobal, NextStage, worldVars, histVars
<1>2. CASE NextGlobal
  <2>1. pc = "global" /\ pc' = "global"
    BY <1>2 DEF NextGlobal
  <2>2. RestOK'
    BY <2>1 DEF RestOK
  <2>3. QueueTyped' /\ ApartOK' /\ FreshOK' /\ again' = FALSE
    BY <1>1, QuietSteps DEF OnceInv, QueueTyped
  <2>4. OfTickOK'
    <3> SUFFICES ASSUME NEW w \in Worlds, NEW i \in Spots(w)' PROVE OfTick(w, Item(w, i))'
      BY DEF OfTickOK
    <3>1. i \in Spots(w) /\ Item(w, i)' = Item(w, i)
      BY <1>1, SameItems
    <3>2. OfTick(w, Item(w, i))
      BY <3>1 DEF OnceInv, OfTickOK
    <3> QED BY <1>1, <2>1, <3>1, <3>2 DEF OfTick
  <2>5. RanOK' /\ GroupsOK'
    BY <1>1, <2>1 DEF OnceInv, RanOK, GroupsOK
  <2> QED BY <2>2, <2>3, <2>4, <2>5 DEF OnceInv
<1>3. CASE NextStage
  <2>1. pc = "jobs" /\ AllWaited /\ stage \in 1 .. Stages /\ Stages \in Nat
    BY <1>3, LoopAssumption DEF NextStage, Typed
  <2>2. CASE stage < Stages
    <3>1. stage' = stage + 1 /\ pc' = pc
      BY <1>3, <2>2 DEF NextStage
    <3>2. \A w \in Worlds : \A s, k : Passed(w, s, k) => Passed(w, s, k)'
      <4> SUFFICES ASSUME NEW w \in Worlds, NEW s, NEW k, Passed(w, s, k) PROVE Passed(w, s, k)'
        OBVIOUS
      <4>1. s \in 1 .. Stages /\ k \in 1 .. Len(Batches[s]) /\ s <= stage
        BY <2>1 DEF Passed
      <4>2. s < stage'
        BY <2>1, <3>1, <4>1
      <4> QED BY <4>1, <4>2 DEF Passed
    <3>3. RestOK'
      BY <2>1, <3>1 DEF RestOK
    <3> QED BY <1>1, <3>1, <3>2, <3>3, GoneOn
  <2>3. CASE ~(stage < Stages)
    <3>1. UNCHANGED <<stage, job>> /\ pc' = "idle"
      BY <1>3, <2>3 DEF NextStage
    <3>2. \A w \in Worlds : \A s, k : Passed(w, s, k) => Passed(w, s, k)'
      BY <3>1 DEF Passed, Active
    <3>3. RestOK'
      BY <2>1, <3>1 DEF RestOK, AllWaited, Active
    <3> QED BY <1>1, <3>1, <3>2, <3>3, GoneOn
  <2> QED BY <2>2, <2>3
<1> QED BY <1>2, <1>3

(* What a job inside MarkRun does to the rest: nothing.                      *)
LEMMA MarkJobs ==
  ASSUME IInv, NEW w \in Worlds,
         StoreNext(w) \/ CheckBehind(w) \/ CatchUp(w) \/ \E l \in Loops : MarkRun(w, l)
  PROVE  /\ UNCHANGED <<queue, tx, again, ran, now, grouped, pc, stage>> /\ Active(w)
         /\ \A v \in Worlds \ {w} : job'[v] = job[v]
         /\ \/ job'[w] = Advanced(w)
            \/ /\ job'[w].k = job[w].k /\ job'[w].at \notin {"filter", "exec"}
               /\ job[w].at \notin {"idle", "filter", "exec"} /\ job'[w].due \subseteq job[w].due
<1>1. /\ UNCHANGED <<queue, tx, again, ran>> /\ job[w].at \notin {"idle", "filter", "exec"}
      /\ UNCHANGED <<now, pc, stage, grouped>>
  BY DEF StoreNext, CheckBehind, CatchUp, MarkRun, worldVars, histVars, tickVars
<1>2. Typed /\ IndexOK /\ Active(w) /\ DOMAIN job = Worlds /\ job[w] \in JobTypes
  BY <1>1 DEF IInv, Typed, Active
<1>3. \A v \in Worlds \ {w} : job'[v] = job[v]
  BY <1>2, WorkStays DEF Work, Stays
<1>4. ASSUME NEW l \in job[w].due, job'[w] = Marked(w, l)
      PROVE  \/ job'[w] = Advanced(w)
             \/ /\ job'[w].k = job[w].k /\ job'[w].at \notin {"filter", "exec"}
                /\ job'[w].due \subseteq job[w].due
  BY <1>2, <1>4, MarkedJob
<1>5. job[w].at \in MarkSteps => job[w].loop \in job[w].due
  BY <1>1, MarkedLoop
<1>6. CASE StoreNext(w)
  BY <1>1, <1>2, <1>3, <1>6 DEF StoreNext, JobTypes
<1>7. CASE CheckBehind(w)
  <2>1. CASE job' = [job EXCEPT ![w] = [@ EXCEPT !.at = "late"]]
    BY <1>1, <1>2, <1>3, <2>1 DEF JobTypes
  <2>2. CASE job' = [job EXCEPT ![w] = Marked(w, job[w].loop)]
    BY <1>1, <1>2, <1>3, <1>4, <1>5, <1>7, <2>2 DEF CheckBehind, MarkSteps
  <2> QED BY <1>7, <2>1, <2>2 DEF CheckBehind
<1>8. CASE CatchUp(w)
  BY <1>1, <1>2, <1>3, <1>4, <1>5, <1>8 DEF CatchUp, MarkSteps
<1>9. CASE \E l \in Loops : MarkRun(w, l)
  <2> PICK l \in Loops : MarkRun(w, l)
    BY <1>9
  <2>1. CASE Interval[l] = 0
    BY <1>1, <1>2, <1>3, <1>4, <2>1 DEF MarkRun
  <2>2. CASE Interval[l] # 0
    BY <1>1, <1>2, <1>3, <2>2 DEF MarkRun, JobTypes
  <2> QED BY <2>1, <2>2
<1> QED BY <1>6, <1>7, <1>8, <1>9

LEMMA OnceMarks ==
  ASSUME IInv, OnceInv, NEW w \in Worlds,
         StoreNext(w) \/ CheckBehind(w) \/ CatchUp(w) \/ \E l \in Loops : MarkRun(w, l)
  PROVE  OnceInv'
<1>1. /\ UNCHANGED <<queue, tx, again, ran, now, grouped, pc, stage>> /\ Active(w)
      /\ \A v \in Worlds \ {w} : job'[v] = job[v]
      /\ \/ job'[w] = Advanced(w)
         \/ /\ job'[w].k = job[w].k
            /\ job'[w].at \in {"filter", "exec"} => job[w].at \in {"filter", "exec"}
  BY MarkJobs
<1>2. \A v \in Worlds : \A s, k : Passed(v, s, k) => Passed(v, s, k)'
  BY <1>1, OnlyForward DEF IInv
<1>3. RestOK'
  BY <1>1 DEF OnceInv, RestOK, AllWaited
<1> QED BY <1>1, <1>2, <1>3, GoneOn

LEMMA OnceFilters ==
  ASSUME IInv, OnceInv, NEW w \in Worlds, Filter(w)
  PROVE  OnceInv'
<1>1. /\ UNCHANGED <<queue, tx, again, ran, now, grouped, pc, stage>> /\ job[w].at = "filter"
      /\ DOMAIN job = Worlds /\ job[w] \in JobTypes /\ Active(w)
  BY DEF Filter, tickVars, worldVars, histVars, IInv, Typed, Active
<1>2. /\ \A v \in Worlds \ {w} : job'[v] = job[v]
      /\ \/ job'[w] = Advanced(w)
         \/ job'[w] = [job[w] EXCEPT !.at = "exec", !.due = Due(w)]
  BY <1>1 DEF Filter
<1>3. \/ job'[w] = Advanced(w)
      \/ /\ job'[w].k = job[w].k
         /\ job'[w].at \in {"filter", "exec"} => job[w].at \in {"filter", "exec"}
  BY <1>1, <1>2 DEF JobTypes
<1>4. \A v \in Worlds : \A s, k : Passed(v, s, k) => Passed(v, s, k)'
  BY <1>1, <1>2, <1>3, OnlyForward DEF IInv
<1>5. RestOK'
  BY <1>1 DEF OnceInv, RestOK, AllWaited
<1> QED BY <1>1, <1>4, <1>5, GoneOn

LEMMA OnceElsewhere ==
  ASSUME OnceInv, UNCHANGED <<queue, tx, ran, again, now, grouped, pc, stage, job>>
  PROVE  OnceInv'
<1>1. \A w \in Worlds : \A s, k : Passed(w, s, k) => Passed(w, s, k)'
  BY DEF Passed, Active
<1>2. RestOK'
  BY DEF OnceInv, RestOK, AllWaited, Active
<1> QED BY <1>1, <1>2, GoneOn

LEMMA OnceBegins ==
  ASSUME OnceInv, NEW w \in Worlds, Begin(w)
  PROVE  OnceInv'
<1>1. UNCHANGED <<ran, again, now, grouped, pc, stage, job>>
  BY DEF Begin, tickVars, histVars
<1>2. QueueTyped' /\ LeftOver(w, 1)
  BY BeginItems DEF OnceInv
<1>3. ApartOK'
  BY <1>2, ApartLeft DEF OnceInv
<1>4. \A v \in Worlds : \A i \in Spots(v)' : \E j \in Spots(v) : Part(Item(v, i)', Item(v, j))
  BY <1>2, LeftItems
<1>5. FreshOK' /\ OfTickOK'
  <2>1. ASSUME NEW v \in Worlds, NEW i \in Spots(v)'
        PROVE  Unrun(Item(v, i))' /\ OfTick(v, Item(v, i))'
    <3>1. PICK j \in Spots(v) : Part(Item(v, i)', Item(v, j))
      BY <1>4
    <3>2. Unrun(Item(v, j)) /\ OfTick(v, Item(v, j))
      BY <3>1 DEF OnceInv, FreshOK, OfTickOK
    <3> PICK r : r = Item(v, i)'
      OBVIOUS
    <3>3. Unrun(r) /\ OfTick(v, r)
      BY <3>1, <3>2, PartLess
    <3> QED BY <1>1, <3>3 DEF Unrun, OfTick, Passed, Active
  <2> QED BY <2>1 DEF FreshOK, OfTickOK
<1>6. RanOK' /\ RestOK' /\ GroupsOK' /\ again' = FALSE
  BY <1>1 DEF OnceInv, RanOK, RestOK, GroupsOK, HandedOut, Passed, AllWaited, Active
<1> QED BY <1>2, <1>3, <1>5, <1>6 DEF OnceInv

LEMMA OnceRuns ==
  ASSUME OnceInv, NEW w \in Worlds, NEW l \in Loops, RunLoop(w, l)
  PROVE  OnceInv'
<1>1. /\ UNCHANGED <<now, grouped, pc, stage, job>> /\ tx[w] # NoTx /\ l \in tx[w].loops
  BY DEF RunLoop, tickVars
<1> PICK q : q = Item(w, 0)
  OBVIOUS
<1> PICK these : these = {<<q.tick, l, s>> : s \in q.sessions}
  OBVIOUS
<1>2. 0 \in Spots(w) /\ q = tx[w] /\ l \in q.loops
  <2>1. Len(queue[w]) \in Nat
    BY DEF OnceInv, QueueTyped
  <2> QED BY <1>1, <2>1 DEF Spots, Item
<1>3. q \in LotTypes /\ OfTick(w, q) /\ Unrun(q)
  BY <1>2, ItemTyped DEF OnceInv, OfTickOK, FreshOK
<1>4. ran' = ran \cup these /\ again' = (again \/ ran \cap these # {})
  BY <1>2 DEF RunLoop
<1>5. QueueTyped' /\ LeftOver(w, 0) /\ (0 \in Spots(w)' => l \notin (Item(w, 0)').loops)
  BY RunItems DEF OnceInv
<1>6. ApartOK'
  BY <1>5, ApartLeft DEF OnceInv
<1>7. \A x \in these : x \notin ran
  BY <1>2, <1>3 DEF Unrun
<1>8. again' = FALSE
  BY <1>4, <1>7 DEF OnceInv
<1>9. FreshOK' /\ OfTickOK'
  <2>1. ASSUME NEW v \in Worlds, NEW i \in Spots(v)'
        PROVE  Unrun(Item(v, i))' /\ OfTick(v, Item(v, i))'
    <3>1. \E j \in Spots(v) : Part(Item(v, i)', Item(v, j)) /\ (v = w => j = i)
      BY <1>5 DEF LeftOver, Part
    <3>2. PICK j \in Spots(v) : Part(Item(v, i)', Item(v, j)) /\ (v = w => j = i)
      BY <3>1
    <3> PICK r : r = Item(v, i)'
      OBVIOUS
    <3> PICK h : h = Item(v, j)
      OBVIOUS
    <3>3. Unrun(h) /\ OfTick(v, h) /\ Part(r, h)
      BY <3>2 DEF OnceInv, FreshOK, OfTickOK
    <3>4. Unrun(r) /\ OfTick(v, r)
      BY <3>3, PartLess
    <3>5. OfTick(v, r)'
      BY <1>1, <3>4 DEF OfTick, Passed, Active
    <3>6. ASSUME NEW m \in r.loops, NEW s \in r.sessions, <<r.tick, m, s>> \in these PROVE FALSE
      <4>1. m = l /\ r.tick = q.tick /\ s \in q.sessions
        BY <3>6
      <4>2. CASE v = w /\ j = 0
        BY <1>5, <3>2, <4>1, <4>2
      <4>3. CASE v # w \/ j # 0
        <5>1. ~Clash(h, q)
          BY <1>2, <4>3 DEF OnceInv, ApartOK
        <5>2. h.tick = q.tick /\ l \in h.loops /\ s \in h.sessions
          BY <3>3, <4>1 DEF Part
        <5> QED BY <1>2, <4>1, <5>1, <5>2 DEF Clash
      <4> QED BY <4>2, <4>3
    <3>7. \A m \in r.loops, s \in r.sessions : <<r.tick, m, s>> \notin ran'
      BY <1>4, <3>4, <3>6 DEF Unrun
    <3> QED BY <3>5, <3>7 DEF Unrun
  <2> QED BY <2>1 DEF FreshOK, OfTickOK
<1>10. RanOK'
  <2>1. \A m, s : HandedOut(m, s)' = HandedOut(m, s)
    BY <1>1 DEF HandedOut, Passed, Active
  <2>2. q.tick \in Nat /\ q.tick <= now
    BY <1>3 DEF LotTypes, OfTick
  <2>3. ASSUME NEW t, NEW m, NEW s, <<t, m, s>> \in these
        PROVE  t = q.tick /\ m = l /\ s \in q.sessions
    BY <2>3
  <2>4. ASSUME NEW t, NEW m, NEW s, <<t, m, s>> \in ran' PROVE t \in Nat /\ t <= now
    BY <1>4, <2>2, <2>3, <2>4 DEF OnceInv, RanOK
  <2>5. ASSUME pc = "global", NEW m, NEW s, <<now, m, s>> \in ran' PROVE FALSE
    <3>1. <<now, m, s>> \in these
      BY <1>4, <2>5 DEF OnceInv, RanOK
    <3> QED BY <1>3, <2>3, <2>5, <3>1 DEF OfTick
  <2>6. ASSUME pc = "jobs", NEW m, NEW s, <<now, m, s>> \in ran' PROVE HandedOut(m, s)
    <3>1. CASE <<now, m, s>> \in ran
      BY <2>6, <3>1 DEF OnceInv, RanOK
    <3>2. CASE <<now, m, s>> \in these
      <4>1. now = q.tick /\ m = l /\ s \in q.sessions
        BY <2>3, <3>2
      <4>2. q.sessions \subseteq grouped[w] /\ Passed(w, q.stage, q.k) /\ q.loops \subseteq Batches[q.stage][q.k]
        BY <1>3, <2>6, <4>1 DEF OfTick
      <4>3. q.stage \in 1 .. Stages /\ q.k \in 1 .. Len(Batches[q.stage])
        BY <4>2 DEF Passed
      <4> QED BY <1>2, <4>1, <4>2, <4>3 DEF HandedOut
    <3> QED BY <1>4, <2>6, <3>1, <3>2
  <2> QED BY <1>1, <2>1, <2>4, <2>5, <2>6 DEF RanOK
<1>11. RestOK' /\ GroupsOK'
  BY <1>1 DEF OnceInv, RestOK, GroupsOK, AllWaited, Active
<1> QED BY <1>5, <1>6, <1>8, <1>9, <1>10, <1>11 DEF OnceInv

-----------------------------------------------------------------------------
(* A job hands a batch to its world. No transaction of this tick has a loop  *)
(* of that batch and a player of that world: another batch has other loops,  *)
(* and another world had other players when the tick began.                  *)

LEMMA NotHandedOut ==
  ASSUME IInv, HeldOK, NEW w \in Worlds, pc = "jobs", job[w].at = "exec"
  PROVE  /\ job[w].k \in 1 .. Len(Batches[stage]) /\ job[w].due \subseteq Batches[stage][job[w].k]
         /\ \A s, k : Passed(w, s, k) => Batches[s][k] \cap Batches[stage][job[w].k] = {}
<1>1. /\ stage \in 1 .. Stages /\ StageBatches = Batches[stage] /\ Active(w)
      /\ job[w].k \in 1 .. Len(Batches[stage])
  BY DEF IInv, Typed, IndexOK, StageBatches, Active
<1>2. job[w].due \subseteq Batches[stage][job[w].k]
  BY <1>1 DEF HeldOK
<1>3. ASSUME NEW s, NEW k, Passed(w, s, k) PROVE Batches[s][k] \cap Batches[stage][job[w].k] = {}
  <2>1. s \in 1 .. Stages /\ k \in 1 .. Len(Batches[s]) /\ (s < stage \/ (s = stage /\ k < job[w].k))
    BY <1>1, <1>3 DEF Passed
  <2>2. ~(s = stage /\ k = job[w].k)
    <3>1. job[w].k \in Nat
      BY DEF IInv, Typed, JobTypes
    <3> QED BY <1>1, <2>1, <3>1
  <2> QED BY <1>1, <2>1, <2>2, OnceAssumption
<1> QED BY <1>1, <1>2, <1>3

LEMMA ExecItems ==
  ASSUME IInv, OnceInv, NEW w \in Worlds, Exec(w)
  PROVE  \E r \in LotTypes, m \in Nat \ {0} :
           /\ r.tick = now /\ r.loops = job[w].due /\ r.k = job[w].k
           /\ (IF pc = "global" THEN r.sessions = {} ELSE r.sessions = grouped[w] /\ r.stage = stage)
           /\ \A v \in Worlds : Spots(v)' = IF v = w THEN Spots(v) \cup {m} ELSE Spots(v)
           /\ \A v \in Worlds : \A i \in Spots(v) : Item(v, i)' = Item(v, i)
           /\ Item(w, m)' = r /\ m \notin Spots(w)
           /\ queue' \in [Worlds -> Seq(LotTypes)]
<1> PICK r : r = [tick |-> now, stage |-> IF pc = "global" THEN 0 ELSE stage, k |-> job[w].k,
                  loops |-> job[w].due, sessions |-> IF pc = "global" THEN {} ELSE Listed(w),
                  global |-> pc = "global"]
  OBVIOUS
<1> PICK m : m = Len(queue[w]) + 1
  OBVIOUS
<1>1. UNCHANGED tx /\ queue' = [queue EXCEPT ![w] = Append(@, r)] /\ Active(w)
  BY DEF Exec, Active
<1>2. /\ queue \in [Worlds -> Seq(LotTypes)] /\ Len(queue[w]) \in Nat /\ m \in Nat \ {0}
      /\ Len(Append(queue[w], r)) = m /\ Append(queue[w], r)[m] = r
      /\ \A i \in 1 .. Len(queue[w]) : Append(queue[w], r)[i] = queue[w][i]
  BY DEF OnceInv, QueueTyped
<1>3. /\ now \in Nat /\ stage \in Nat /\ job[w].k \in Nat /\ job[w].due \in SUBSET Loops
      /\ Listed(w) = grouped[w] /\ grouped[w] \in SUBSET Sessions
  BY <1>1 DEF IInv, Typed, JobTypes, Listed, OnceInv, QueueTyped
<1>4. /\ r \in LotTypes /\ r.tick = now /\ r.loops = job[w].due /\ r.k = job[w].k
      /\ (IF pc = "global" THEN r.sessions = {} ELSE r.sessions = grouped[w] /\ r.stage = stage)
  BY <1>3 DEF LotTypes
<1>5. queue'[w] = Append(queue[w], r) /\ \A v \in Worlds \ {w} : queue'[v] = queue[v]
  BY <1>1, <1>2
<1>6. ASSUME NEW v \in Worlds, v # w
      PROVE  Spots(v)' = Spots(v) /\ \A i : Item(v, i)' = Item(v, i)
  BY <1>1, <1>5, <1>6 DEF Spots, Item
<1>7. Spots(w)' = Spots(w) \cup {m} /\ m \notin Spots(w)
  BY <1>1, <1>2, <1>5 DEF Spots
<1>8. Item(w, m)' = r
  BY <1>2, <1>5 DEF Item
<1>9. \A i \in Spots(w) : Item(w, i)' = Item(w, i)
  BY <1>1, <1>2, <1>5 DEF Item, Spots
<1>10. queue' \in [Worlds -> Seq(LotTypes)]
  <2>1. Append(queue[w], r) \in Seq(LotTypes)
    BY <1>2, <1>4
  <2> QED BY <1>1, <1>2, <2>1
<1> QED BY <1>2, <1>4, <1>6, <1>7, <1>8, <1>9, <1>10

LEMMA OnceExecs ==
  ASSUME IInv, HeldOK, OnceInv, NEW w \in Worlds, Exec(w)
  PROVE  OnceInv'
<1>1. /\ UNCHANGED <<tx, again, ran, now, grouped, pc, stage>> /\ Active(w) /\ job[w].at = "exec"
      /\ \A v \in Worlds \ {w} : job'[v] = job[v]
      /\ job'[w].at = "mark" /\ job'[w].k = job[w].k
  <2>1. job' = [job EXCEPT ![w].at = "mark"] /\ job \in [Worlds -> JobTypes] /\ job[w].at = "exec"
    BY DEF Exec, IInv, Typed
  <2>2. UNCHANGED <<tx, again, ran, now, grouped, pc, stage>>
    BY DEF Exec, tickVars, histVars
  <2> QED BY <2>1, <2>2 DEF Active, JobTypes
<1>2. \A v \in Worlds : \A s, k : Passed(v, s, k) => Passed(v, s, k)'
  BY <1>1, OnlyForward DEF IInv
<1>3. RestOK'
  BY <1>1 DEF OnceInv, RestOK, AllWaited
<1>4. PICK r \in LotTypes, m \in Nat \ {0} :
         /\ r.tick = now /\ r.loops = job[w].due /\ r.k = job[w].k
         /\ (IF pc = "global" THEN r.sessions = {} ELSE r.sessions = grouped[w] /\ r.stage = stage)
         /\ \A v \in Worlds : Spots(v)' = IF v = w THEN Spots(v) \cup {m} ELSE Spots(v)
         /\ \A v \in Worlds : \A i \in Spots(v) : Item(v, i)' = Item(v, i)
         /\ Item(w, m)' = r /\ m \notin Spots(w)
         /\ queue' \in [Worlds -> Seq(LotTypes)]
  BY ExecItems
<1>5. pc = "global" \/ pc = "jobs"
  BY <1>1 DEF OnceInv, RestOK, AllWaited
<1>6. pc = "jobs" =>
        /\ job[w].k \in 1 .. Len(Batches[stage]) /\ job[w].due \subseteq Batches[stage][job[w].k]
        /\ \A s, k : Passed(w, s, k) => Batches[s][k] \cap Batches[stage][job[w].k] = {}
  BY <1>1, NotHandedOut
<1>7. OfTick(w, r)'
  <2>1. now \in Nat
    BY DEF IInv, Typed
  <2>2. CASE pc = "global"
    BY <1>1, <1>4, <2>1, <2>2 DEF OfTick
  <2>3. CASE pc = "jobs"
    <3>1. job'[w].at = "mark" /\ job'[w].k = job[w].k /\ stage' = stage /\ stage \in 1 .. Stages
      BY <1>1 DEF IInv, Typed
    <3>3. r.sessions = grouped[w] /\ r.stage = stage /\ r.k = job[w].k /\ r.tick = now /\ r.loops = job[w].due
      BY <1>4, <2>3
    <3>2. Passed(w, r.stage, r.k)'
      BY <1>6, <2>3, <3>1, <3>3 DEF Passed
    <3>4. r.loops \subseteq Batches[r.stage][r.k]
      BY <1>6, <2>3, <3>3
    <3>5. r.tick = now' /\ r.tick <= now' /\ r.sessions \subseteq grouped'[w] /\ pc' # "global"
      BY <1>1, <2>1, <2>3, <3>3
    <3> QED BY <3>2, <3>4, <3>5 DEF OfTick
  <2> QED BY <1>5, <2>2, <2>3
<1>8. ASSUME NEW v \in Worlds, NEW h, OfTick(v, h), Clash(h, r) \/ Clash(r, h) PROVE FALSE
  <2>1. PICK x, y : x \in h.sessions /\ x \in r.sessions /\ y \in h.loops /\ y \in r.loops
    BY <1>8 DEF Clash
  <2>2. h.tick = now /\ pc = "jobs" /\ h.sessions # {}
    BY <1>4, <1>5, <1>8, <2>1 DEF Clash
  <2>3. h.sessions \subseteq grouped[v] /\ Passed(v, h.stage, h.k) /\ h.loops \subseteq Batches[h.stage][h.k]
    BY <1>8, <2>2 DEF OfTick
  <2>4. v = w
    BY <1>4, <2>1, <2>2, <2>3 DEF OnceInv, GroupsOK
  <2>5. y \in Batches[stage][job[w].k] /\ y \in Batches[h.stage][h.k]
    BY <1>4, <1>6, <2>1, <2>2, <2>3
  <2>6. Batches[h.stage][h.k] \cap Batches[stage][job[w].k] = {}
    BY <1>6, <2>2, <2>3, <2>4
  <2> QED BY <2>5, <2>6
<1>9. Unrun(r)
  <2> SUFFICES ASSUME NEW l \in r.loops, NEW s \in r.sessions, <<now, l, s>> \in ran PROVE FALSE
    BY <1>4 DEF Unrun
  <2>1. pc = "jobs"
    BY <1>4, <1>5
  <2>2. HandedOut(l, s)
    BY <2>1 DEF OnceInv, RanOK
  <2>3. PICK v \in Worlds, st \in 1 .. Stages : s \in grouped[v] /\
          \E k \in 1 .. Len(Batches[st]) : Passed(v, st, k) /\ l \in Batches[st][k]
    BY <2>2 DEF HandedOut
  <2>4. v = w
    BY <1>4, <2>1, <2>3 DEF OnceInv, GroupsOK
  <2> QED BY <1>4, <1>6, <2>1, <2>3, <2>4
<1>10. ApartOK'
  <2> SUFFICES ASSUME NEW u \in Worlds, NEW v \in Worlds, NEW i \in Spots(u)', NEW j \in Spots(v)', u # v \/ i # j
               PROVE  ~Clash(Item(u, i)', Item(v, j)')
    BY DEF ApartOK, Clash
  <2>1. CASE i \in Spots(u) /\ j \in Spots(v)
    <3>1. ~Clash(Item(u, i), Item(v, j))
      BY <2>1 DEF OnceInv, ApartOK
    <3> QED BY <1>4, <2>1, <3>1
  <2>2. CASE i \notin Spots(u)
    <3>1. u = w /\ i = m /\ Item(u, i)' = r
      BY <1>4, <2>2
    <3>2. j \in Spots(v) /\ Item(v, j)' = Item(v, j)
      BY <1>4, <3>1
    <3>3. OfTick(v, Item(v, j))
      BY <3>2 DEF OnceInv, OfTickOK
    <3> QED BY <1>8, <3>1, <3>2, <3>3
  <2>3. CASE j \notin Spots(v)
    <3>1. v = w /\ j = m /\ Item(v, j)' = r
      BY <1>4, <2>3
    <3>2. i \in Spots(u) /\ Item(u, i)' = Item(u, i)
      BY <1>4, <3>1
    <3>3. OfTick(u, Item(u, i))
      BY <3>2 DEF OnceInv, OfTickOK
    <3> QED BY <1>8, <3>1, <3>2, <3>3
  <2> QED BY <2>1, <2>2, <2>3
<1>11. FreshOK' /\ OfTickOK'
  <2>1. ASSUME NEW v \in Worlds, NEW i \in Spots(v)'
        PROVE  Unrun(Item(v, i))' /\ OfTick(v, Item(v, i))'
    <3>1. CASE i \in Spots(v)
      <4> PICK h : h = Item(v, i)
        OBVIOUS
      <4>1. Unrun(h) /\ OfTick(v, h) /\ Item(v, i)' = h
        BY <1>4, <3>1 DEF OnceInv, FreshOK, OfTickOK
      <4>2. Unrun(h)'
        BY <1>1, <4>1 DEF Unrun
      <4>3. OfTick(v, h)'
        BY <1>1, <1>2, <4>1 DEF OfTick
      <4> QED BY <4>1, <4>2, <4>3 DEF Unrun, OfTick
    <3>2. CASE i \notin Spots(v)
      <4>1. v = w /\ Item(v, i)' = r
        BY <1>4, <3>2
      <4>2. Unrun(r)'
        BY <1>1, <1>9 DEF Unrun
      <4> QED BY <1>7, <4>1, <4>2 DEF Unrun, OfTick
    <3> QED BY <3>1, <3>2
  <2> QED BY <2>1 DEF FreshOK, OfTickOK
<1>12. RanOK' /\ GroupsOK' /\ again' = FALSE
  <2>1. \A l, s : HandedOut(l, s) => HandedOut(l, s)'
    BY <1>1, <1>2 DEF HandedOut
  <2> QED BY <1>1, <2>1 DEF OnceInv, RanOK, GroupsOK
<1>13. QueueTyped'
  BY <1>1, <1>4 DEF OnceInv, QueueTyped
<1> QED BY <1>1, <1>3, <1>10, <1>11, <1>12, <1>13 DEF OnceInv

-----------------------------------------------------------------------------
LEMMA HeldKeeps ==
  ASSUME IInv, HeldOK, [Next]_vars
  PROVE  HeldOK'
<1>1. CASE UNCHANGED <<now, pc, stage, grouped, loopVars, job>>
  BY <1>1 DEF HeldOK, StageBatches
<1>2. CASE Between
  BY <1>2, BetweenKeeps DEF IInv, HeldOK
<1>3. CASE \E w \in Worlds : Work(w)
  <2> PICK w \in Worlds : Work(w)
    BY <1>3
  <2>1. /\ Active(w) /\ DOMAIN job = Worlds /\ job[w] \in JobTypes /\ StageBatches' = StageBatches
        /\ \A v \in Worlds \ {w} : job'[v] = job[v]
        /\ Advanced(w).at \in {"idle", "filter"}
    BY WorkStays, AdvancedTyped DEF IInv, Stays
  <2> SUFFICES ASSUME job'[w].at \notin {"idle", "filter"}
               PROVE  job'[w].due \subseteq StageBatches[job'[w].k]
    BY <2>1 DEF HeldOK
  <2>2. CASE Filter(w)
    <3>1. job'[w] = [job[w] EXCEPT !.at = "exec", !.due = Due(w)]
      BY <2>1, <2>2 DEF Filter
    <3>2. job'[w].due = Due(w) /\ job'[w].k = job[w].k
      BY <2>1, <3>1 DEF JobTypes
    <3> QED BY <3>2 DEF Due
  <2>3. CASE Exec(w)
    <3>1. job'[w].due = job[w].due /\ job'[w].k = job[w].k /\ job[w].at = "exec"
      BY <2>1, <2>3 DEF Exec, JobTypes
    <3> QED BY <3>1 DEF HeldOK
  <2>4. CASE StoreNext(w) \/ CheckBehind(w) \/ CatchUp(w) \/ \E l \in Loops : MarkRun(w, l)
    BY <2>1, <2>4, MarkJobs DEF HeldOK
  <2> QED BY <2>2, <2>3, <2>4 DEF Work
<1> QED BY <1>1, <1>2, <1>3, StepCases

(* No loop runs twice for a session in a tick, though a player changes       *)
(* worlds while transactions wait and the next tick begins before they ran:  *)
(* a transaction keeps the sessions its job was given, and each loop is in   *)
(* one batch (executeBatchForWorld).                                         *)
THEOREM OnceInATick == Spec => []OncePerTick
<1>1. Init => IInv /\ HeldOK /\ OnceInv
  BY StartHolds, OnceStarts, JobsTyped DEF Init, HeldOK
<1>2. IInv /\ HeldOK /\ OnceInv /\ [Next]_vars => IInv' /\ HeldOK' /\ OnceInv'
  <2> SUFFICES ASSUME IInv, HeldOK, OnceInv, [Next]_vars PROVE OnceInv'
    BY Inductive, HeldKeeps
  <2>1. CASE UNCHANGED vars \/ \E s \in Sessions : Close(s) \/ \E w \in Worlds : Move(s, w)
    <3>1. UNCHANGED <<queue, tx, ran, again, now, grouped, pc, stage, job>>
      BY <2>1 DEF Close, Move, vars, tickVars, worldVars, histVars
    <3> QED BY <3>1, OnceElsewhere
  <2>2. CASE Between
    BY <2>2, OnceTicks, OnceGroups, OnceStages DEF IInv, Between
  <2>3. CASE \E w \in Worlds : Work(w)
    BY <2>3, OnceFilters, OnceExecs, OnceMarks DEF Work
  <2>4. CASE \E w \in Worlds : Begin(w) \/ \E l \in Loops : RunLoop(w, l)
    BY <2>4, OnceBegins, OnceRuns
  <2> QED BY <2>1, <2>2, <2>3, <2>4 DEF Next, Between, Work
<1>3. OnceInv => OncePerTick
  BY DEF OnceInv, OncePerTick
<1> QED BY <1>1, <1>2, <1>3, PTL DEF Spec

-----------------------------------------------------------------------------
(* Starting and stopping.                                                    *)

ControlTyped ==
  /\ running \in BOOLEAN /\ panicked \in BOOLEAN
  /\ stopCh \in Nat /\ doneCh \in Nat /\ poolCh \in Nat
  /\ ctl \in [Controllers -> {"idle", "launch", "panic", "close", "done?", "workers?", "sessions",
                              "returned"}]
  /\ loop \in [pc : {"none", "select", "lock", "hooks", "round", "submit", "wait", "ended"},
               left : Int, rounds : Int]

(* One Start launches, and the loop is there when it is done.                *)
LaunchOK ==
  /\ \A c \in Controllers : ctl[c] = "launch" => loop.pc = "none"
  /\ \A c, d \in Controllers : ctl[c] = "launch" /\ ctl[d] = "launch" => c = d
  /\ ~panicked => ctl[Panicker] = "idle"

(* Stop has taken the flag and has not yet closed workerPool.                *)
Stopping(c) == ctl[c] \in {"close", "done?"}

Launched == loop.pc # "none" \/ \E c \in Controllers : ctl[c] = "launch"

(* The flag is handed from the scheduler that runs to the one that stops it. *)
OneStops ==
  /\ running => Launched /\ stopCh = 0 /\ poolCh = 0
  /\ \A c \in Controllers : Stopping(c) => Launched /\ ~running /\ poolCh = 0
  /\ \A c, d \in Controllers : Stopping(c) /\ Stopping(d) => c = d
  /\ \A c \in Controllers : ctl[c] = "close" => stopCh = 0
  /\ stopCh > 0 => Launched

(* How far the channels are closed.                                          *)
ChannelsOK ==
  /\ stopCh <= 1 /\ poolCh <= 1
  /\ doneCh = IF loop.pc = "ended" THEN 1 ELSE 0
  /\ poolCh = 1 => doneCh = 1

LifeInv == ControlTyped /\ LaunchOK /\ OneStops /\ ChannelsOK

-----------------------------------------------------------------------------
LEMMA LifeInitInv == LifeInit => LifeInv
<1> SUFFICES ASSUME LifeInit PROVE LifeInv
  OBVIOUS
<1>1. /\ running = FALSE /\ panicked = FALSE /\ stopCh = 0 /\ doneCh = 0 /\ poolCh = 0
      /\ loop = [pc |-> "none", left |-> 0, rounds |-> 0]
      /\ \A c \in Controllers : ctl[c] = "idle"
      /\ Panicker \in Controllers
  BY DEF LifeInit, Controllers
<1>2. ControlTyped
  <2>1. ctl = [c \in Controllers |-> "idle"]
    BY DEF LifeInit
  <2>2. loop \in [pc : {"none", "select", "lock", "hooks", "round", "submit", "wait", "ended"},
                 left : Int, rounds : Int]
    BY <1>1
  <2> QED BY <1>1, <2>1, <2>2 DEF ControlTyped
<1>3. LaunchOK /\ OneStops /\ ChannelsOK
  BY <1>1 DEF LaunchOK, OneStops, ChannelsOK, Stopping
<1> QED BY <1>2, <1>3 DEF LifeInv

LEMMA StartKeeps ==
  ASSUME LifeInv, NEW c \in Controllers, Start(c)
  PROVE  LifeInv'
<1>1. /\ ctl[c] = "idle" /\ c # Panicker /\ running' = TRUE
      /\ UNCHANGED <<stopCh, doneCh, poolCh, loop, panicked>>
  BY LifecycleNames DEF Start, Channels, Counts
<1>2. CASE running
  <2>1. ctl' = ctl
    BY <1>1, <1>2 DEF LifeInv, ControlTyped, Start, Goto
  <2> QED BY <1>1, <1>2, <2>1
          DEF LifeInv, ControlTyped, LaunchOK, OneStops, ChannelsOK, Stopping, Launched
<1>3. CASE ~running
  <2>1. /\ ctl' = [ctl EXCEPT ![c] = "launch"] /\ loop.pc = "none" /\ stopCh = 0
        /\ \A d \in Controllers : ctl[d] # "launch"
    BY <1>3 DEF Start, Goto
  <2>2. ~Launched
    BY <2>1 DEF Launched
  <2>3. ControlTyped' /\ LaunchOK'
    BY <1>1, <2>1 DEF LifeInv, ControlTyped, LaunchOK
  <2>4. ~(\E d \in Controllers : Stopping(d)) /\ Launched' /\ poolCh = 0
    BY <1>1, <2>1, <2>2 DEF LifeInv, ControlTyped, OneStops, ChannelsOK, Launched
  <2>5. OneStops' /\ ChannelsOK'
    BY <1>1, <2>1, <2>4 DEF LifeInv, ControlTyped, OneStops, ChannelsOK, Stopping
  <2> QED BY <2>3, <2>5 DEF LifeInv
<1> QED BY <1>2, <1>3

LEMMA LaunchKeeps ==
  ASSUME LifeInv, NEW c \in Controllers, LaunchLoop(c)
  PROVE  LifeInv'
<1>1. /\ ctl[c] = "launch" /\ ctl' = [ctl EXCEPT ![c] = "idle"] /\ loop' = [loop EXCEPT !.pc = "select"]
      /\ UNCHANGED <<stopCh, doneCh, poolCh, running, panicked>>
  BY DEF LaunchLoop, Goto, Channels, Counts
<1>2. ControlTyped' /\ loop'.pc = "select"
  BY <1>1 DEF LifeInv, ControlTyped
<1>3. LaunchOK'
  BY <1>1, <1>2 DEF LifeInv, ControlTyped, LaunchOK
<1>4. OneStops' /\ ChannelsOK'
  BY <1>1, <1>2 DEF LifeInv, ControlTyped, LaunchOK, OneStops, ChannelsOK, Stopping, Launched
<1> QED BY <1>2, <1>3, <1>4 DEF LifeInv

LEMMA ShutdownKeeps ==
  ASSUME LifeInv, NEW c \in Controllers, Shutdown(c)
  PROVE  LifeInv'
<1>1. /\ ctl[c] \in {"idle", "panic"} /\ running' = FALSE
      /\ c # Panicker \/ panicked
      /\ ctl' = [ctl EXCEPT ![c] = IF running THEN "close" ELSE "sessions"]
      /\ UNCHANGED <<stopCh, doneCh, poolCh, loop, panicked>>
  BY LifecycleNames DEF LifeInv, ControlTyped, LaunchOK, Shutdown, Stopped, Goto, Channels, Counts
<1>2. ControlTyped' /\ ChannelsOK' /\ Panicker \in Controllers
  BY <1>1 DEF LifeInv, ControlTyped, ChannelsOK, Controllers
<1>3. \A d \in Controllers : d # c => ctl'[d] = ctl[d]
  BY <1>1 DEF LifeInv, ControlTyped
<1>4. ctl'[c] = IF running THEN "close" ELSE "sessions"
  BY <1>1 DEF LifeInv, ControlTyped
<1>5. LaunchOK'
  BY <1>1, <1>2, <1>3, <1>4 DEF LifeInv, LaunchOK
<1>6. Launched' <=> Launched
  BY <1>1, <1>3, <1>4 DEF Launched
<1>7. OneStops'
  BY <1>1, <1>3, <1>4, <1>6 DEF LifeInv, OneStops, Stopping
<1> QED BY <1>2, <1>5, <1>7 DEF LifeInv

LEMMA CloseStopKeeps ==
  ASSUME LifeInv, NEW c \in Controllers, CloseStop(c)
  PROVE  LifeInv'
<1>1. /\ ctl[c] = "close" /\ ctl' = [ctl EXCEPT ![c] = "done?"] /\ stopCh' = stopCh + 1
      /\ UNCHANGED <<doneCh, poolCh, loop, running, panicked>>
  BY DEF CloseStop, Goto, Counts
<1>2. stopCh' = 1 /\ ~running /\ Launched /\ poolCh = 0
  BY <1>1 DEF LifeInv, OneStops, Stopping
<1>3. ControlTyped' /\ LaunchOK' /\ ChannelsOK'
  BY <1>1, <1>2 DEF LifeInv, ControlTyped, LaunchOK, ChannelsOK
<1>4. Launched'
  BY <1>1, <1>2 DEF LifeInv, ControlTyped, Launched
<1>5. OneStops'
  BY <1>1, <1>2, <1>4 DEF LifeInv, ControlTyped, OneStops, Stopping
<1> QED BY <1>3, <1>5 DEF LifeInv

LEMMA ClosePoolKeeps ==
  ASSUME LifeInv, NEW c \in Controllers, ClosePool(c)
  PROVE  LifeInv'
<1>1. /\ ctl[c] = "done?" /\ ctl' = [ctl EXCEPT ![c] = "workers?"] /\ poolCh' = poolCh + 1
      /\ doneCh > 0 /\ UNCHANGED <<doneCh, stopCh, loop, running, panicked>>
  BY DEF ClosePool, LoopEnded, Goto, Counts
<1>2. poolCh' = 1 /\ doneCh = 1 /\ loop.pc = "ended" /\ ~running
  BY <1>1 DEF LifeInv, OneStops, ChannelsOK, Stopping
<1>3. \A d \in Controllers : ~Stopping(d)'
  BY <1>1 DEF LifeInv, ControlTyped, OneStops, Stopping
<1>4. ControlTyped' /\ LaunchOK' /\ ChannelsOK'
  BY <1>1, <1>2 DEF LifeInv, ControlTyped, LaunchOK, ChannelsOK
<1>5. OneStops'
  BY <1>1, <1>2, <1>3 DEF LifeInv, ControlTyped, OneStops, Stopping, Launched
<1> QED BY <1>4, <1>5 DEF LifeInv

(* The rest of Stop and Shutdown, and the panic, leave flag and channels.    *)
LEMMA ControlKeeps ==
  ASSUME LifeInv, NEW c \in Controllers, WorkersEnded(c) \/ TakeSessions(c)
  PROVE  LifeInv'
<1>1. PICK l \in {"sessions", "returned"} : ctl' = [ctl EXCEPT ![c] = l]
  BY DEF WorkersEnded, TakeSessions, Goto
<1>2. /\ ctl[c] \in {"workers?", "sessions"}
      /\ UNCHANGED <<stopCh, doneCh, poolCh, loop, running, panicked>>
  BY DEF WorkersEnded, TakeSessions, Channels, Counts
<1>3. ControlTyped' /\ ChannelsOK' /\ Panicker \in Controllers
  BY <1>1, <1>2 DEF LifeInv, ControlTyped, ChannelsOK, Controllers
<1>4. ctl'[c] = l /\ \A d \in Controllers : d # c => ctl'[d] = ctl[d]
  BY <1>1 DEF LifeInv, ControlTyped
<1>5. LaunchOK'
  BY <1>2, <1>3, <1>4 DEF LifeInv, LaunchOK
<1>6. Launched' <=> Launched
  BY <1>2, <1>4 DEF Launched
<1>7. OneStops'
  BY <1>2, <1>4, <1>6 DEF LifeInv, OneStops, Stopping
<1> QED BY <1>3, <1>5, <1>7 DEF LifeInv

LEMMA PanicKeeps ==
  ASSUME LifeInv, Panic
  PROVE  LifeInv'
<1>1. /\ Panicker \in Controllers /\ ctl[Panicker] = "idle"
      /\ ctl' = [ctl EXCEPT ![Panicker] = "panic"] /\ panicked' = TRUE
      /\ UNCHANGED <<stopCh, doneCh, poolCh, loop, running>>
  BY DEF LifeInv, LaunchOK, Controllers, Panic, Goto, Channels
<1>2. ControlTyped' /\ LaunchOK' /\ ChannelsOK'
  BY <1>1 DEF LifeInv, ControlTyped, LaunchOK, ChannelsOK
<1>3. Launched' <=> Launched
  BY <1>1 DEF LifeInv, ControlTyped, Launched
<1>4. OneStops'
  BY <1>1, <1>3 DEF LifeInv, ControlTyped, OneStops, Stopping
<1> QED BY <1>2, <1>4 DEF LifeInv

LEMMA StopLoopKeeps ==
  ASSUME LifeInv, StopLoop
  PROVE  LifeInv'
<1>1. /\ loop.pc = "select" /\ doneCh' = doneCh + 1 /\ loop' = [loop EXCEPT !.pc = "ended"]
      /\ UNCHANGED <<stopCh, poolCh, ctl, running, panicked>>
  BY DEF StopLoop, Loop, Counts
<1>2. ControlTyped' /\ loop'.pc = "ended" /\ doneCh = 0
  BY <1>1 DEF LifeInv, ControlTyped, ChannelsOK
<1> QED BY <1>1, <1>2 DEF LifeInv, ControlTyped, LaunchOK, OneStops, ChannelsOK, Stopping, Launched

(* A step of the tick loop goes from one place inside to another.            *)
LEMMA LoopKeeps ==
  ASSUME LifeInv, loop' \in [pc : {"select", "lock", "hooks", "round", "submit", "wait"},
                         left : Int, rounds : Int],
         loop.pc \notin {"none", "ended"},
         UNCHANGED <<stopCh, doneCh, poolCh, ctl, running, panicked>>
  PROVE  LifeInv'
<1>1. loop'.pc \notin {"none", "ended"} /\ ControlTyped'
  BY DEF LifeInv, ControlTyped
<1> QED BY <1>1 DEF LifeInv, ControlTyped, LaunchOK, OneStops, ChannelsOK, Stopping, Launched

LEMMA TickingKeeps ==
  ASSUME LifeInv, Tick \/ Notified \/ ReadLock \/ Ticking
  PROVE  LifeInv'
<1>1. UNCHANGED <<stopCh, doneCh, poolCh, ctl, running, panicked>>
  BY DEF Tick, Notified, ReadLock, Ticking, Hook, ReadUnlock, BeginRound, Submit, AllSubmitted,
         EndRound, Channels, Counts
<1>2. loop.pc \notin {"none", "ended"}
  BY DEF Tick, Notified, ReadLock, Ticking, Hook, ReadUnlock, BeginRound, Submit, AllSubmitted,
         EndRound
<1> DEFINE In == [pc : {"select", "lock", "hooks", "round", "submit", "wait"},
                  left : Int, rounds : Int]
<1>3. loop \in In
  BY <1>2 DEF LifeInv, ControlTyped
<1>4. loop' \in In
  <2>1. CASE Tick \/ Notified
    BY <2>1, LifecycleBounds DEF Tick, Notified, Loop
  <2>2. CASE ReadLock \/ Hook \/ ReadUnlock \/ AllSubmitted \/ EndRound
    BY <1>3, <2>2 DEF ReadLock, Hook, ReadUnlock, AllSubmitted, EndRound, Loop
  <2>3. CASE BeginRound
    <3>1. CASE loop' = [loop EXCEPT !.pc = "select"]
      BY <1>3, <3>1
    <3>2. CASE loop' = [loop EXCEPT !.pc = "submit", !.rounds = loop.rounds - 1]
      <4>1. loop' = [[loop EXCEPT !.pc = "submit"] EXCEPT !.rounds = loop.rounds - 1]
        BY <3>2
      <4>2. [loop EXCEPT !.pc = "submit"] \in In /\ loop.rounds - 1 \in Int
        BY <1>3
      <4> QED BY <4>1, <4>2
    <3> QED BY <2>3, <3>1, <3>2 DEF BeginRound, Loop
  <2>4. ASSUME NEW j \in JobWorlds, Submit(j) PROVE loop' \in In
    BY <1>3, <2>4 DEF Submit
  <2> QED BY <2>1, <2>2, <2>3, <2>4 DEF Ticking
<1> QED BY <1>1, <1>2, <1>4, LoopKeeps

(* Workers, the lock, and the workers' launch touch nothing of this.         *)
LEMMA RestKeeps ==
  ASSUME LifeInv, UNCHANGED <<running, stopCh, doneCh, poolCh, loop, ctl, panicked>>
  PROVE  LifeInv'
  BY DEF LifeInv, ControlTyped, LaunchOK, OneStops, ChannelsOK, Stopping, Launched

LEMMA LifeNextInv == LifeInv /\ [LifeNext]_lifeVars => LifeInv'
<1> SUFFICES ASSUME LifeInv, [LifeNext]_lifeVars PROVE LifeInv'
  OBVIOUS
<1>1. ASSUME NEW c \in Controllers, NEW w \in Workers, LaunchWorker(c, w) PROVE LifeInv'
  BY <1>1, RestKeeps DEF LaunchWorker, Channels, Counts
<1>2. ASSUME NEW c \in Controllers, Start(c) \/ Shutdown(c) \/ Control(c) \/ TakeSessions(c)
      PROVE  LifeInv'
  BY <1>1, <1>2, StartKeeps, LaunchKeeps, ShutdownKeeps, CloseStopKeeps, ClosePoolKeeps,
     ControlKeeps DEF Control
<1>3. CASE Panic
  BY <1>3, PanicKeeps
<1>4. CASE Tick \/ Notified \/ ReadLock \/ Ticking
  BY <1>4, TickingKeeps
<1>5. CASE StopLoop
  BY <1>5, StopLoopKeeps
<1>6. ASSUME NEW w \in Workers, Working(w) PROVE LifeInv'
  BY <1>6, RestKeeps DEF Working, TakeJob, FinishJob, EndWorker, Channels, Counts
<1>7. CASE WantLock \/ WriteLock \/ WriteUnlock
  BY <1>7, RestKeeps DEF WantLock, WriteLock, WriteUnlock, Channels, Counts
<1>8. CASE UNCHANGED lifeVars
  BY <1>8, RestKeeps DEF lifeVars
<1> QED BY <1>2, <1>3, <1>4, <1>5, <1>6, <1>7, <1>8 DEF LifeNext

(* However many goroutines start, shut down and panic, no channel of the     *)
(* scheduler is closed twice and nothing is sent on one that is closed.      *)
THEOREM ChannelsNeverPanic == LifeSpec => []NoChannelPanic
<1>1. LifeInv => NoChannelPanic
  BY DEF LifeInv, ControlTyped, ChannelsOK, NoChannelPanic
<1> QED BY <1>1, LifeInitInv, LifeNextInv, PTL DEF LifeSpec

=============================================================================
