# PECS in TLA+

PECS is an entity component system for Minecraft servers built on dragonfly.
Players, fake players and entities are *sessions* that carry *components*;
*loops* run at intervals, *tasks* at a given time, *handlers* on game events,
and each of them is a struct whose fields PECS fills in by reflection. What is
hard in it is its scheduler, its queue of tasks, the clean-up of sessions, its caches
of remote data, and the filling of structs that several goroutines take from one pool.
These are what the modules here describe, check and, for the most part, prove.

The repository has no tests; what the program is meant to do is taken from its
code, from its comments and from `src/readme.md`. All paths below are relative
to the repository; line numbers refer to it.

Contents: 1 inventory, 2 modules, 3 runs, 4 fairness, 5 proofs, 6 where code and
comments differ, 7 what is not modelled, 8 plan.

## 1 Inventory

Goroutines first, since every hard behaviour comes from them:

* one per world: dragonfly runs the transactions of a world one after another;
  handlers, loops, tasks and the joining and quitting of players are inside;
* the scheduler's `tickLoop`, woken by a `time.Ticker` and by `taskQueue.notif`;
* a pool of `GOMAXPROCS` workers that run one job per world and stage; a full pool
  makes the scheduler run the job itself;
* per cached entry one `processUpdates`, per fetch up to one goroutine a
  provider, one `cleanupLoop` per cache, all behind a semaphore of `cacheMaxWorkers`
  that runs the function in its caller when it is full;
* one per provider and local player, `processProviderUpdates`;
* any goroutine of the server that calls `Schedule`, `Cancel`, `Add`, `Remove`,
  `Shutdown`.

| component | state | operations | what is hard | what makes it correct |
|---|---|---|---|---|
| Tasks and the task queue (`task.go`, `scheduler.go`, `session.go`) | `scheduledTask` with its atomic `cancelled`, the heap and `notif`, `Session.pendingTasks`, the groups of a tick, the transactions of worlds | `Schedule`, `Schedule2`, `ScheduleAt`, `ScheduleGlobal`, `ScheduleRepeating`, `Cancel`, `Push`, `PopDue`, `processTasks`, `executeTask`, `reschedule`, the cancelling in `close` | callers, scheduler, worlds and closes all hold the same task; one signal for many pushes | nothing of a closed session runs; a task is taken up once; order; no lost signal; each task ends |
| Loops and the tick (`scheduler.go`) | `loopState.nextRun`, `lastRun`; the batches | `tick`, `runGlobalLoops`, `runLoopsForStage`, `ShouldRun`, `MarkRun`, `executeLoopForSessions` | `loopState` is shared by the worlds; `World.Exec` only queues; ticks come late | no burst, nothing left behind, once a tick for a session |
| Conflict analysis and batching (`meta.go`, `scheduler.go`) | access sets, `batches` | `analyzeSystem`, `Conflicts`, `addLoop`, `rebuildBatches` | several passes over lists that are rebuilt at each call | no conflicts inside a batch; each loop in one batch |
| Components (`component.go`, `session.go`) | slots, mask, `expirations` | `Add`, `AddFor`, `AddUntil`, `GetOrAdd`, `Remove`, `processExpirations`, `close` | hooks and the expirations are outside `s.mu` | detached once; mask and slots agree; pointers stay good; leases end |
| Sessions and indexes (`manager.go`, `session.go`, `handler.go`) | six maps with six locks, `worldCache`, `closed` | `NewSession`, `SpawnFake`, `SpawnEntity`, `addSession`, `MoveSession`, `close`, `removeSession`, `Shutdown` | many locks for one change | who is there is found, who is gone is not |
| Relations (`relation.go`, `manager.go`) | the target, or the set of targets, in a component | `Set`, `Get`, `Clear`; `Add`, `Remove`, `All`, `Resolve`; clearing at close | a snapshot of the holders is cleared one by one | no relation leads to a session that is gone |
| Peer cache (`cache.go`) | entries, their status, lock, data, subscriptions, channel | `resolve`, `resolveMany`, `fetchAndSubscribe`, `batchFetch`, `subscribeEntry`, `processUpdates`, `close`, `cleanup`, `stop` | atomics, locks and channels mixed; goroutines per fetch | what is fetched stays; new data is not replaced by old; one close; every call returns |
| Shared cache (`cache.go`) | as before, with one type of data and one subscription an entry | as before; a nil update deletes | a deletion beside a fetch, a batch whose providers fail | one subscription; data is kept; every call returns |
| Provider data of local players (`manager.go`) | subscriptions of a session | `initSessionFromProviders`, `processProviderUpdates` | failure half-way; updates beside a close | a failed join is in no index; an update changes no slot it should not |
| Injection (`inject.go`) | pointers in the system's struct | `injectSystem`, `zeroSystem`, `resolve…` | writes into structs the caller owns | a system sees its own session's data |
| Metadata (`meta.go`, `tags.go`) | `SystemMeta` per type | `analyzeSystem`, `parseTag` | reflection | the access sets |
| Registry, bitmasks (`component.go`, `bitmask.go`) | IDs, four words | `register`, `Set`, `Clear`, `ContainsAll`, `ContainsAny`, `Or`, … | eight bits for an ID, registration from any goroutine | an ID is one type's and stays; a mask is a set |
| Events and handlers (`handler.go`, `event.go`) | lists of handlers, pools | `Emit`, `EmitExcept`, thirty `Handle…` | pooled objects, events inside events | what is in a pool is clean and there once; a system has its own session's data |
| Peer and shared references (`peer.go`, `shared.go`) | slices replaced by compare-and-swap | `Set`, `Add`, `Remove` | retries | a set |
| Lifecycle (`scheduler.go`, `manager.go`) | `running`, channels | `Start`, `Stop`, `Shutdown` | who waits for whom | no channel closed twice; ticks end; `Shutdown` returns |
| Builder, bundles, commands, forms, actors, stages, declarations | – | set-up and accessors | – | – |

How they interact: a tick first expires components, then runs global loops, then
groups the open sessions by `worldCache` and runs the batches of each stage, then
pops due tasks. Closing a session cancels its tasks, closes its provider
subscriptions, detaches and clears its components, removes it from the indexes and
clears the relations to it. Injection reads slots and masks and asks the caches for
peers and shared entities.

## 2 Modules

An action is one critical section, one access to an atomic field, a channel or a
map, or one call of user code; a handler that does several of these is several
actions, in the order of the code. Names are those of the code where TLA+ allows it.

| module | models | checked by | proved in |
|---|---|---|---|
| `Tasks` | tasks from `Schedule` to their end | `MC_Tasks` | `Tasks_proofs` |
| `TaskHeap`, `DueQueue` | the heap of the task queue, and the queue it implements | `MC_Structures` | `Structures_proofs` |
| `Loops` | the loops of a tick | `MC_Loops` | `Scheduler_proofs` |
| `Batching` | access sets, `Conflicts`, `rebuildBatches` | `MC_Structures` | `Structures_proofs` |
| `Components` | the components of one session, and the provider updates to them | `MC_Components` | `Components_proofs` |
| `Sessions` | indexes, joining, closing, relations, `Shutdown` | `MC_Sessions` | `Sessions_proofs` |
| `PeerCache` | the first half of `cache.go` | `MC_PeerCache` | `PeerCache_proofs` |
| `SharedCache` | the second half of `cache.go` | `MC_SharedCache` | `SharedCache_proofs` |
| `Dispatch` | events, handlers, pools, injection, windows | `MC_Dispatch` | `Dispatch_proofs` |
| `Lifecycle` | `Start`, `Stop`, workers, panics, the lock a tick holds | `MC_Lifecycle` | `Scheduler_proofs` |
| `RefSets`, `IdSet` | `PeerSet` and `SharedSet`, and the set they implement | `MC_Structures` | `Structures_proofs` |
| `Registry` | `register` of component types | `MC_Structures` | `Structures_proofs` |
| `Bitmasks` | `Bitmask` | `MC_Structures` | `Structures_proofs` |

The `MC_` modules give names to constants; `MC_Structures` also composes five modules
whose states do not meet, so that each of its steps is a step of one. Definitions in
the modules whose comment begins with "Mutant" are mistakes one could make in the code; each
stands beside the definition it would replace and shows that a property notices it.

**Tasks.** `phase` says where a task is: `adding` (`Schedule` calls `addTask` for one
session after the other, `Push` follows), `queued`, `due` (in `dueTasks`), `checking`
(`executeTasksForStage` goes through its sessions, reading `closed` and `worldCache` of
one at a time), `grouped`, `dispatched` (in the slice of a transaction), `running`,
`returning`, and one of the final phases. `Push` is two actions, the insertion under the
lock and the signal. `tickLoop` is `RecvTick` or `RecvNotify`, `ReadClock`, `PopDue`,
then per stage `GroupTask`, `CheckSession`, `DispatchWorld`, `DispatchGlobals` and
`NextStage`, which waits for the jobs. A world's transaction is `BeginTx`, then
`PickTask` (reads `cancelled`), `StartTask` (finds the players in this world and injects), `EndTask`
or `EndRepeating` (which takes the run off the count and makes the next link), and
`RemoveTask`. `close` is `CloseSwap` (the flag), `CloseTake` (takes the list),
`CloseCancel` once a task, `CloseDone`. The heap is a set, whose least elements
`PopDue` takes; masks and injection are a free choice of "go on" or "turn away".

**TaskHeap and DueQueue.** What `Tasks` takes for granted. The goroutine that holds the queue's lock is at `doing`:
`Push` and `PushAppend`, then `Up`; `PopBegin`, then `Pop`, `Down`, `Popped` for each task and `PopEnd`; `compactHeap` as
`Keep` for each place of the heap, `Truncate`, and `SinkNext` and `Down` for each parent, at the numbers of pushes and
cancelled tasks the code names, as constants. Every round of a loop and every look at a `cancelled` flag is a step, since
a task is cancelled without the lock: `CancelTask` may come between any two of them, so that a task which
`compactHeap` has kept may be cancelled before it ends. `kept` is what it has written, `root` and `pos` are its
indices and those of `up` and `down`; they start at one. `pop` shortens the list first and sinks after.
`DueQueue` is a set of waiting tasks: `Add`, `Cancel`, `Ask`, `Give` the earliest that is due,
`Answer` when none is left. The refinement maps `waiting` to the tasks that are not cancelled among those in the heap and
the one in `hand`, which has been popped and whose flag has not been read yet.

**Batching.** A loop is a set of fields; kinds and types give the four access sets as
`analyzeSystem` builds them and say whether the loop is global. `AddLoop` starts a
rebuild of one list; `Consider` is one iteration over `remaining`, in the order of
names, `CloseBatch` the end of a pass, `Publish` the assignment to `batches`.

**Components.** One session. `Add` is slot, mask and data under `s.mu`, then `Attach`,
then `SetExpiry`; an `Add` over a present component copies into the same object.
`Remove` is one step under the lock, then `Detach`. `processExpirations` is
`CollectExpired`, then `RemoveExpired` and `DetachExpired` per type. `close` is
`CloseSwap`, `CloseCollect`, `CloseDetach`, `CloseClear`, `CloseDone`. An update of a provider
is `ReceiveUpdate`, which reads `closed`, and `AddProvided`, which fills the slot without
a hook, whatever has happened to the session in between. Hooks are steps
that change nothing else; a hook that calls the API again is one caller more. `NameType` is the
moment `register` stores the type of a new ID (`src/component.go:54`); until then `getType` knows
nothing of it, and `Detach` is passed over (`src/session.go:271`, `src/session.go:398`), which `missed` records.

**Sessions.** A join asks the providers one by one (`AskProvider`), then fills the cache
and the indexes, one lock a step. A player's own transactions are one after the other;
`Shutdown` closes sessions from another goroutine. `removeSession` is a step for each index, then
`SnapshotHolders` and a `ClearRelation` for each holder. The relations of a session are a
`Relation` (one target at most) or a `RelationSet` (`SetHolders`): `SetRelation` is `Set` or `Add`,
`DropRelation` is `Clear` or `Remove`, `GetRelation` what `Get`, `All` and `Resolve` do on the way,
drop closed targets. A `RelationSet` holds its lock throughout an operation, which is
therefore one step. `late` has the targets that were set when their `closed` flag was up already.

**PeerCache.** Per caller the local variables and the place in `resolve` or
`resolveMany`; per caller and provider the goroutine of a fetch; `SubscribeEntry` tasks;
`ProcessUpdate` and `ProcessorEnds` for the goroutine of an entry; `cleanup` and `stop`
go through `Visit`, `SwapStatus` (the three swaps of `close`), `CloseSubscriptions`,
`CloseChannel`, `Delete`. A batch applies its answer in two steps an entry: `ApplyNext` looks at the status and
stores the data, `SetStatus` stores the new status, and the entry may be closed in between.
The backend is external: it has a version for each
component and player, and `Change` sends it to live subscriptions whose channel is
open. Data is its version number.

**SharedCache.** The same steps where the code is the same. An entry has one type of data and
one subscription; providers are asked one after the other until one answers; a nil update
is a deletion, which leaves nil data and an error; the fetch after that subscribes once
more. A batch whose providers fail stores errors without a time.

**Dispatch.** An executor is a goroutine that runs systems: a transaction with an event of
dragonfly, a batch of loops, a task, or a caller of `Emit`, `EmitGlobal`, `EmitExcept`. It
takes an event and, for each handler in the order of registration and each window of its
sessions, an object from the pool, checks masks, fills the fields one after the other (each
kind of field is a disjunct, with the failing returns), runs, zeroes and puts back. The
handler may emit again, which is one executor more. A pointer is a record of the component,
the session it is of, and the session the way to it began at. `Change` is anything others do
meanwhile: a component, a relation or a closed flag.

**Loops.** `TickStart`, `NextGlobal` for the worlds one after the other, `Group`, `NextStage`; per
world a job that is a goroutine of the pool: `Filter` reads `ShouldRun` of a batch, `Exec` hands the
transaction to the world, and for each loop that was due `MarkRun` reads `nextRun`, `StoreNext` stores it
an interval later, `CheckBehind` reads it again and `CatchUp` stores it once more. The jobs of two worlds
take these steps over the same loops in any order, without a lock. (A `time.Time` has three words; those of the
ticker and of `time.Now` are compared by the one with the monotonic clock, so a read or a write is one step.)
Per world a queue of transactions with `Begin` (validates the sessions) and `RunLoop`. The next tick's time is any
later one, so ticks are as late as one likes.

**Lifecycle.** Controllers call `Start` or `Shutdown`, a panic in a system starts one more that
shuts down. The tick loop takes the read lock, runs hooks, releases it, submits rounds of jobs
to a channel (or runs a job itself when it is full) and waits for them. Joins and quits wait
for the write lock. Channels count how often they were closed.

**RefSets and IdSet.** The list is replaced, never changed, so a pointer is a number and a list;
`Load`, `Swap`, `Fail` are the compare-and-swap loop of `Add` and `Remove`, `Store` is `Set` and `Clear`.
`IdSet` has `Begin` and `Perform`: each call takes effect at one moment.

**Registry and Bitmasks.** `register` as its steps on two `sync.Map`s and the counter, with
the counter cut to the width of an ID. A word of a mask is the set of the positions of its ones, so that `&`, `|` and
`&^` are `\cap`, `\cup` and `\`; two masks are built beside the sets of IDs they stand for.

## 3 Runs

Twelve, each a question of its own.

| run | properties | instance | what it shows |
|---|---|---|---|
| `tasks_close` | `TypeOK`, `ClosedTasksStopped`, `OneWorldPerSession`, `RepeatsBounded`, `TakenOnce` | one session that moves once and may close, two worlds, two tasks, a repeating handle with one run or without end, no deadlock | After `close` no transaction takes up a task of the session, however `Schedule` fell between the swap of the flag and the taking of the list. A task whose player has left is not run beside one of the new world. A chain never has two links ahead. Two tasks are enough: the properties relate a task and a session, or two tasks. |
| `tasks_order` | `WorldOrder`, `NoLostWakeup` | one session, one world, two tasks (session or global), two stages, two times, one task cancellable | A world receives tasks in the order of `PopDue` and stage; a task due when pushed is reached by its own or an older signal. Order is a relation of two tasks, and with two stages and two times all four orders occur. |
| `tasks_live` | `EveryTaskEnds` | two sessions, one of which may close, two worlds, one task of any set of sessions, two stages | A queued task is popped in the end, and its stage served, although the signal may be dropped. "Ends" includes being turned away or found cancelled. |
| `components_leases` | `MaskMatches`, `DetachedOnce`, `PointerStable`, `EveryLeaseEnds` | one type, registered during the run, two objects, two callers, three times, provider updates, a close | The races of `Add`, `Remove`, expiry, updates and `close` over one slot. Slots of different types share only `s.mu`, so one type is enough; two objects give the replacement. |
| `peercache_close` | `ClosedOnce`, `ReadyStays`, `NeverOlder` | one player, two callers (`resolve` and `resolveMany`), a subscription that may be missing, one change, cleanup, two workers | The double look at the status keeps two callers from fetching the same entry; cleanup closes a channel once although a fetch may set the status of a closed entry again. |
| `peercache_live` | `EveryCallReturns`, `EveryProcessorEnds` | two players, one looked up alone by one of the callers, both in a list by both, failing fetches, one worker, `stop` | Two batches wait for each other's locks, taken in one order. With one worker the semaphore is full once an entry is there, so the second entry's goroutine and the subscriptions of a batch run in their callers; a caller comes back from `processUpdates` when `stop` closes the entry. |
| `sessions_down` | `OneWorld`, `FoundByKey`, `Unregistered`, `RelationsCleared` | a player with a relation, joining once or, when its first session is gone, a second time with the same keys, or once beside a fake player with a relation set; two worlds, an optional and a required provider, `Shutdown` | Indexes agree with the sessions after every order of joins, failed joins, transfers and quits; relations are cleared also while `Shutdown` runs and the holder closes. |
| `loops_late` | `NeverBehind`, `OncePerTick`, `NoBurst` | three loops in two stages (interval three, each tick, global), two worlds, two moving and closing sessions, queues of one, times up to three after the first | Two jobs inside `MarkRun` for one loop lose no catching up: a run is never nearer than an interval to the last but one, and what was overdue is due no earlier than now. Ticks are at every distance up to an interval, so a loop may be marked on time, late, or twice in a tick by two worlds. |
| `structures_all` | `NoConflictInBatch`, `EachLoopOnce`, `FirstFit`, `MasksAreSets`, `QueueImplemented`, `SetImplemented`, `IdsSound` | *batching:* four loops, two of one name, seven field sets over two types, one stage; *heap:* five pushes, three times, compaction at every second push and after a cancelled task; *reference set:* two IDs, two users, four lists; *registry:* three types, two goroutines, IDs of two bits, five draws; *masks:* three words of two bits | Four loops give three batches; five tasks a heap of three levels with `down` to either side and compactions while tasks are cancelled; four lists a swap that fails and is tried again; five draws pass the limit of three IDs; three words a query that must not stop at the first. |
| `sharedcache_all` | `OneSubscription`, `DataKept`, `EveryCallReturns` | two entities, two callers of `resolveMany`, one of them also of `resolve`, lists of one and of both, two providers that fail or do not subscribe, one worker, one change, two times; three scenes (cleanup; `stop`, with time; a batch of two) | A fetch is not undone by another that fails; only a deletion leaves a subscription behind; callers return although providers fail and the semaphore is full. Each scene has the actors one question needs, which keeps the instance small. |
| `dispatch_all` | `CleanPool`, `Exclusive`, `OwnFields` | two sessions, two components (one linked), five systems (two handlers and a global one, a loop, a task of two sessions), two executors, pools of two, two calls, one change | Two executors over one pool, with an event inside an event and a change at any moment; objects go from one session to the other. |
| `lifecycle_all` | `NoChannelPanic`, `EveryTickEnds`, `EveryShutdownReturns` | two goroutines that start and shut down, a panic, two workers, a channel of one place, two worlds, two rounds, two ticks, a hook, a join | Three concurrent `Stop`s, a full channel, a tick that is under way when `stopCh` is closed. |

Bounds are constants and are named as bounds where they are declared: the clock
(`MaxTime`), moves (`MaxMoves`), the sessions that may close (`Mortal`), cancelled tasks
(`Cancellable`), sets of target sessions (`Targets`), the entries, changes and ends of the
caches (`Entries`, `MaxChanges`, `Cleans`, `Stops`), the times at which a loop may have been
registered (`Built`), pushes, lists and draws (`MaxPushed`, `MaxRefs`, `MaxAsked`), calls
and changes (`MaxCalls`, `MaxChanges`), ticks and joins (`MaxTicks`, `MaxWrites`).
`CHECK_DEADLOCK FALSE` stands where the system may stop: when every loop
is registered, every object used, every session gone, the program shut down, or a bound
reached. In `Tasks` deadlock is checked.

Limits of the statements, all of them in the definitions' comments too:

* `DetachedOnce` speaks of open sessions. During a close a component may be detached
  twice or not at all (6), and one whose type `register` has not stored yet is not detached (`missed`).
* `ClosedOnce` holds as long as only `cleanup` closes entries. `stop` beside a `cleanup`
  can close a channel twice.
* `NeverOlder` needs that one provider serves a type and that it answers with the type
  or with an error.
* `OneWorld`, `FoundByKey`, `Unregistered` hold until `Shutdown` is called; `FoundByKey`
  also needs distinct keys of live sessions (`Overlaps` FALSE).
* `ClosedTasksStopped` is about taking up. A task that its transaction has taken up before the close ends still
  runs, since `executeTask` does not look at `cancelled` again (`src/scheduler.go:591`).
* `EveryCallReturns` lets a caller stay in `processUpdates` when the semaphore was full. Of both caches it
  is about lists that name their players or entities in one order and each once (`InOneOrder`). Two batches in opposite
  orders wait for each other, and a batch that has one entry twice waits for itself
  (`src/cache.go:359`, `src/cache.go:752`).
* `EveryLeaseEnds` allows that a renewal is lost (6): it says that leases end, not
  that they last.
* `OneSubscription` counts deletions: each may leave one subscription without an owner (6).
* `SetImplemented` is for lists without duplicates given to `Set`.
* `IdsSound` compares types until `register` has panicked for the limit (6).
* `EveryTickEnds` and `EveryShutdownReturns` are for hooks that do not read the sessions map
  while joins wait (`Meet` FALSE), and for calls of `Stop` from outside a tick (6).

## 4 Fairness

Safety is checked without any. Liveness runs use `FairSpec` (or `SceneSpec`, which includes it):

* `Tasks`: weak fairness of the clock, of the scheduler's goroutine, of each world and of
  each `Schedule` call once begun. Go runs a runnable goroutine, `time.Ticker` sends, a
  transaction of a world is followed by the next. Nothing is assumed of `Cancel`, `close`
  or of players, and no strong fairness is used.
* `Components`: weak fairness of the clock, the scheduler and calls once begun; nobody
  must call anything.
* `PeerCache` and `SharedCache`: weak fairness of calls once begun, goroutines, tasks, and of
  cleanup and stop once begun, since calls to a backend end, if only by `FetchTimeout`. Strong
  fairness only for taking an entry's lock: a `sync.Mutex` is handed to the one that has
  waited for more than a millisecond.
* `Lifecycle`: weak fairness of controllers once begun, of the tick, the workers and the unlocking.
  Strong fairness of taking a lock (a `sync.RWMutex` starves neither side) and of
  `StopLoop`: a `select` with several ready cases takes one at random, so a closed channel is
  not passed over for ever.

## 5 Proofs

`tlapm` proves the following for all values of the constants that satisfy the modules'
`ASSUME`s (none bounds the number of sessions, worlds, tasks, loops, types, callers or entries).
Each module has an inductive invariant, checked with TLC before it was proved, whose
preservation is proved action by action.

| module | theorem | states |
|---|---|---|
| `Tasks_proofs` | `Inductive`, `TypeCorrect` | `Spec => []IInv`, `Spec => []TypeOK` |
| | `NoWakeupIsLost` | `Spec => []NoLostWakeup` |
| | `CloseStopsTasks` | `Spec => ClosedTasksStopped` |
| | `NeverTakenTwice` | `Spec => TakenOnce` |
| | `TasksInOrder` | `Spec => []WorldOrder` |
| | `OneWorldAtATime` | `Spec => []OneWorldPerSession` |
| | `RepeatsStayBounded` | `Spec => []RepeatsBounded` |
| `Structures_proofs` | `BatchInductive`, `BatchTypes` | `Spec => []BatchInv`, `Spec => []TypeOK`, of `Batching` |
| | `BatchesNeverConflict` | `Spec => []NoConflictInBatch` |
| | `BatchesPartition` | `Spec => []EachLoopOnce` |
| | `BatchesFirstFit` | `Spec => []FirstFit` |
| | `RefInductive`, `RefTypes` | `RefSpec => []RefInv`, `RefSpec => []RefTypeOK`, of `RefSets` |
| | `NeverTwice` | `RefSpec => []NoDuplicates` |
| | `Implements` | `RefSpec => SetImplemented`, the refinement of `IdSet` |
| | `RegInductive` | `RegSpec => []RegInv`, of `Registry` |
| | `IdsStaySound` | `RegSpec => IdsSound` |
| | `HeapInductive` | `HeapSpec => []HeapInv`, of `TaskHeap` |
| | `HeapIsQueue` | `HeapSpec => QueueImplemented`, the refinement of `DueQueue` |
| | `MasksHoldSets` | `MaskSpec => []MasksAreSets`, of `Bitmasks` |
| `Components_proofs` | `Inductive`, `TypeCorrect` | `Spec => []IInv`, `Spec => []TypeOK` |
| | `MaskIsSlots` | `Spec => []MaskMatches` |
| | `DetachesOnce` | `Spec => []DetachedOnce` |
| | `PointersStayGood` | `Spec => PointerStable` |
| `Sessions_proofs` | `Inductive` | `Spec => []IInv` |
| | `ListedOnce` | `Spec => []OneWorld` |
| | `GoneFromIndexes` | `Spec => []Unregistered` |
| | `KeysLead` | `Spec => []FoundByKey`, if `~Overlaps` |
| | `RelationsAreCleared` | `Spec => []RelationsCleared` |
| `PeerCache_proofs` | `Inductive` | `Spec => []Inv` |
| | `ReadyIsKept` | `Spec => ReadyStays` |
| | `ChannelsClosedOnce` | `Spec => []ClosedOnce` |
| | `FetchesAreNotOlder` | `Spec => NeverOlder`, if `SingleSource` and `"empty" \notin Faults` |
| `Dispatch_proofs` | `Inductive` | `Spec => []Inv` |
| | `PoolsAreClean` | `Spec => []CleanPool` |
| | `EachServesOne` | `Spec => []Exclusive` |
| | `RunsWithOwnFields` | `Spec => []OwnFields` |
| `SharedCache_proofs` | `Inductive` | `Spec => [](Inv /\ FeedInv)` |
| | `SubscribedOnce` | `Spec => []OneSubscription` |
| | `DataIsKept` | `Spec => DataKept` |
| `Scheduler_proofs` | `Invariance` | `Spec => []IInv`, of `Loops` |
| | `NeverInBursts` | `Spec => NoBurst` |
| | `LeavesNoneBehind` | `Spec => []NeverBehind` |
| | `OnceInATick` | `Spec => []OncePerTick` |
| | `ChannelsNeverPanic` | `LifeSpec => []NoChannelPanic`, of `Lifecycle` |

The arguments:

* **Tasks.** `IInv` is `TypeOK /\ PlacesOK /\ PromptOK /\ ClosingOK`. `PlacesOK` ties the phase of a task
  to the one place that holds it: queue, due list, the task being checked, the groups of one
  world, the globals; without it nothing says that a task in a group is not in the queue
  as well. `PromptOK` adds to `NoLostWakeup` that a prompt task stays due, which is what
  makes the clock read after the signal late enough. `ClosingOK` says where a task of a
  closing session is found at each step of `close`: in `pendingTasks` until the list is
  taken, then in the taken list or cancelled, and cancelled at the end; it holds because `closed`
  is set before the list is taken and `executeTasksForStage` reads `closed` after `addTask`.
* **Order of tasks.** `OrderInv` says of the worlds what `PlacesOK` says of the scheduler. A task waits in one
  transaction of one world, once, and only the head of the running one is past `dispatched` (`LotsOK`,
  with `OnceOK` for the groups they are made of). `WorldOrder` is `LineOK`: it needs `GroupedOK`, a group and the
  globals are in the order of due times, since `PopDue` is, and `SentOK`, what has been dispatched in this
  stage to a world was its whole group. `OneWorldPerSession` follows from `PresentOK`: while a
  task runs its players are in that world, for a player leaves by a transaction of the same world.
* **Repetitions.** `RepeatOK` counts: what has run and what remains add up to the number asked for, as long as a
  link of the chain is ahead, and one link is ahead at most. It is about the cardinality of a set that each run makes
  larger by one, so it says too that the set is finite.
* **Batching.** Beside the types, `StoredOK`, the three properties for the lists that
  are in place, and `DraftOK`, the same for the batches made so far in a rebuild, together
  with: what is placed, put off and still to do make up the list, nothing twice; and a loop
  that was put off is blocked by an earlier one of this batch.
* **Components.** `BaseOK` counts, for each object, who has taken it out of its slot and has yet to
  call `Detach`, and says that the slot and these exclude each other; `ProvidedOK` says that
  what a provider update holds in its hands is in no slot yet. `DetachedOnce` follows since `s.mu` lets
  one of `Remove` and `RemoveExpired` take the object.
* **Sessions.** `HeldOK`: who holds a relation has a component that `close` has not cleared, so it
  is still in `Manager.sessions`; hence the snapshot of `clearAllRelationsTo` has it, which gives
  `ClearingOK`: what leads to a session that is clearing is in its snapshot or was set too late.
  `OwnOK`, `WorldOK` and `KeysOK` say, until `Shutdown`, where a session is listed at each
  step of its joining, moving and closing; `ApartOK` that of two sessions with a common key
  one is gone, which keeps the other in the index (`EntryOK`).
* **Dispatch.** `PoolOK` and `EventsOK`: an object or event in a pool is nobody's, and no two executors have the same,
  since `Get` takes out what it hands over. `ExecOK` says what an executor holds at each point, `InjectOK` how
  far its object is filled: the fields before the present one fit, and the component through which
  the next ones are reached is of the session of their window. No step writes to an object but its executor's,
  so `Change` by others cannot spoil a field that is filled; zeroing by the values of the fields makes `Clean`.
* **Registry.** `NumbersOK`: until the counter has passed the limit no two goroutines hold the same number, and one
  that is stored is held by him alone who is to name it. `LoadOrStore` may find another's ID; the number drawn is then
  lost, not used twice. That `2 ^ IdWidth` is a positive number is an assumption, for the provers know
  nothing of powers; it holds for every width.
* **PeerCache.** Who holds an entry's lock in which step, which entry each caller, fetch and
  subscription is at, and that an entry in the map is the one of its player. `ReadyStays` follows since
  statuses are stored under the lock, after a look at the status that was taken under the same lock.
  For `ClosedOnce`, cleanup holds an entry it has made `closing` until it has deleted it.
  `NeverOlder` needs more, `FeedInv`: what is in a channel is in the order of changes and follows the data
  (`Sorted`), and an entry that may still be fetched and is not being fetched has neither subscription nor
  update nor data (`Blank`), or its player has nothing at the provider any more (`Gone`). So what a fetch or a batch has in
  hand goes into a blank entry (`FetchOK`, `BatchOK`), and the subscription, and with it every
  update, comes after. The theorem is for one provider (`SingleSource`) that does not answer with nothing
  while it has something. The property's comment asks for the second and for one provider a
  component; the theorem for one in all, because in the model a live subscription of an entry delivers any component
  of the player, whichever provider it is of, and a first provider's subscription is live while a second
  still fetches. An empty answer of a provider that has something is stored as an error, after which the entry is
  fetched again beside its live subscription.
* **SharedCache.** `Inv` is as for the peer cache: entries and the map belong together, and a caller that fetches
  has the locks of all that it fetches for, so that what it stores goes into an entry that is not ready
  (`LocksOK`). `FeedInv` counts. The subscriptions of an entry, the subscribers on their way to it, one if it
  is or may be fetched and one while a nil update has yet to store its error (`Claims`) are together one
  more than its deletions at most: a fetch that succeeds hands its one to a subscriber, which hands it to the
  subscription, a deletion adds one and is the only step to do so. Hence an entry without deletions that may still be fetched
  is `Blank`: no subscription, subscriber or update, and no data but what the holder of its lock is about to make ready. So
  the first thing stored in it is the fetch, and updates come after it in the order of changes (`Sorted`), which
  gives `DataKept` together with `LocksOK`. Nothing is assumed of the number of providers or of what they answer.
* **Loops.** `SpacedOK` relates `nextRun` to the last two runs, exactly while no job is inside `MarkRun`
  for the loop (`Settled`). `StoresOK` says that whatever a job has read and not stored yet, and whatever is stored
  while others have yet to store, is an interval after the run before this tick's, so it does not matter whose store comes
  last. `MarkedOK` says that a job's finding stays true until another job marks the loop in the same tick, `JobsOK` which
  batches a job has served, where a loop that some job is still marking counts (`Served`); between two
  ticks no job is at work (`IdleOK`). `OncePerTick` is about what waits in the worlds' queues, `OnceInv`: no two transactions of a
  tick have a loop and a session in common (`ApartOK`), what a transaction will run has not run (`FreshOK`), and both it and
  what has run come from batches that the world's job has passed (`OfTickOK`, `RanOK`). The sessions of two worlds are
  apart because they are grouped once a tick, the loops of two batches by `OnceAssumption`, which is what
  `EachLoopOnce` of `Batching` shows.
* **Lifecycle.** `running` is a baton: of the goroutines that shut down one swaps it, and it alone closes the
  channels, `workerPool` after the loop has closed `doneCh`.
* **RefSets.** The list at a pointer does not change, so a swap that succeeds has computed its list
  from the one that it replaces: the swap is where `Add` and `Remove` take effect.
* **TaskHeap.** `SortedOK`: no parent comes after its child, except where `up` or `down` is at work; around that place
  the grandparent comes before the grandchildren, and while the heap is rebuilt only the parents from `root` on
  are in order. So the first of a heap is its earliest. That is a statement about heaps of any size, and the usual induction
  along the path to the root is beyond the provers; instead the places with a task earlier than the first
  would have a least one (`LeastNumber`, from the well-foundedness of the naturals), whose parent comes after it. `OncePushed`: a task is in
  the heap or in `hand`, once. `WrittenOK`: what `compactHeap` has written is what it has read, but for cancelled
  tasks. `EarliestOK`: what was popped is due and the earliest, and nothing due is left when `PopDue` compacts. With
  these `PushAppend` is `Add`, `Popped` is `Give` or, of a cancelled task, nothing, the end of a `PopDue` is `Answer`, and every other step but
  `CancelTask` leaves the waiting tasks as they are.
* **Bitmasks.** An ID is a word and a bit, by division with remainder, and no two IDs are the same word and bit; so a query
  word by word is a query ID by ID, and leaving out words that are empty in the argument changes nothing.

Only model-checked is all liveness: `EveryTaskEnds`, `EveryLeaseEnds`, `EveryCallReturns`, `EveryProcessorEnds`,
`EveryTickEnds`, `EveryShutdownReturns`. Fairness and `ENABLED` are beyond the prover. Every safety property of
section 3 is a theorem, with the hypotheses the table names for `KeysLead` and `FetchesAreNotOlder`.

## 6 Where code and comments differ

Three statements of the documentation are written down as properties that the runs do
not list, because they do not hold. Each is refuted by TLC when it is added to a cfg:

1. `RepeatingTasksRun` of `Tasks`: `executeTask` injects into the `repeatingTaskWrapper` with the
   metadata of the inner task (`src/scheduler.go:640`), which overwrites the interface
   value that it then calls. `src/readme.md:517`, "Repeating task (runs 5 times, every second)".
   As an INVARIANT of `MC_TasksClose.cfg` with `Fieldless <- NoTasks`, for inner tasks that have fields.
2. `BatchesReturn` of `PeerCache`: `batchFetch` locks entries in the order of its caller's list
   (`src/cache.go:358`), so two callers can wait for each other. `src/cache.go:220`. As a
   PROPERTY of `MC_PeerCacheLive.cfg` with `Lists <- AnyOrder`, `Ones <- NoOne`, `Faults <- NoFaults`,
   `MaxWorkers = 4`, `Stops = FALSE`.
3. `EveryWorldRuns` of `Loops`: one world's `MarkRun` makes a loop not due for the other
   (`src/scheduler.go:301`). `src/readme.md:420`, "for all sessions". As the INVARIANT of
   `MC_LoopsLate.cfg`.

Noted while the code was read and modelled; the models behave as the code does.

Tasks and loops:

* payload fields are zeroed before `Run` (`src/inject.go:157`; `src/readme.md:470`);
* a repetition that is turned away ends the chain (`src/scheduler.go:634`; `src/task.go:480`);
* tasks that end without `Run` stay in `pendingTasks` (`src/scheduler.go:616`; `src/session.go:52`);
* without worlds given to `Init` global tasks vanish (`src/scheduler.go:571`; `src/task.go:220`);
* a loop that reads a component as a peer is not in conflict with its writer (`src/meta.go:358`; `src/readme.md:1337`);
* two worlds may both mark a run, so the next is two intervals away (`src/scheduler.go:364`);
* a global loop with an interval runs in the first world only (`src/scheduler.go:252`; `src/scheduler.go:199`);
* stages follow each other within a world, not across worlds (`src/scheduler.go:311`; `src/readme.md:1331`);
* loops and handlers of two sessions are never run: each is given one session at a time (`src/scheduler.go:378`; `src/handler.go:133`).

Components, sessions and relations:

* a lease renewed between the two halves of `processExpirations` is lost (`src/session.go:376`; `src/component.go:169`);
* `ExpiresAt` answers for a component that was removed (`src/component.go:287`; `src/component.go:232`);
* `Add` on a closed session leaves a component there (`src/component.go:115`), and so does a provider
  update that read `closed` before the swap (`src/manager.go:862`); an update without data is ignored;
* `close` clears without `Detach` what was added after it collected (`src/session.go:287`);
* `MoveSession` and `addSession` beside `Shutdown` put a closed session back (`src/manager.go:184`), and a session that joins then is not closed (`src/manager.go:519`);
* of two sessions with one name, one cannot be found when the other goes (`src/manager.go:200`);
* a join that fails leaves its subscriptions (`src/manager.go:789`);
* `Relation.Get` stores nil without a lock and may undo a newer `Set` (`src/relation.go:48`);
* a hook of a type whose first `register` is between its two stores is not called (`src/component.go:54`; `src/session.go:398`);
* a component ID is cut to eight bits before it is compared with the limit: the 256th type panics, but where that is
  recovered the one after it gets the ID of the first (`src/component.go:49`).

Caches and references:

* `cleanup` closes an entry made a moment ago, whose times are zero (`src/cache.go:499`);
* a subscription made while its entry closes stays (`src/cache.go:330`);
* `close` of an entry can miss all three swaps and return, and `cleanup` then deletes an open entry (`src/cache.go:458`);
* `StaleTimeout` is read nowhere (`src/cache.go:208`; `src/provider.go:92`);
* an entry's status is one for all types (`src/cache.go:199`);
* with a full semaphore a transaction runs `processUpdates` itself (`src/cache.go:143`);
* a change between fetch and subscription is not seen (`src/cache.go:324`);
* a shared entity that is fetched again after its deletion gets a second subscription, and the first is not closed (`src/cache.go:872`);
* a nil update stores an error over a status that may be closing (`src/cache.go:906`);
* the errors of a shared batch whose providers all fail have no time and are tried again at once (`src/cache.go:807`); a list with the same entity twice locks its entry twice (`src/cache.go:752`);
* `Set` of `PeerSet` and `SharedSet` keeps duplicates, of which `Remove` takes out one (`src/peer.go:141`).

Injection and lifecycle:

* masks are checked and fields filled under separate locks, so a component may go in between; injection then fails, or an optional field stays nil (`src/handler.go:143`);
* the masks of fields before the first `Session` field of several are in no window (`src/meta.go:324`), and a relation whose source component has no field for it is read at offset 0 (`src/meta.go:502`);
* a second `Shutdown` after the first closes the caches' channels twice, and so does one that races the one of a panic (`src/manager.go:507`);
* `Start` after `Stop` uses channels that are closed (`src/scheduler.go:122`);
* `Stop` from a loop, a task that the scheduler runs itself, or a hook in a tick waits for itself (`src/scheduler.go:122`);
* a hook that reads the sessions map in a tick, while a join waits for the lock, waits for that join, which waits for the tick (`src/scheduler.go:174`): `MC_LifecycleAll.cfg` with `Meet = TRUE` violates `EveryTickEnds`.

## 7 What is not modelled

* The parsing of tags and the computing of offsets in `meta.go` and `tags.go`: reflection over Go types. What they
  yield, the access sets, windows and masks, is in `Batching` and `Dispatch`.
* Builder and bundles: sequential set-up before anything else runs.
* Commands, forms, actors, stages and declarations: accessors and wrappers without state of their own.
* The arguments of the thirty `Handle…` methods; each emits one event, and `HandleChangeWorld` and
  `HandleQuit` are in `Sessions`.
* User code: the bodies of systems, hooks and providers. Dragonfly: worlds are queues of
  transactions, players are somewhere. These are marked as external.
* Operations nobody calls or that decide nothing: `Peek`, `Len` and `Clear` of the queue, `Count`, `Equals`
  and `Clone` of a mask, `Has` and `Len` of the sets.
* A second look at a context inside `spawnWorker`, which is taken to pass.

## 8 Plan

Done: all modules of section 2, and proofs of all the safety properties. What would come next:

1. Composition: a session's close with components, tasks and indexes in one module, and
   an abstract specification of a task (scheduled, run or cancelled once) that `Tasks` implements.
2. `NeverOlder` for several providers, with subscriptions in the model that know which types they deliver.
