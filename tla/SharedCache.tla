----------------------------- MODULE SharedCache -----------------------------
(****************************************************************************)
(* The cache of shared entities, the second half of cache.go. It is built   *)
(* like the peer cache and differs where it is interesting: an entry has    *)
(* one type of data and one subscription, providers are asked one after the *)
(* other and the first with an answer is used, a nil update deletes the     *)
(* entity and makes the entry be fetched again, and a batch whose providers *)
(* all fail leaves errors without a time.                                   *)
(*                                                                          *)
(* Steps are those of PeerCache: one access to an atomic field, the map or  *)
(* a channel, one critical section, one call of a provider. A member of     *)
(* SharedIds stands for an entity and a data type, the key of an entry.     *)
(* Data is a version number.                                                *)
(****************************************************************************)
EXTENDS Integers, Sequences, FiniteSets, SequencesExt

CONSTANTS
  SharedIds,
  Providers,     \* getProviders: how many providers serve the type
  Callers,       \* transactions that resolve shared fields
  Ones,          \* the entities each caller gives to resolve
  Lists,         \* the lists each caller gives to resolveMany
  Faults,        \* what a backend may do: "error", "nosub"
  MaxWorkers,    \* cacheMaxWorkers
  GracePeriod,   \* cacheGracePeriodMs
  RetryDelay,    \* cacheRetryDelayMs
  ChannelSize,   \* cacheUpdateChannelSize
  Entries,       \* bound: the entries that may ever be created
  Start,         \* the clock at first, long after the zero time
  MaxTime,       \* bound on the clock
  MaxChanges,    \* bound on the changes in the backend
  Cleans, Stops, \* bound: whether cleanup and stop happen
  NoEntry, NoId, NoCaller, NoData, Failed

ASSUME SharedTimes ==
  /\ {MaxWorkers, GracePeriod, RetryDelay, ChannelSize, Providers, MaxChanges} \subseteq Nat
  /\ Start \in Nat /\ MaxTime \in Nat /\ GracePeriod < Start /\ RetryDelay < Start
ASSUME SharedValues == {NoData, Failed} \cap Int = {} /\ NoData # Failed
ASSUME SharedNames  == NoEntry \notin Entries /\ NoId \notin SharedIds /\ NoCaller \notin Callers
ASSUME SharedAsks   ==
  Ones \in [Callers -> SUBSET SharedIds] /\ \A p \in Callers : Lists[p] \subseteq Seq(SharedIds) \ {<<>>}

VARIABLES
  now,
  entryOf,    \* sharedCache.entries
  ent,        \* the fields of each sharedCacheEntry
  job,        \* a caller: where it is and its local variables
  tasks,      \* subscribeEntry calls under way
  closer,     \* cleanup and stop: where they are
  cancelled,  \* whether ctx is done and stopCleanup closed
  truth,      \* external: the backend's version of each entity, NoData when deleted
  changes     \* external: how often it has changed

vars == <<now, entryOf, ent, job, tasks, closer, cancelled, truth, changes>>

Versions == {NoData} \cup 0 .. MaxChanges

(* live: subscriptions the backend serves; held: whether the subscription    *)
(* field has one; deletions: nil updates that were applied; dying: between   *)
(* the two stores of one.                                                    *)
NewEntry(id) ==
  [id |-> id, status |-> "pending", mu |-> NoCaller, accessed |-> 0, fetched |-> 0,
   errorAt |-> 0, data |-> NoData, live |-> 0, held |-> FALSE, queue |-> <<>>, closes |-> 0,
   proc |-> "none", dying |-> FALSE, deletions |-> 0]

NoJob ==
  [pc |-> "idle", ids |-> <<>>, many |-> FALSE, es |-> <<>>, fetch |-> <<>>, k |-> 1, v |-> 1,
   got |-> <<>>]

Resting == [pc |-> "idle", todo |-> {}, e |-> NoEntry, cas |-> 1]

Init ==
  /\ now = Start
  /\ entryOf = [id \in SharedIds |-> NoEntry]
  /\ ent = [e \in Entries |-> NewEntry(NoId)]
  /\ job = [p \in Callers |-> NoJob]
  /\ tasks = {}
  /\ closer = [c \in {"cleanup", "stop"} |-> Resting]
  /\ cancelled = FALSE
  /\ truth = [id \in SharedIds |-> 0] /\ changes = 0

Tick ==
  /\ now < MaxTime /\ now' = now + 1
  /\ UNCHANGED <<entryOf, ent, job, tasks, closer, cancelled, truth, changes>>

(* What no step of a caller touches.                                         *)
Others == UNCHANGED <<now, closer, cancelled, truth, changes>>

-----------------------------------------------------------------------------
(* Workers.                                                                  *)

Working == Cardinality({e \in Entries : ent[e].proc = "worker"})
             + Cardinality({k \in tasks : k.by = NoCaller})

(* spawnWorker.                                                              *)
Spawn == IF cancelled THEN "dropped" ELSE IF Working < MaxWorkers THEN "worker" ELSE "inline"

-----------------------------------------------------------------------------
(* A caller finds or makes its entries and reads their status.               *)

Goto(p, l) == job' = [job EXCEPT ![p].pc = l]

At(p)      == job[p].es[job[p].k]
BatchAt(p) == job[p].es[job[p].fetch[job[p].k]]

Call(p, ids, many) ==
  /\ job[p].pc = "idle"
  /\ job' = [job EXCEPT ![p] = [NoJob EXCEPT !.pc = "entry", !.ids = ids, !.many = many]]
  /\ Others /\ UNCHANGED <<entryOf, ent, tasks>>

(* getOrCreateEntry; the one that stores a new entry starts processUpdates.  *)
FoundEntry(p) ==
  LET e == entryOf[job[p].ids[job[p].k]] IN
  /\ job[p].pc = "entry" /\ e # NoEntry
  /\ job' = [job EXCEPT ![p].es = Append(@, e), ![p].pc = "status"]
  /\ Others /\ UNCHANGED <<entryOf, ent, tasks>>

Free == {e \in Entries : ent[e].id = NoId}

CreateEntry(p) ==
  LET id == job[p].ids[job[p].k]
      e  == CHOOSE x \in Free : TRUE
  IN
  /\ job[p].pc = "entry" /\ entryOf[id] = NoEntry /\ Free # {}
  /\ entryOf' = [entryOf EXCEPT ![id] = e]
  /\ ent' = [ent EXCEPT ![e] =
               [NewEntry(id) EXCEPT !.proc = IF Spawn = "dropped" THEN "none" ELSE Spawn]]
  /\ job' = [job EXCEPT ![p].es = Append(@, e),
                        ![p].pc = IF Spawn = "inline" THEN "processing" ELSE "status"]
  /\ Others /\ UNCHANGED tasks

ProcessedInline(p) ==
  /\ job[p].pc = "processing" /\ ent[At(p)].proc = "ended"
  /\ Goto(p, "status")
  /\ Others /\ UNCHANGED <<entryOf, ent, tasks>>

RetryDue(e) == ent[e].status = "error" /\ now - ent[e].errorAt > RetryDelay

ReadStatus(p) ==
  /\ job[p].pc = "status" /\ ~job[p].many
  /\ job' = [job EXCEPT ![p].fetch = <<1>>,
       ![p].pc = IF RetryDue(At(p)) THEN "retry"
                 ELSE IF ent[At(p)].status = "pending" THEN "lock" ELSE "check"]
  /\ Others /\ UNCHANGED <<entryOf, ent, tasks>>

(* The CompareAndSwap from error back to pending.                            *)
ResetError(p) ==
  LET e == At(p) IN
  /\ job[p].pc = "retry"
  /\ ent' = [ent EXCEPT ![e].status = IF @ = "error" THEN "pending" ELSE @]
  /\ Goto(p, IF ent[e].status = "error" THEN "lock" ELSE "check")
  /\ Others /\ UNCHANGED <<entryOf, tasks>>

Hit(e) == ent[e].status = "ready" /\ ent[e].data # NoData

AfterPass(j) ==
  IF j.k < Len(j.ids) THEN [j EXCEPT !.k = @ + 1, !.pc = "entry"]
  ELSE IF j.fetch = <<>> \/ Providers = 0 THEN NoJob
  ELSE [j EXCEPT !.k = 1, !.pc = "lock"]

(* The first pass of resolveMany; an error is not tried again.               *)
ReadStatusMany(p) ==
  LET e == At(p)
      j == job[p]
  IN
  /\ j.pc = "status" /\ j.many
  /\ ent' = IF Hit(e) THEN [ent EXCEPT ![e].accessed = now] ELSE ent
  /\ job' = [job EXCEPT ![p] = AfterPass(
               IF ent[e].status = "pending" THEN [j EXCEPT !.fetch = Append(@, j.k)] ELSE j)]
  /\ Others /\ UNCHANGED <<entryOf, tasks>>

-----------------------------------------------------------------------------
(* It takes the lock of its entry, or of those of its batch in the order of  *)
(* the list, and asks the providers one after the other.                     *)

(* Mutant: the status is not read again under the lock.                      *)
StillPendingNoRecheck(e) == TRUE

StillPending(e) == ent[e].status = "pending"

Lock(p) ==
  LET e == BatchAt(p)
      j == job[p]
  IN
  /\ j.pc = "lock" /\ ent[e].mu = NoCaller
  /\ IF j.many \/ StillPending(e)
     THEN /\ ent' = [ent EXCEPT ![e].mu = p]
          /\ job' = [job EXCEPT ![p] = IF j.k < Len(j.fetch) THEN [j EXCEPT !.k = @ + 1]
                                       ELSE [j EXCEPT !.k = 1, !.pc = "ask"]]
     ELSE UNCHANGED ent /\ Goto(p, "check")
  /\ Others /\ UNCHANGED <<entryOf, tasks>>

Wanted(p) == {ent[job[p].es[i]].id : i \in ToSet(job[p].fetch)}

(* FetchEntity and FetchEntities. A single entity that the provider does not *)
(* have makes the next provider be asked, a batch is answered as it is; when *)
(* no provider is left, it has failed.                                       *)
Ask(p) ==
  LET j    == job[p]
      told == [id \in Wanted(p) |-> truth[id]]
      none == [id \in Wanted(p) |-> Failed]
      next == IF j.v < Providers THEN [j EXCEPT !.v = @ + 1]
              ELSE [j EXCEPT !.pc = "apply", !.got = none]
  IN
  /\ j.pc = "ask"
  /\ \/ /\ "error" \in Faults \/ Providers = 0
        /\ job' = [job EXCEPT ![p] = next]
     \/ /\ Providers > 0
        /\ job' = [job EXCEPT ![p] =
             IF ~j.many /\ told[ent[BatchAt(p)].id] = NoData THEN next
             ELSE [j EXCEPT !.pc = "apply", !.got = told]]
  /\ Others /\ UNCHANGED <<entryOf, ent, tasks>>

(* Mutant: a caller that found nothing keeps its locks.                      *)
UnlockedKept(p, en) == en

Unlocked(p, en) ==
  [e \in Entries |-> IF en[e].mu = p THEN [en[e] EXCEPT !.mu = NoCaller] ELSE en[e]]

(* After an entry: the next of the batch, or the locks are released.         *)
Advance(p, en) ==
  LET j == job[p] IN
  IF ~j.many
  THEN Goto(p, "check") /\ ent' = Unlocked(p, en)
  ELSE IF j.k < Len(j.fetch)
  THEN job' = [job EXCEPT ![p].k = @ + 1, ![p].pc = "apply"] /\ ent' = en
  ELSE job' = [job EXCEPT ![p] = NoJob] /\ ent' = Unlocked(p, en)

(* The answer for one entry. A batch leaves alone what is no longer pending, *)
(* and forgets the time of the error when all providers failed.              *)
Apply(p) ==
  LET e   == BatchAt(p)
      got == job[p].got[ent[e].id]
  IN
  /\ job[p].pc = "apply"
  /\ IF job[p].many /\ ~StillPending(e) THEN Advance(p, ent)
     ELSE IF got \in {NoData, Failed}
     THEN Advance(p, [ent EXCEPT ![e].status = "error",
                                 ![e].errorAt = IF job[p].many /\ got = Failed THEN @ ELSE now])
     ELSE ent' = [ent EXCEPT ![e].data = got, ![e].fetched = now] /\ Goto(p, "ready")
  /\ Others /\ UNCHANGED <<entryOf, tasks>>

(* The status is stored, whatever it has become meanwhile, and a subscriber  *)
(* is started.                                                               *)
SetReady(p) ==
  LET e     == BatchAt(p)
      ready == [ent EXCEPT ![e].status = "ready"]
  IN
  /\ job[p].pc = "ready"
  /\ IF Spawn = "inline" THEN ent' = ready /\ Goto(p, "subscribing") ELSE Advance(p, ready)
  /\ tasks' = IF Spawn = "dropped" THEN tasks
              ELSE tasks \cup {[e |-> e, by |-> IF Spawn = "inline" THEN p ELSE NoCaller,
                                at |-> "subscribe"]}
  /\ Others /\ UNCHANGED entryOf

SubscribedInline(p) ==
  /\ job[p].pc = "subscribing" /\ \A k \in tasks : k.by # p
  /\ Advance(p, ent)
  /\ Others /\ UNCHANGED <<entryOf, tasks>>

Check(p) ==
  LET e == At(p) IN
  /\ job[p].pc = "check"
  /\ ent' = IF Hit(e) THEN [ent EXCEPT ![e].accessed = now] ELSE ent
  /\ job' = [job EXCEPT ![p] = NoJob]
  /\ Others /\ UNCHANGED <<entryOf, tasks>>

-----------------------------------------------------------------------------
(* subscribeEntry: SubscribeEntity, and the field that takes the new         *)
(* subscription without closing the one it had.                              *)
Subscribe(k) ==
  /\ k.at = "subscribe"
  /\ \/ "nosub" \in Faults /\ tasks' = tasks \ {k} /\ UNCHANGED ent
     \/ /\ tasks' = (tasks \ {k}) \cup {[k EXCEPT !.at = "store"]}
        /\ ent' = [ent EXCEPT ![k.e].live = @ + 1]
  /\ UNCHANGED <<now, entryOf, job, closer, cancelled, truth, changes>>

StoreSubscription(k) ==
  /\ k.at = "store" /\ tasks' = tasks \ {k}
  /\ ent' = [ent EXCEPT ![k.e].held = TRUE]
  /\ UNCHANGED <<now, entryOf, job, closer, cancelled, truth, changes>>

-----------------------------------------------------------------------------
(* processUpdates.                                                           *)

Processing(e) == ent[e].proc \in {"worker", "inline"}

(* A nil update takes the data away first and the status then, which may     *)
(* have become any other meanwhile, closing too.                             *)
ProcessUpdate(e) ==
  LET r == ent[e]
      u == Head(r.queue)
  IN
  /\ Processing(e) /\ ~r.dying /\ r.queue # <<>>
  /\ ent' = [ent EXCEPT ![e] =
       IF r.status = "closing" THEN [r EXCEPT !.queue = Tail(@), !.proc = "ended"]
       ELSE IF u = NoData
       THEN [r EXCEPT !.queue = Tail(@), !.data = NoData, !.dying = TRUE, !.deletions = @ + 1]
       ELSE [r EXCEPT !.queue = Tail(@), !.data = u, !.fetched = now]]
  /\ UNCHANGED <<now, entryOf, job, tasks, closer, cancelled, truth, changes>>

DeletedStatus(e) ==
  /\ ent[e].dying
  /\ ent' = [ent EXCEPT ![e].dying = FALSE, ![e].status = "error"]
  /\ UNCHANGED <<now, entryOf, job, tasks, closer, cancelled, truth, changes>>

Drained(e) == ent[e].queue = <<>> /\ ent[e].closes > 0

ProcessorEnds(e) ==
  /\ Processing(e) /\ ~ent[e].dying /\ Drained(e)
  /\ ent' = [ent EXCEPT ![e].proc = "ended"]
  /\ UNCHANGED <<now, entryOf, job, tasks, closer, cancelled, truth, changes>>

(* External: an entity is changed, deleted or made anew, and each live       *)
(* subscription to it whose channel is open gets an update.                  *)
Change(id, version) ==
  LET heard == {e \in Entries : ent[e].id = id /\ ent[e].live > 0} IN
  /\ changes < MaxChanges /\ changes' = changes + 1
  /\ version \in {changes + 1, NoData} /\ version # truth[id]
  /\ truth' = [truth EXCEPT ![id] = version]
  /\ \A e \in heard : ent[e].closes = 0 /\ Len(ent[e].queue) + ent[e].live <= ChannelSize
  /\ ent' = [e \in Entries |-> IF e \in heard
               THEN [ent[e] EXCEPT !.queue = @ \o [i \in 1 .. ent[e].live |-> version]]
               ELSE ent[e]]
  /\ UNCHANGED <<now, entryOf, job, tasks, closer, cancelled>>

-----------------------------------------------------------------------------
(* cleanup and stop walk over the map and close entries.                     *)

ByCloser == UNCHANGED <<now, job, tasks, truth, changes>>

Known == {id \in SharedIds : entryOf[id] # NoEntry}

(* Bound: each entity it finds could have a new entry after it.              *)
StartCleanup ==
  /\ Cleans /\ Cardinality(Free) >= Cardinality(Known) /\ ~cancelled
  /\ closer["cleanup"].pc = "idle" /\ Known # {}
  /\ closer' = [closer EXCEPT !["cleanup"] = [Resting EXCEPT !.pc = "visit", !.todo = Known]]
  /\ ByCloser /\ UNCHANGED <<entryOf, ent, cancelled>>

Stop ==
  /\ Stops /\ ~cancelled /\ cancelled' = TRUE
  /\ closer' = [closer EXCEPT !["stop"] = [Resting EXCEPT !.pc = "visit", !.todo = Known]]
  /\ ByCloser /\ UNCHANGED <<entryOf, ent>>

LastUse(e) == IF ent[e].accessed = 0 THEN ent[e].fetched ELSE ent[e].accessed

Unused(e) == now - LastUse(e) > GracePeriod

NextVisit(c) == IF closer[c].todo = {} THEN Resting ELSE [closer[c] EXCEPT !.pc = "visit"]

Visit(c, id) ==
  LET e == entryOf[id]
      rest == [closer[c] EXCEPT !.todo = @ \ {id}, !.e = e, !.cas = 1]
  IN
  /\ closer[c].pc = "visit" /\ id \in closer[c].todo
  /\ closer' = [closer EXCEPT ![c] =
       IF e # NoEntry /\ (c = "stop" \/ Unused(e)) THEN [rest EXCEPT !.pc = "cas"]
       ELSE IF rest.todo = {} THEN Resting ELSE rest]
  /\ ByCloser /\ UNCHANGED <<entryOf, ent, cancelled>>

AllVisited(c) ==
  /\ closer[c].pc = "visit" /\ closer[c].todo = {}
  /\ closer' = [closer EXCEPT ![c] = Resting]
  /\ ByCloser /\ UNCHANGED <<entryOf, ent, cancelled>>

AfterClose(c) == IF c = "cleanup" THEN [closer[c] EXCEPT !.pc = "delete"] ELSE NextVisit(c)

(* close tries the three swaps and takes three failures for "closing".       *)
SwapStatus(c) ==
  LET e == closer[c].e IN
  /\ closer[c].pc = "cas"
  /\ IF ent[e].status = <<"ready", "pending", "error">>[closer[c].cas]
     THEN /\ ent' = [ent EXCEPT ![e].status = "closing"]
          /\ closer' = [closer EXCEPT ![c].pc = "subs"]
     ELSE /\ closer' = [closer EXCEPT ![c] = IF @.cas < 3 THEN [@ EXCEPT !.cas = @ + 1]
                                             ELSE AfterClose(c)]
          /\ UNCHANGED ent
  /\ ByCloser /\ UNCHANGED <<entryOf, cancelled>>

CloseSubscription(c) ==
  LET e == closer[c].e IN
  /\ closer[c].pc = "subs"
  /\ ent' = [ent EXCEPT ![e].live = IF ent[e].held THEN @ - 1 ELSE @, ![e].held = FALSE]
  /\ closer' = [closer EXCEPT ![c].pc = "channel"]
  /\ ByCloser /\ UNCHANGED <<entryOf, cancelled>>

CloseChannel(c) ==
  /\ closer[c].pc = "channel"
  /\ ent' = [ent EXCEPT ![closer[c].e].closes = @ + 1]
  /\ closer' = [closer EXCEPT ![c] = AfterClose(c)]
  /\ ByCloser /\ UNCHANGED <<entryOf, cancelled>>

Without(id) == [entryOf EXCEPT ![id] = NoEntry]

Delete(c) ==
  /\ closer[c].pc = "delete"
  /\ entryOf' = Without(ent[closer[c].e].id)
  /\ closer' = [closer EXCEPT ![c] = NextVisit(c)]
  /\ ByCloser /\ UNCHANGED <<ent, cancelled>>

-----------------------------------------------------------------------------
CallAny(p) ==
  (\E id \in Ones[p] : Call(p, <<id>>, FALSE)) \/ (\E ids \in Lists[p] : Call(p, ids, TRUE))

CallerStep(p) ==
  \/ FoundEntry(p) \/ CreateEntry(p) \/ ProcessedInline(p)
  \/ ReadStatus(p) \/ ResetError(p) \/ ReadStatusMany(p) \/ Ask(p) \/ Apply(p) \/ SetReady(p)
  \/ SubscribedInline(p) \/ Check(p)

TaskStep(k) == Subscribe(k) \/ StoreSubscription(k)

Updating(e) == ProcessUpdate(e) \/ DeletedStatus(e) \/ ProcessorEnds(e)

CloserStep(c) ==
  \/ (\E id \in SharedIds : Visit(c, id)) \/ AllVisited(c)
  \/ SwapStatus(c) \/ CloseSubscription(c) \/ CloseChannel(c) \/ Delete(c)

Next ==
  \/ Tick
  \/ \E p \in Callers : CallAny(p) \/ CallerStep(p) \/ Lock(p)
  \/ \E k \in tasks : TaskStep(k)
  \/ \E e \in Entries : Updating(e)
  \/ \E id \in SharedIds, n \in Versions : Change(id, n)
  \/ StartCleanup \/ Stop
  \/ \E c \in {"cleanup", "stop"} : CloserStep(c)

Spec == Init /\ [][Next]_vars

(* As for the peer cache: goroutines are scheduled, calls of a backend end,  *)
(* a mutex goes to the one that has waited longest.                          *)
Fairness ==
  /\ \A p \in Callers : WF_vars(CallerStep(p)) /\ SF_vars(Lock(p))
  /\ WF_vars(\E k \in tasks : TaskStep(k))
  /\ \A e \in Entries : WF_vars(Updating(e))
  /\ \A c \in {"cleanup", "stop"} : WF_vars(CloserStep(c))

FairSpec == Spec /\ Fairness

-----------------------------------------------------------------------------
(* Properties.                                                               *)

(* Type invariant of entries and callers, with the limit on goroutines.      *)
TypeOK ==
  /\ Working <= MaxWorkers
  /\ now \in Start .. MaxTime /\ changes \in 0 .. MaxChanges /\ cancelled \in BOOLEAN
  /\ entryOf \in [SharedIds -> Entries \cup {NoEntry}] /\ truth \in [SharedIds -> Versions]
  /\ \A e \in Entries :
       /\ ent[e].id \in SharedIds \cup {NoId}
       /\ ent[e].status \in {"pending", "ready", "error", "closing"}
       /\ ent[e].mu \in Callers \cup {NoCaller} /\ ent[e].data \in Versions
       /\ {ent[e].accessed, ent[e].fetched, ent[e].errorAt} \subseteq {0} \cup Start .. MaxTime
       /\ ent[e].live \in Nat /\ ent[e].held \in BOOLEAN /\ ent[e].closes \in Nat
       /\ ent[e].proc \in {"none", "worker", "inline", "ended"}

(* An entry is subscribed at most once more than its entity was deleted: two *)
(* callers that find it pending do not both fetch it, and only the fetch     *)
(* after a deletion leaves the subscription before it without an owner.      *)
OneSubscription == \A e \in Entries : ent[e].live <= 1 + ent[e].deletions

(* An entry that is ready stays so until it is closed or its entity deleted, *)
(* and until then its data does not become older: no failing fetch undoes    *)
(* the success of another, and nothing fetched is stored over an update.     *)
DataKept ==
  [][\A e \in Entries :
       /\ ent[e].status = "ready" => ent'[e].status \in {"ready", "closing"} \/ ent[e].dying
       /\ ent[e].deletions = 0 /\ ent[e].data # NoData /\ ent'[e].data # NoData
            => ent'[e].data >= ent[e].data]_vars

(* All lists given to resolveMany name their entities in one order, each once.*)
InOneOrder ==
  \E rank \in [SharedIds -> 1 .. Cardinality(SharedIds)] :
     \A p \in Callers : \A ids \in Lists[p] : \A i, j \in DOMAIN ids :
        i < j => rank[ids[i]] < rank[ids[j]]

(* While the lists given to resolveMany share one order, every call of it and *)
(* of resolve returns, whatever locks the calls wait for; only a caller that  *)
(* found the semaphore full is left with processUpdates of its new entry.     *)
EveryCallReturns ==
  InOneOrder =>
    \A p \in Callers : job[p].pc # "idle" ~> job[p].pc \in {"idle", "processing"}

=============================================================================
