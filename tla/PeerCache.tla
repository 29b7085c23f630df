------------------------------ MODULE PeerCache ------------------------------
(****************************************************************************)
(* The cache of remote players' components, the first half of cache.go:     *)
(* resolve and resolveMany as the transactions of several worlds call them, *)
(* the fetches and subscriptions they start, the goroutine of each entry    *)
(* that applies updates, and the two that close entries, cleanup and stop.  *)
(*                                                                          *)
(* An access to an atomic field, to the map of entries or to a channel, and *)
(* a critical section of a lock, is one step. Two neighbouring accesses are *)
(* one step only where what comes between them could as well come before or *)
(* after both. Data is a version number, so that old and new can be told    *)
(* apart.                                                                   *)
(****************************************************************************)
EXTENDS Integers, Sequences, FiniteSets, SequencesExt

CONSTANTS
  Players, Types, Providers,
  ProvidersOf,   \* getProviders: the providers of a component type, in order
  Callers,       \* transactions that resolve peer fields
  Ones,          \* the players each caller gives to resolve
  Lists,         \* the sequences of players each caller gives to resolveMany
  Faults,        \* what a backend may do: "error", "empty", "nosub"
  MaxWorkers,    \* cacheMaxWorkers
  GracePeriod,   \* cacheGracePeriodMs
  RetryDelay,    \* cacheRetryDelayMs
  ChannelSize,   \* cacheUpdateChannelSize
  Entries,       \* bound: the entries that may ever be created
  Start,         \* the clock at first, long after the zero time
  MaxTime,       \* bound on the clock
  MaxChanges,    \* bound on the changes in the backend
  Cleans, Stops, \* bound: whether cleanup and stop happen
  NoEntry, NoPlayer, NoCaller, NoData

ASSUME ProvidersAssumption == ProvidersOf \in [Types -> Seq(Providers)]
ASSUME TimeAssumption ==
  /\ {MaxWorkers, GracePeriod, RetryDelay, ChannelSize} \subseteq Nat
  /\ Start \in Nat /\ MaxTime \in Nat /\ GracePeriod < Start /\ RetryDelay < Start
  /\ MaxChanges \in Nat /\ NoData \notin Int
ASSUME NamesAssumption == NoEntry \notin Entries /\ NoPlayer \notin Players /\ NoCaller \notin Callers
ASSUME AskAssumption ==
  Ones \in [Callers -> SUBSET Players] /\ \A p \in Callers : Lists[p] \subseteq Seq(Players) \ {<<>>}

VARIABLES
  now,
  entryOf,    \* peerCache.entries
  ent,        \* the fields of each peerCacheEntry
  job,        \* a caller: where it is and its local variables
  go,         \* the goroutines of fetchAndSubscribe, per caller and provider
  tasks,      \* subscribeEntry calls under way
  closer,     \* cleanup and stop: where they are
  cancelled,  \* whether ctx is done and stopCleanup closed
  truth,      \* external: the backend's version of each player's components
  changes     \* external: how often it has changed

cacheVars == <<entryOf, ent>>
backend   == <<truth, changes>>
vars == <<now, cacheVars, job, go, tasks, closer, cancelled, backend>>

Versions == {NoData} \cup 0 .. MaxChanges
Data     == [Types -> Versions]
Nothing  == [t \in Types |-> NoData]

NewEntry(pl) ==
  [player |-> pl, status |-> "pending", mu |-> NoCaller, accessed |-> 0, fetched |-> 0,
   errorAt |-> 0, data |-> Nothing, live |-> 0, listed |-> 0, queue |-> <<>>, closes |-> 0,
   proc |-> "none"]

NoJob ==
  [pc |-> "idle", type |-> CHOOSE t \in Types : TRUE, ids |-> <<>>, many |-> FALSE,
   es |-> <<>>, fetch |-> <<>>, k |-> 1, v |-> 1, any |-> FALSE, got |-> <<>>]

NoGo == [at |-> "idle", got |-> Nothing]
Resting == [pc |-> "idle", todo |-> {}, e |-> NoEntry, cas |-> 1]

Init ==
  /\ now = Start
  /\ entryOf = [pl \in Players |-> NoEntry]
  /\ ent = [e \in Entries |-> NewEntry(NoPlayer)]
  /\ job = [p \in Callers |-> NoJob]
  /\ go = [p \in Callers |-> [v \in Providers |-> NoGo]]
  /\ tasks = {}
  /\ closer = [c \in {"cleanup", "stop"} |-> Resting]
  /\ cancelled = FALSE
  /\ truth = [pl \in Players |-> [t \in Types |-> 0]] /\ changes = 0

Tick ==
  /\ now < MaxTime /\ now' = now + 1
  /\ UNCHANGED <<cacheVars, job, go, tasks, closer, cancelled, backend>>

-----------------------------------------------------------------------------
(* Workers.                                                                  *)

Working == Cardinality({e \in Entries : ent[e].proc = "worker"})
             + Cardinality({k \in tasks : k.by = NoCaller})

(* spawnWorker: a goroutine while the semaphore has room, else the caller    *)
(* runs the function itself; nothing once the context is done.               *)
Spawn == IF cancelled THEN "dropped" ELSE IF Working < MaxWorkers THEN "worker" ELSE "inline"

-----------------------------------------------------------------------------
(* A caller.                                                                 *)

Goto(p, l) == job' = [job EXCEPT ![p].pc = l]

(* The entry a caller is at: the one of the k-th player in the first pass,   *)
(* of the k-th pending one in the batch.                                     *)
At(p)      == job[p].es[job[p].k]
BatchAt(p) == job[p].es[job[p].fetch[job[p].k]]

Free == {e \in Entries : ent[e].player = NoPlayer}

(* resolve of one player, resolveMany of several.                            *)
Call(p, ids, many, t) ==
  /\ job[p].pc = "idle"
  /\ job' = [job EXCEPT ![p] = [NoJob EXCEPT !.pc = "entry", !.type = t, !.ids = ids,
                                             !.many = many]]
  /\ UNCHANGED <<now, cacheVars, go, tasks, closer, cancelled, backend>>

(* getOrCreateEntry; the one that stores a new entry starts processUpdates.  *)
FoundEntry(p) ==
  LET e == entryOf[job[p].ids[job[p].k]] IN
  /\ job[p].pc = "entry" /\ e # NoEntry
  /\ job' = [job EXCEPT ![p].es = Append(@, e), ![p].pc = "status"]
  /\ UNCHANGED <<now, cacheVars, go, tasks, closer, cancelled, backend>>

CreateEntry(p, e) ==
  LET pl == job[p].ids[job[p].k] IN
  /\ job[p].pc = "entry" /\ entryOf[pl] = NoEntry /\ e \in Free
  /\ entryOf' = [entryOf EXCEPT ![pl] = e]
  /\ ent' = [ent EXCEPT ![e] =
               [NewEntry(pl) EXCEPT !.proc = IF Spawn = "dropped" THEN "none" ELSE Spawn]]
  /\ job' = [job EXCEPT ![p].es = Append(@, e),
                        ![p].pc = IF Spawn = "inline" THEN "processing" ELSE "status"]
  /\ UNCHANGED <<now, go, tasks, closer, cancelled, backend>>

(* processUpdates, run inline, is over.                                      *)
ProcessedInline(p) ==
  /\ job[p].pc = "processing" /\ ent[At(p)].proc = "ended"
  /\ Goto(p, "status")
  /\ UNCHANGED <<now, cacheVars, go, tasks, closer, cancelled, backend>>

RetryDue(e) == ent[e].status = "error" /\ now - ent[e].errorAt > RetryDelay

ReadStatus(p) ==
  /\ job[p].pc = "status" /\ ~job[p].many
  /\ Goto(p, IF RetryDue(At(p)) THEN "retry"
             ELSE IF ent[At(p)].status = "pending" THEN "lock" ELSE "check")
  /\ UNCHANGED <<now, cacheVars, go, tasks, closer, cancelled, backend>>

(* The CompareAndSwap from error back to pending.                            *)
ResetError(p) ==
  LET e == At(p) IN
  /\ job[p].pc = "retry"
  /\ ent' = [ent EXCEPT ![e].status = IF @ = "error" THEN "pending" ELSE @]
  /\ Goto(p, IF ent[e].status = "error" THEN "lock" ELSE "check")
  /\ UNCHANGED <<now, entryOf, go, tasks, closer, cancelled, backend>>

(* Mutant: the status is not read again under the lock.                      *)
StillPendingNoRecheck(e) == TRUE

StillPending(e) == ent[e].status = "pending"

(* entry.mu, and under it the status once more. Without a provider the fetch *)
(* fails at once.                                                            *)
Lock(p) ==
  LET e == At(p)
      asked == ToSet(ProvidersOf[job[p].type])
  IN
  /\ job[p].pc = "lock" /\ ent[e].mu = NoCaller
  /\ IF StillPending(e) /\ asked # {}
     THEN /\ ent' = [ent EXCEPT ![e].mu = p]
          /\ go' = [go EXCEPT ![p] = [v \in Providers |->
                      [NoGo EXCEPT !.at = IF v \in asked THEN "fetch" ELSE "done"]]]
          /\ job' = [job EXCEPT ![p].pc = "fetch", ![p].any = FALSE]
     ELSE /\ ent' = IF StillPending(e)
                    THEN [ent EXCEPT ![e].status = "error", ![e].errorAt = now] ELSE ent
          /\ Goto(p, "check") /\ UNCHANGED go
  /\ UNCHANGED <<now, entryOf, tasks, closer, cancelled, backend>>

Serves(v) == {t \in Types : v \in ToSet(ProvidersOf[t])}

(* External: what a backend may answer for a player.                         *)
Answers(v, pl) ==
  {[t \in Types |-> IF t \in Serves(v) THEN truth[pl][t] ELSE NoData]}
    \cup (IF "empty" \in Faults THEN {Nothing} ELSE {})

Merged(old, new) == [t \in Types |-> IF new[t] = NoData THEN old[t] ELSE new[t]]

(* The goroutine of one provider: FetchPlayer answers or fails ...           *)
FetchPlayer(p, v) ==
  /\ go[p][v].at = "fetch"
  /\ \/ /\ "error" \in Faults
        /\ go' = [go EXCEPT ![p][v].at = "done"]
     \/ \E got \in Answers(v, ent[At(p)].player) :
          go' = [go EXCEPT ![p][v] = [at |-> "store", got |-> got]]
  /\ UNCHANGED <<now, cacheVars, job, tasks, closer, cancelled, backend>>

(* ... its components are stored ...                                         *)
StoreFetched(p, v) ==
  /\ go[p][v].at = "store"
  /\ ent' = [ent EXCEPT ![At(p)].data = Merged(@, go[p][v].got)]
  /\ job' = [job EXCEPT ![p].any = @ \/ go[p][v].got # Nothing]
  /\ go' = [go EXCEPT ![p][v] = [at |-> "subscribe", got |-> Nothing]]
  /\ UNCHANGED <<now, entryOf, tasks, closer, cancelled, backend>>

(* ... SubscribePlayer, found or not ...                                     *)
SubscribePlayer(p, v) ==
  /\ go[p][v].at = "subscribe"
  /\ \/ /\ "nosub" \in Faults
        /\ go' = [go EXCEPT ![p][v].at = "done"] /\ UNCHANGED ent
     \/ /\ ent' = [ent EXCEPT ![At(p)].live = @ + 1]
        /\ go' = [go EXCEPT ![p][v].at = "append"]
  /\ UNCHANGED <<now, entryOf, job, tasks, closer, cancelled, backend>>

(* ... and the subscription is listed in the entry.                          *)
AppendSubscription(p, v) ==
  /\ go[p][v].at = "append"
  /\ ent' = [ent EXCEPT ![At(p)].listed = @ + 1]
  /\ go' = [go EXCEPT ![p][v].at = "done"]
  /\ UNCHANGED <<now, entryOf, job, tasks, closer, cancelled, backend>>

(* Mutant: the lock is kept when every provider failed.                      *)
HolderKept(p) == IF job[p].any THEN NoCaller ELSE p

HolderAfter(p) == NoCaller

(* After wg.Wait: the status is stored, whatever it has become meanwhile.    *)
FetchDone(p) ==
  LET e == At(p) IN
  /\ job[p].pc = "fetch" /\ \A v \in Providers : go[p][v].at = "done"
  /\ ent' = [ent EXCEPT ![e].fetched = now, ![e].mu = HolderAfter(p),
                        ![e].status = IF job[p].any THEN "ready" ELSE "error",
                        ![e].errorAt = IF job[p].any THEN @ ELSE now]
  /\ go' = [go EXCEPT ![p] = [v \in Providers |-> NoGo]]
  /\ Goto(p, "check")
  /\ UNCHANGED <<now, entryOf, tasks, closer, cancelled, backend>>

Hit(e, t) == ent[e].status = "ready" /\ ent[e].data[t] # NoData

Check(p) ==
  LET e == At(p) IN
  /\ job[p].pc = "check"
  /\ ent' = IF Hit(e, job[p].type) THEN [ent EXCEPT ![e].accessed = now] ELSE ent
  /\ job' = [job EXCEPT ![p] = NoJob]
  /\ UNCHANGED <<now, entryOf, go, tasks, closer, cancelled, backend>>

-----------------------------------------------------------------------------
(* resolveMany and batchFetch.                                               *)

AfterPass(j) ==
  IF j.k < Len(j.ids) THEN [j EXCEPT !.k = @ + 1, !.pc = "entry"]
  ELSE IF j.fetch = <<>> \/ ProvidersOf[j.type] = <<>> THEN NoJob
  ELSE [j EXCEPT !.k = 1, !.pc = "lockAll"]

(* The first pass: an entry is used, left alone or kept for the batch. An    *)
(* error is not tried again.                                                 *)
ReadStatusMany(p) ==
  LET e == At(p)
      j == job[p]
  IN
  /\ j.pc = "status" /\ j.many
  /\ ent' = IF Hit(e, j.type) THEN [ent EXCEPT ![e].accessed = now] ELSE ent
  /\ job' = [job EXCEPT ![p] = AfterPass(
               IF ent[e].status = "pending" THEN [j EXCEPT !.fetch = Append(@, j.k)] ELSE j)]
  /\ UNCHANGED <<now, entryOf, go, tasks, closer, cancelled, backend>>

(* The locks are taken in the order of the caller's list.                    *)
LockNext(p) ==
  LET e == BatchAt(p)
      j == job[p]
  IN
  /\ j.pc = "lockAll" /\ ent[e].mu = NoCaller
  /\ ent' = [ent EXCEPT ![e].mu = p]
  /\ job' = [job EXCEPT ![p] = IF j.k < Len(j.fetch) THEN [j EXCEPT !.k = @ + 1]
                               ELSE [j EXCEPT !.k = 1, !.pc = "batch"]]
  /\ UNCHANGED <<now, entryOf, go, tasks, closer, cancelled, backend>>

Unlocked(p, en) == [e \in Entries |-> IF en[e].mu = p THEN [en[e] EXCEPT !.mu = NoCaller] ELSE en[e]]

Provider(p) == ProvidersOf[job[p].type][job[p].v]

(* FetchPlayers of one provider after the other: the first that answers is   *)
(* used; when none does, nothing changes.                                    *)
FetchPlayers(p) ==
  LET j      == job[p]
      owners == {ent[j.es[i]].player : i \in ToSet(j.fetch)}
      more   == j.v < Len(ProvidersOf[j.type])
  IN
  /\ j.pc = "batch"
  /\ \/ /\ "error" \in Faults
        /\ ent' = IF more THEN ent ELSE Unlocked(p, ent)
        /\ job' = [job EXCEPT ![p] = IF more THEN [j EXCEPT !.v = @ + 1] ELSE NoJob]
     \/ /\ \E got \in [owners -> UNION {Answers(Provider(p), pl) : pl \in owners}] :
             /\ \A pl \in owners : got[pl] \in Answers(Provider(p), pl)
             /\ job' = [job EXCEPT ![p].pc = "apply", ![p].got = got]
        /\ UNCHANGED ent
  /\ UNCHANGED <<now, entryOf, go, tasks, closer, cancelled, backend>>

AfterApply(j) == IF j.k = Len(j.fetch) THEN NoJob ELSE [j EXCEPT !.k = @ + 1, !.pc = "apply"]

(* After the last entry the locks are released.                              *)
Released(p, en) == IF job[p].k = Len(job[p].fetch) THEN Unlocked(p, en) ELSE en

Answer(p) == job[p].got[ent[BatchAt(p)].player]

(* The answer is applied entry by entry to those still pending: the data and *)
(* the time are stored ...                                                   *)
ApplyNext(p) ==
  LET e == BatchAt(p) IN
  /\ job[p].pc = "apply"
  /\ \/ /\ StillPending(e)
        /\ ent' = IF Answer(p) = Nothing THEN [ent EXCEPT ![e].errorAt = now]
                  ELSE [ent EXCEPT ![e].data = Merged(@, Answer(p)), ![e].fetched = now]
        /\ Goto(p, "settle")
     \/ /\ ~StillPending(e)
        /\ ent' = Released(p, ent) /\ job' = [job EXCEPT ![p] = AfterApply(@)]
  /\ UNCHANGED <<now, entryOf, go, tasks, closer, cancelled, backend>>

(* ... and then the status, whatever it has become meanwhile; a subscription *)
(* of an entry that was found is started.                                    *)
SetStatus(p) ==
  LET e      == BatchAt(p)
      found  == Answer(p) # Nothing
      set    == [ent EXCEPT ![e].status = IF found THEN "ready" ELSE "error"]
      inline == found /\ Spawn = "inline"
  IN
  /\ job[p].pc = "settle"
  /\ ent' = IF inline THEN set ELSE Released(p, set)
  /\ tasks' = IF found /\ Spawn # "dropped"
              THEN tasks \cup {[e |-> e, v |-> Provider(p), at |-> "subscribe",
                                by |-> IF inline THEN p ELSE NoCaller]}
              ELSE tasks
  /\ job' = [job EXCEPT ![p] = IF inline THEN [@ EXCEPT !.pc = "subscribing"] ELSE AfterApply(@)]
  /\ UNCHANGED <<now, entryOf, go, closer, cancelled, backend>>

(* subscribeEntry, run inline, is over.                                      *)
SubscribedInline(p) ==
  /\ job[p].pc = "subscribing" /\ \A k \in tasks : k.by # p
  /\ ent' = Released(p, ent) /\ job' = [job EXCEPT ![p] = AfterApply(@)]
  /\ UNCHANGED <<now, entryOf, go, tasks, closer, cancelled, backend>>

-----------------------------------------------------------------------------
(* The workers: subscribeEntry and processUpdates.                           *)

SubscribeEntry(k) ==
  /\ k.at = "subscribe"
  /\ \/ "nosub" \in Faults /\ tasks' = tasks \ {k} /\ UNCHANGED ent
     \/ /\ tasks' = (tasks \ {k}) \cup {[k EXCEPT !.at = "append"]}
        /\ ent' = [ent EXCEPT ![k.e].live = @ + 1]
  /\ UNCHANGED <<now, entryOf, job, go, closer, cancelled, backend>>

SubscribeEntryDone(k) ==
  /\ k.at = "append"
  /\ ent' = [ent EXCEPT ![k.e].listed = @ + 1] /\ tasks' = tasks \ {k}
  /\ UNCHANGED <<now, entryOf, job, go, closer, cancelled, backend>>

Processing(e) == ent[e].proc \in {"worker", "inline"}

(* One update taken from the channel; a closing entry takes no more.         *)
ProcessUpdate(e) ==
  LET u == Head(ent[e].queue) IN
  /\ Processing(e) /\ ent[e].queue # <<>>
  /\ ent' = IF ent[e].status = "closing"
            THEN [ent EXCEPT ![e].queue = Tail(@), ![e].proc = "ended"]
            ELSE [ent EXCEPT ![e].queue = Tail(@), ![e].data[u.type] = u.version,
                             ![e].fetched = now]
  /\ UNCHANGED <<now, entryOf, job, go, tasks, closer, cancelled, backend>>

(* Mutant: the goroutine looks at the status instead of the channel.         *)
DrainedByStatus(e) == ent[e].queue = <<>> /\ ent[e].status = "closing"

(* The channel is closed and empty, so the range over it ends.               *)
Drained(e) == ent[e].queue = <<>> /\ ent[e].closes > 0

ProcessorEnds(e) ==
  /\ Processing(e) /\ Drained(e)
  /\ ent' = [ent EXCEPT ![e].proc = "ended"]
  /\ UNCHANGED <<now, entryOf, job, go, tasks, closer, cancelled, backend>>

(* External: the backend changes a component and each live subscription to   *)
(* its player sends an update, NoData for a removal.                         *)
Change(pl, t, version) ==
  LET heard == {e \in Entries : ent[e].player = pl /\ ent[e].live > 0} IN
  /\ changes < MaxChanges /\ changes' = changes + 1
  /\ version \in {changes + 1, NoData} /\ truth[pl][t] # NoData
  /\ truth' = [truth EXCEPT ![pl][t] = version]
  /\ \A e \in heard : ent[e].closes = 0 /\ Len(ent[e].queue) + ent[e].live <= ChannelSize
  /\ ent' = [e \in Entries |-> IF e \in heard
               THEN [ent[e] EXCEPT !.queue = @ \o [i \in 1 .. ent[e].live |->
                                                  [type |-> t, version |-> version]]]
               ELSE ent[e]]
  /\ UNCHANGED <<now, entryOf, job, go, tasks, closer, cancelled>>

-----------------------------------------------------------------------------
(* cleanup and stop, each walking over the map and closing entries.          *)

Known == {pl \in Players : entryOf[pl] # NoEntry}

(* A cleanup starts only while each player could have a new entry after it,  *)
(* so that no caller waits for the bound on entries.                         *)
StartCleanup ==
  /\ Cleans /\ Cardinality(Free) >= Cardinality(Players) /\ ~cancelled /\ closer["cleanup"].pc = "idle" /\ Known # {}
  /\ closer' = [closer EXCEPT !["cleanup"] = [Resting EXCEPT !.pc = "visit", !.todo = Known]]
  /\ UNCHANGED <<now, cacheVars, job, go, tasks, cancelled, backend>>

(* stop, from Shutdown.                                                      *)
Stop ==
  /\ Stops /\ ~cancelled /\ cancelled' = TRUE
  /\ closer' = [closer EXCEPT !["stop"] = [Resting EXCEPT !.pc = "visit", !.todo = Known]]
  /\ UNCHANGED <<now, cacheVars, job, go, tasks, backend>>

LastUse(e) == IF ent[e].accessed = 0 THEN ent[e].fetched ELSE ent[e].accessed

Unused(e) == now - LastUse(e) > GracePeriod

NextVisit(c) == IF closer[c].todo = {} THEN Resting ELSE [closer[c] EXCEPT !.pc = "visit"]

Visit(c, pl) ==
  LET e == entryOf[pl]
      rest == [closer[c] EXCEPT !.todo = @ \ {pl}, !.e = e, !.cas = 1]
  IN
  /\ closer[c].pc = "visit" /\ pl \in closer[c].todo
  /\ closer' = [closer EXCEPT ![c] =
       IF e # NoEntry /\ (c = "stop" \/ Unused(e)) THEN [rest EXCEPT !.pc = "cas"]
       ELSE IF rest.todo = {} THEN Resting ELSE rest]
  /\ UNCHANGED <<now, cacheVars, job, go, tasks, cancelled, backend>>

AllVisited(c) ==
  /\ closer[c].pc = "visit" /\ closer[c].todo = {}
  /\ closer' = [closer EXCEPT ![c] = Resting]
  /\ UNCHANGED <<now, cacheVars, job, go, tasks, cancelled, backend>>

AfterClose(c) == IF c = "cleanup" THEN [closer[c] EXCEPT !.pc = "delete"] ELSE NextVisit(c)

(* close tries to swap to closing from ready, then from pending, then from   *)
(* error, and takes three failures for "already closing".                    *)
SwapStatus(c) ==
  LET e == closer[c].e IN
  /\ closer[c].pc = "cas"
  /\ IF ent[e].status = <<"ready", "pending", "error">>[closer[c].cas]
     THEN /\ ent' = [ent EXCEPT ![e].status = "closing"]
          /\ closer' = [closer EXCEPT ![c].pc = "subs"]
     ELSE /\ closer' = [closer EXCEPT ![c] =
                         IF @.cas < 3 THEN [closer[c] EXCEPT !.cas = @ + 1] ELSE AfterClose(c)]
          /\ UNCHANGED ent
  /\ UNCHANGED <<now, entryOf, job, go, tasks, cancelled, backend>>

ListedAfter(e) == 0

CloseSubscriptions(c) ==
  LET e == closer[c].e IN
  /\ closer[c].pc = "subs"
  /\ ent' = [ent EXCEPT ![e].live = @ - ent[e].listed, ![e].listed = ListedAfter(e)]
  /\ closer' = [closer EXCEPT ![c].pc = "channel"]
  /\ UNCHANGED <<now, entryOf, job, go, tasks, cancelled, backend>>

CloseChannel(c) ==
  /\ closer[c].pc = "channel"
  /\ ent' = [ent EXCEPT ![closer[c].e].closes = @ + 1]
  /\ closer' = [closer EXCEPT ![c] = AfterClose(c)]
  /\ UNCHANGED <<now, entryOf, job, go, tasks, cancelled, backend>>

(* Mutant: a closed entry stays in the map.                                  *)
WithoutNone(pl) == entryOf

Without(pl) == [entryOf EXCEPT ![pl] = NoEntry]

Delete(c) ==
  /\ closer[c].pc = "delete"
  /\ entryOf' = Without(ent[closer[c].e].player)
  /\ closer' = [closer EXCEPT ![c] = NextVisit(c)]
  /\ UNCHANGED <<now, ent, job, go, tasks, cancelled, backend>>

-----------------------------------------------------------------------------
CallAny(p) ==
  \E t \in Types : \/ \E pl \in Ones[p] : Call(p, <<pl>>, FALSE, t)
                  \/ \E ids \in Lists[p] : Call(p, ids, TRUE, t)

GoStep(p, v) ==
  \/ FetchPlayer(p, v) \/ StoreFetched(p, v) \/ SubscribePlayer(p, v) \/ AppendSubscription(p, v)

CallerStep(p) ==
  \/ FoundEntry(p) \/ (\E e \in Entries : CreateEntry(p, e)) \/ ProcessedInline(p)
  \/ ReadStatus(p) \/ ResetError(p) \/ FetchDone(p) \/ Check(p)
  \/ ReadStatusMany(p) \/ FetchPlayers(p) \/ ApplyNext(p) \/ SetStatus(p) \/ SubscribedInline(p)

Locking(p) == Lock(p) \/ LockNext(p)

TaskStep(k) == SubscribeEntry(k) \/ SubscribeEntryDone(k)

Updating(e) == ProcessUpdate(e) \/ ProcessorEnds(e)

CloserStep(c) ==
  \/ (\E pl \in Players : Visit(c, pl)) \/ AllVisited(c)
  \/ SwapStatus(c) \/ CloseSubscriptions(c) \/ CloseChannel(c) \/ Delete(c)

Next ==
  \/ Tick
  \/ \E p \in Callers : CallAny(p) \/ CallerStep(p) \/ Locking(p)
  \/ \E p \in Callers, v \in Providers : GoStep(p, v)
  \/ \E k \in tasks : TaskStep(k)
  \/ \E e \in Entries : Updating(e)
  \/ \E pl \in Players, t \in Types, n \in Versions : Change(pl, t, n)
  \/ StartCleanup \/ Stop
  \/ \E c \in {"cleanup", "stop"} : CloserStep(c)

Spec == Init /\ [][Next]_vars

(* Goroutines are scheduled and calls to a backend end, if only by their     *)
(* timeout. A mutex is handed to the one that has waited longest.            *)
Fairness ==
  /\ \A p \in Callers : WF_vars(CallerStep(p)) /\ SF_vars(Locking(p))
  /\ \A p \in Callers, v \in Providers : WF_vars(GoStep(p, v))
  /\ WF_vars(\E k \in tasks : TaskStep(k))
  /\ \A e \in Entries : WF_vars(Updating(e))
  /\ \A c \in {"cleanup", "stop"} : WF_vars(CloserStep(c))

FairSpec == Spec /\ Fairness

-----------------------------------------------------------------------------
(* Properties.                                                               *)

Statuses == {"pending", "ready", "error", "closing"}

(* Type invariant of the fields of every entry and of the callers.           *)
TypeOK ==
  /\ now \in Start .. MaxTime /\ changes \in 0 .. MaxChanges /\ cancelled \in BOOLEAN
  /\ entryOf \in [Players -> Entries \cup {NoEntry}]
  /\ truth \in [Players -> Data]
  /\ \A e \in Entries :
       /\ ent[e].player \in Players \cup {NoPlayer} /\ ent[e].status \in Statuses
       /\ ent[e].mu \in Callers \cup {NoCaller} /\ ent[e].data \in Data
       /\ {ent[e].accessed, ent[e].fetched, ent[e].errorAt} \subseteq {0} \cup Start .. MaxTime
       /\ ent[e].listed \in 0 .. ent[e].live /\ ent[e].closes \in Nat
       /\ Len(ent[e].queue) <= ChannelSize
       /\ ent[e].proc \in {"none", "worker", "inline", "ended"}
  /\ \A p \in Callers :
       job[p].pc \in {"idle", "entry", "processing", "status", "retry", "lock", "fetch", "check",
                      "lockAll", "batch", "apply", "settle", "subscribing"}

(* Once an entry is ready nothing but its closing changes that: two callers  *)
(* that found it pending do not both fetch it, so a failure of the second    *)
(* cannot undo the success of the first.                                     *)
ReadyStays ==
  [][\A e \in Entries : ent[e].status = "ready" => ent'[e].status \in {"ready", "closing"}]_vars

(* No update is overwritten by data that was fetched before it, as long as   *)
(* one provider serves a component and answers with it or with an error.     *)
NeverOlder ==
  [][\A e \in Entries, t \in Types :
       ent[e].data[t] # NoData /\ ent'[e].data[t] # NoData => ent'[e].data[t] >= ent[e].data[t]]_vars

(* While only cleanup closes entries, a channel is closed once (a second     *)
(* close would panic), even when a fetch brings a closed entry back to ready.*)
ClosedOnce == ~cancelled => \A e \in Entries : ent[e].closes <= 1

(* All lists given to resolveMany name their players in one order, each once. *)
InOneOrder ==
  \E rank \in [Players -> 1 .. Cardinality(Players)] :
     \A p \in Callers : \A ids \in Lists[p] : \A i, j \in DOMAIN ids :
       i < j => rank[ids[i]] < rank[ids[j]]

(* While the lists given to resolveMany share one order, every call of it and *)
(* of resolve returns, whatever locks the calls wait for; only a caller that  *)
(* found the semaphore full is left with processUpdates of its new entry.     *)
EveryCallReturns ==
  InOneOrder =>
    \A p \in Callers : job[p].pc # "idle" ~> job[p].pc \in {"idle", "processing"}

(* The goroutine of an entry whose channel was closed ends, so that its      *)
(* worker is free again.                                                     *)
EveryProcessorEnds ==
  \A e \in Entries : ent[e].closes > 0 /\ Processing(e) ~> ent[e].proc = "ended"

-----------------------------------------------------------------------------
(* What the comments promise and the code does not keep.                     *)

(* resolveMany "resolves multiple player IDs": its batch gets its locks. Two *)
(* lists that name the same players in opposite orders refute it.            *)
BatchesReturn ==
  \A p \in Callers : job[p].pc = "lockAll" ~> job[p].pc = "idle"

=============================================================================
