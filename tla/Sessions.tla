------------------------------ MODULE Sessions -------------------------------
(****************************************************************************)
(* Sessions and the manager's indexes of them: NewSession, SpawnFake and    *)
(* SpawnEntity, addSession, MoveSession as HandleChangeWorld calls it,      *)
(* close and removeSession, the clearing of relations, and Shutdown.        *)
(*                                                                          *)
(* Each index has a lock of its own, so that registering and unregistering  *)
(* a session are several steps. A player's joining, its transfers and its   *)
(* quitting happen in transactions of the world it is in, hence one after   *)
(* the other; only Shutdown closes sessions from outside. Tasks and         *)
(* components of a closing session are in Tasks and Components.             *)
(****************************************************************************)
EXTENDS Naturals, Sequences

CONSTANTS
  Sessions,   \* session objects; each has an entity handle of its own
  Worlds,
  Indexes,    \* the indexes by key: "uuid", "name", "xuid", "fake"
  Keys,
  KeyOf,      \* the key of a session in an index, or NoKey
  Required,   \* per provider, in order: whether it is required
  SetHolders, \* sessions with a RelationSet in their component; others have a Relation
  Overlaps,   \* bound: whether two sessions with a common key may be live
  Shutdowns,  \* bound: whether Shutdown is called
  NoSession, NoKey, NoWorld

ASSUME IndexAssumption == Indexes = {"uuid", "name", "xuid", "fake"}
ASSUME KeyAssumption   == NoKey \notin Keys /\ KeyOf \in [Indexes -> [Sessions -> Keys \cup {NoKey}]]
ASSUME RequiredAssumption == Required \in Seq(BOOLEAN)
ASSUME NoneAssumption  == NoSession \notin Sessions /\ NoWorld \notin Worlds
ASSUME BoundAssumption == {Overlaps, Shutdowns} \subseteq BOOLEAN

VARIABLES
  at,         \* external: the world a player is in
  byHandle,   \* Manager.sessions
  byKey,      \* sessionsByUUID, sessionsByName, sessionsByXUID, sessionsByFakeID
  byWorld,    \* sessionsByWorld
  cache,      \* Session.worldCache
  closed,     \* sessions whose closed flag is set
  jpc, nth,   \* joining: where it is, the provider it is at
  subs,       \* live provider subscriptions of a session
  mpc, dest,  \* HandleChangeWorld: whether it is between its two steps
  cpc, todo,  \* close: where it is, the sessions whose relations it clears
  rel,        \* the targets of a session's relation: one at most, or those of the set
  late,       \* those of them that were closed when they were given (history)
  quit,       \* external: players that have quit
  shut, left, \* Shutdown: where it is, the sessions it has still to close,
  current     \* and the one it is closing

indexVars == <<byHandle, byKey, byWorld>>
joinVars  == <<jpc, nth, subs>>
moveVars  == <<at, mpc, dest>>
closeVars == <<cpc, todo>>
relVars   == <<rel, late>>
downVars  == <<shut, left, current>>
vars == <<indexVars, cache, closed, joinVars, moveVars, closeVars, relVars, quit, downVars>>

JoinSteps  == {"new", "init", "cache", "handle", "uuid", "name", "xuid", "world", "fake", "open",
               "failed"}
CloseSteps == {"live", "subs", "clear", "handle", "uuid", "name", "xuid", "world", "fake",
               "relations", "clearing", "done"}

TypeOK ==
  /\ at \in [Sessions -> Worlds \cup {NoWorld}] /\ cache \in [Sessions -> Worlds \cup {NoWorld}]
  /\ byHandle \in SUBSET Sessions /\ byWorld \in [Worlds -> SUBSET Sessions]
  /\ byKey \in [Indexes -> [Keys -> Sessions \cup {NoSession}]]
  /\ closed \in SUBSET Sessions /\ quit \in SUBSET Sessions
  /\ jpc \in [Sessions -> JoinSteps] /\ nth \in [Sessions -> Nat]
  /\ subs \in [Sessions -> SUBSET Nat]
  /\ mpc \in [Sessions -> BOOLEAN] /\ dest \in [Sessions -> Worlds \cup {NoWorld}]
  /\ cpc \in [Sessions -> CloseSteps] /\ todo \in [Sessions -> SUBSET Sessions]
  /\ rel \in [Sessions -> SUBSET Sessions] /\ late \in [Sessions -> SUBSET Sessions]
  /\ shut \in {"up", "closing", "down"} /\ left \in SUBSET Sessions
  /\ current \in Sessions \cup {NoSession}

Init ==
  /\ at = [s \in Sessions |-> NoWorld] /\ cache = at /\ dest = at
  /\ byHandle = {} /\ byWorld = [w \in Worlds |-> {}]
  /\ byKey = [i \in Indexes |-> [k \in Keys |-> NoSession]]
  /\ closed = {} /\ quit = {}
  /\ jpc = [s \in Sessions |-> "new"] /\ nth = [s \in Sessions |-> 1]
  /\ subs = [s \in Sessions |-> {}]
  /\ mpc = [s \in Sessions |-> FALSE]
  /\ cpc = [s \in Sessions |-> "live"] /\ todo = [s \in Sessions |-> {}]
  /\ rel = [s \in Sessions |-> {}] /\ late = rel
  /\ shut = "up" /\ left = {} /\ current = NoSession

-----------------------------------------------------------------------------
(* Joining.                                                                  *)

Key(i, s) == KeyOf[i][s]

Akin(s, t) == \E i \in Indexes : Key(i, s) # NoKey /\ Key(i, s) = Key(i, t)

Gone(s) == jpc[s] \in {"new", "failed"} \/ (cpc[s] = "done" /\ s \in quit)

JoinTo(s, l) == jpc' = [jpc EXCEPT ![s] = l]

(* NewSession, SpawnFake or SpawnEntity in a world; only a session with an   *)
(* XUID asks the providers. Shutdown does not keep anybody from joining.     *)
Join(s, w) ==
  /\ jpc[s] = "new"
  /\ (Overlaps \/ \A t \in Sessions \ {s} : Akin(s, t) => Gone(t))
  /\ at' = [at EXCEPT ![s] = w]
  /\ JoinTo(s, IF Key("xuid", s) = NoKey \/ Required = <<>> THEN "cache" ELSE "init")
  /\ UNCHANGED <<indexVars, cache, closed, nth, subs, mpc, dest, closeVars, relVars, quit, downVars>>

(* initSessionFromProviders, one provider: it gives a subscription or        *)
(* nothing, or it fails, which ends the joining if it is required. The       *)
(* subscriptions made so far stay.                                           *)
AskProvider(s) ==
  LET n == nth[s] IN
  /\ jpc[s] = "init"
  /\ \/ /\ subs' \in {subs, [subs EXCEPT ![s] = @ \cup {n}]}
        /\ nth' = [nth EXCEPT ![s] = n + 1]
        /\ JoinTo(s, IF n + 1 \in DOMAIN Required THEN "init" ELSE "cache")
     \/ /\ Required[n] /\ JoinTo(s, "failed") /\ UNCHANGED <<nth, subs>>
  /\ UNCHANGED <<indexVars, cache, closed, moveVars, closeVars, relVars, quit, downVars>>

FillCache(s) ==
  /\ jpc[s] = "cache"
  /\ cache' = [cache EXCEPT ![s] = at[s]] /\ JoinTo(s, "handle")
  /\ UNCHANGED <<indexVars, closed, nth, subs, moveVars, closeVars, relVars, quit, downVars>>

(* addSession, one index after the other; SpawnFake adds the fake ID last.   *)
AddToHandles(s) ==
  /\ jpc[s] = "handle"
  /\ byHandle' = byHandle \cup {s} /\ JoinTo(s, "uuid")
  /\ UNCHANGED <<byKey, byWorld, cache, closed, nth, subs, moveVars, closeVars, relVars, quit,
                 downVars>>

(* Mutant: the XUID is forgotten.                                            *)
NextIndexSkips(i) == IF i = "name" THEN "world" ELSE IF i = "uuid" THEN "name" ELSE "open"

NextIndex(i) == CASE i = "uuid" -> "name" [] i = "name" -> "xuid" [] i = "xuid" -> "world"
                  [] i = "fake" -> "open"

AddToIndex(s, i) ==
  /\ jpc[s] = i
  /\ byKey' = IF Key(i, s) = NoKey THEN byKey ELSE [byKey EXCEPT ![i][Key(i, s)] = s]
  /\ JoinTo(s, NextIndex(i))
  /\ UNCHANGED <<byHandle, byWorld, cache, closed, nth, subs, moveVars, closeVars, relVars, quit,
                 downVars>>

AddToWorld(s) ==
  /\ jpc[s] = "world"
  /\ byWorld' = [byWorld EXCEPT ![cache[s]] = @ \cup {s}] /\ JoinTo(s, "fake")
  /\ UNCHANGED <<byHandle, byKey, cache, closed, nth, subs, moveVars, closeVars, relVars, quit,
                 downVars>>

-----------------------------------------------------------------------------
(* A transfer: HandleChangeWorld fills the cache, then MoveSession updates   *)
(* the index, both whether or not the session is closed.                     *)

Online(s) == jpc[s] = "open" /\ s \notin quit

ChangeWorld(s, w) ==
  /\ Online(s) /\ ~mpc[s] /\ w # at[s]
  /\ cache' = [cache EXCEPT ![s] = w]
  /\ mpc' = [mpc EXCEPT ![s] = TRUE] /\ dest' = [dest EXCEPT ![s] = w]
  /\ UNCHANGED <<at, indexVars, closed, joinVars, closeVars, relVars, quit, downVars>>

(* Mutant: the session stays in the world it leaves.                         *)
LeftKept(s, w) == byWorld[w]

Left(s, w) == byWorld[w] \ {s}

MoveSession(s) ==
  /\ mpc[s] /\ mpc' = [mpc EXCEPT ![s] = FALSE]
  /\ byWorld' = [byWorld EXCEPT ![at[s]] = Left(s, at[s]), ![dest[s]] = @ \cup {s}]
  /\ at' = [at EXCEPT ![s] = dest[s]]
  /\ UNCHANGED <<byHandle, byKey, cache, closed, joinVars, dest, closeVars, relVars, quit, downVars>>

-----------------------------------------------------------------------------
(* Closing.                                                                  *)

CloseTo(s, l) == cpc' = [cpc EXCEPT ![s] = l]

(* The swap at the head of close: a second close returns.                    *)
Swap(s) ==
  /\ closed' = closed \cup {s}
  /\ IF s \in closed THEN UNCHANGED cpc ELSE CloseTo(s, "subs")

HandleQuit(s) ==
  /\ Online(s) /\ ~mpc[s]
  /\ quit' = quit \cup {s} /\ Swap(s)
  /\ UNCHANGED <<indexVars, cache, joinVars, moveVars, todo, relVars, downVars>>

CloseSubs(s) ==
  /\ cpc[s] = "subs" /\ subs' = [subs EXCEPT ![s] = {}] /\ CloseTo(s, "clear")
  /\ UNCHANGED <<indexVars, cache, closed, jpc, nth, moveVars, todo, relVars, quit, downVars>>

(* The session's relations lose these targets.                               *)
Forget(s, ts) == rel' = [rel EXCEPT ![s] = @ \ ts] /\ late' = [late EXCEPT ![s] = @ \ ts]

(* The components are dropped, relations among them; the disconnect that     *)
(* follows does nothing, since Exec refuses a closed session.                *)
ClearComponents(s) ==
  /\ cpc[s] = "clear" /\ Forget(s, Sessions) /\ CloseTo(s, "handle")
  /\ UNCHANGED <<indexVars, cache, closed, joinVars, moveVars, todo, quit, downVars>>

(* removeSession.                                                            *)
RemoveHandle(s) ==
  /\ cpc[s] = "handle" /\ byHandle' = byHandle \ {s} /\ CloseTo(s, "uuid")
  /\ UNCHANGED <<byKey, byWorld, cache, closed, joinVars, moveVars, todo, relVars, quit, downVars>>

(* Mutant: the fake ID stays.                                                *)
EmptiedNot(i, s) == IF i = "fake" THEN byKey[i] ELSE [byKey[i] EXCEPT ![Key(i, s)] = NoSession]

(* The entry of the key goes, whoever is in it.                              *)
Emptied(i, s) == [byKey[i] EXCEPT ![Key(i, s)] = NoSession]

RemoveFromIndex(s, i) ==
  /\ cpc[s] = i
  /\ byKey' = IF Key(i, s) = NoKey THEN byKey ELSE [byKey EXCEPT ![i] = Emptied(i, s)]
  /\ CloseTo(s, IF i = "fake" THEN "relations" ELSE NextIndex(i))
  /\ UNCHANGED <<byHandle, byWorld, cache, closed, joinVars, moveVars, todo, relVars, quit, downVars>>

RemoveFromWorld(s) ==
  LET w == cache[s] IN
  /\ cpc[s] = "world"
  /\ byWorld' = IF w = NoWorld THEN byWorld ELSE [byWorld EXCEPT ![w] = @ \ {s}]
  /\ CloseTo(s, "fake")
  /\ UNCHANGED <<byHandle, byKey, cache, closed, joinVars, moveVars, todo, relVars, quit, downVars>>

(* Mutant: the relations of sessions that are closing are passed over, as    *)
(* AllSessions would.                                                        *)
OpenHolders == byHandle \ closed

Holders == byHandle

(* clearAllRelationsTo: a snapshot of the sessions, then one by one.         *)
SnapshotHolders(s) ==
  /\ cpc[s] = "relations" /\ todo' = [todo EXCEPT ![s] = Holders] /\ CloseTo(s, "clearing")
  /\ UNCHANGED <<indexVars, cache, closed, joinVars, moveVars, relVars, quit, downVars>>

ClearRelation(s, t) ==
  /\ cpc[s] = "clearing" /\ t \in todo[s]
  /\ todo' = [todo EXCEPT ![s] = @ \ {t}]
  /\ Forget(t, {s})
  /\ UNCHANGED <<indexVars, cache, closed, joinVars, moveVars, cpc, quit, downVars>>

CloseDone(s) ==
  /\ cpc[s] = "clearing" /\ todo[s] = {} /\ CloseTo(s, "done")
  /\ UNCHANGED <<indexVars, cache, closed, joinVars, moveVars, todo, relVars, quit, downVars>>

-----------------------------------------------------------------------------
(* Relations and relation sets, used by systems that have the component.     *)

(* Relation.Set or RelationSet.Add, of any session one knows of. The         *)
(* component is there until close clears it.                                 *)
SetRelation(s, t) ==
  /\ jpc[s] = "open" /\ cpc[s] \in {"live", "subs", "clear"}
  /\ t \in byHandle \/ jpc[t] = "open"
  /\ rel' = [rel EXCEPT ![s] = IF s \in SetHolders THEN @ \cup {t} ELSE {t}]
  /\ late' = [late EXCEPT ![s] = ((@ \cap rel'[s]) \ {t}) \cup ({t} \cap closed)]
  /\ UNCHANGED <<indexVars, cache, closed, joinVars, moveVars, closeVars, quit, downVars>>

(* Relation.Clear, RelationSet.Remove.                                       *)
DropRelation(s, t) ==
  /\ t \in rel[s] /\ Forget(s, {t})
  /\ UNCHANGED <<indexVars, cache, closed, joinVars, moveVars, closeVars, quit, downVars>>

(* Relation.Get, RelationSet.All and Resolve drop closed targets.            *)
GetRelation(s) ==
  /\ rel[s] \cap closed # {} /\ Forget(s, closed)
  /\ UNCHANGED <<indexVars, cache, closed, joinVars, moveVars, closeVars, quit, downVars>>

-----------------------------------------------------------------------------
(* Shutdown, after the scheduler and the caches have stopped.                *)

Shutdown ==
  /\ Shutdowns /\ shut = "up"
  /\ shut' = "closing" /\ left' = byHandle
  /\ UNCHANGED <<indexVars, cache, closed, joinVars, moveVars, closeVars, relVars, quit, current>>

Returned == current # NoSession => cpc[current] = "done"

(* The next close begins when the last has returned, at once when the        *)
(* session was closed already.                                               *)
ShutdownClose(s) ==
  /\ shut = "closing" /\ s \in left /\ Returned
  /\ left' = left \ {s} /\ current' = IF s \in closed THEN NoSession ELSE s
  /\ Swap(s)
  /\ UNCHANGED <<indexVars, cache, joinVars, moveVars, todo, relVars, quit, shut>>

ShutdownDone ==
  /\ shut = "closing" /\ left = {} /\ Returned /\ shut' = "down"
  /\ UNCHANGED <<indexVars, cache, closed, joinVars, moveVars, closeVars, relVars, quit, left,
                 current>>

-----------------------------------------------------------------------------
Joining(s) ==
  \/ AskProvider(s) \/ FillCache(s) \/ AddToHandles(s) \/ AddToWorld(s)
  \/ \E i \in Indexes : AddToIndex(s, i)

Closing(s) ==
  \/ CloseSubs(s) \/ ClearComponents(s) \/ RemoveHandle(s) \/ RemoveFromWorld(s)
  \/ (\E i \in Indexes : RemoveFromIndex(s, i))
  \/ SnapshotHolders(s) \/ (\E t \in Sessions : ClearRelation(s, t)) \/ CloseDone(s)

Next ==
  \/ \E s \in Sessions :
       \/ (\E w \in Worlds : Join(s, w) \/ ChangeWorld(s, w))
       \/ Joining(s) \/ MoveSession(s) \/ HandleQuit(s) \/ Closing(s)
       \/ (\E t \in Sessions : SetRelation(s, t) \/ DropRelation(s, t))
       \/ GetRelation(s) \/ ShutdownClose(s)
  \/ Shutdown \/ ShutdownDone

Spec == Init /\ [][Next]_vars

-----------------------------------------------------------------------------
(* Properties.                                                               *)

(* A session that has joined and is neither moving nor closing.              *)
Settled(s) == jpc[s] = "open" /\ cpc[s] = "live" /\ ~mpc[s]

(* However often a player has changed worlds, its session is listed in the   *)
(* world it is in and in no other, so that the loops and tasks of a tick     *)
(* reach it once. removeSession and the scheduler rely on the cached world.  *)
(* Shutdown closes sessions from outside their worlds, and may overtake a    *)
(* join or a transfer; this and the next two hold until it is called.        *)
OneWorld ==
  shut = "up" => \A s \in Sessions : Settled(s) =>
    /\ cache[s] = at[s]
    /\ {w \in Worlds : s \in byWorld[w]} = {at[s]}

(* A settled session is found under each of its keys, also when an earlier   *)
(* session with the same keys has been registered and removed before: of     *)
(* each entry removeSession deletes whoever is in it.                        *)
FoundByKey ==
  shut = "up" => \A s \in Sessions, i \in Indexes :
    Settled(s) /\ Key(i, s) # NoKey => byKey[i][Key(i, s)] = s

(* After removeSession, and after a join that a required provider has made   *)
(* fail, no index leads to the session, whatever transfers and registrations *)
(* went before.                                                              *)
Unregistered ==
  shut = "up" => \A s \in Sessions :
    jpc[s] = "failed" \/ (cpc[s] = "done" /\ jpc[s] = "open" /\ ~mpc[s]) =>
    /\ s \notin byHandle /\ \A w \in Worlds : s \notin byWorld[w]
    /\ \A i \in Indexes, k \in Keys : byKey[i][k] # s

(* A relation to a session that is gone was set when that was closed         *)
(* already: every other one has been cleared, even while its holder closes   *)
(* too.                                                                      *)
RelationsCleared ==
  \A s, t \in Sessions : cpc[t] = "done" /\ t \in rel[s] => t \in late[s]

=============================================================================
