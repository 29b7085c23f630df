------------------------------ MODULE Registry -------------------------------
(****************************************************************************)
(* componentRegistry.register (component.go): component types get IDs of    *)
(* eight bits on first use, from any goroutine, without a lock around it.   *)
(* The counter is wider than an ID and is cut to its width before it is     *)
(* compared with the limit.                                                 *)
(****************************************************************************)
EXTENDS Integers, FiniteSets

CONSTANTS
  CompTypes,   \* Go types of components
  Goroutines,
  IdWidth,     \* 8: the bits of a ComponentID
  MaxAsked,    \* bound on the calls that take a number
  NoId, NoType

ASSUME WidthAssumption == IdWidth \in Nat /\ 2 ^ IdWidth \in Nat \ {0}
ASSUME AskedAssumption == MaxAsked \in Nat /\ NoId \notin Int

MaxComponents == 2 ^ IdWidth - 1
ComponentID   == 0 .. 2 ^ IdWidth - 1

VARIABLES
  typeIds,  \* registry.types
  nextID,   \* registry.nextID
  typesArr, \* registry.typesArr (names has the same fate)
  where,    \* a goroutine: where it is in register
  asking,   \* the type it registers
  newID     \* the ID it has drawn

regVars == <<typeIds, nextID, typesArr, where, asking, newID>>

RegInit ==
  /\ typeIds = [t \in CompTypes |-> NoId] /\ nextID = 0
  /\ typesArr = [i \in 0 .. MaxComponents - 1 |-> NoType]
  /\ where = [g \in Goroutines |-> "idle"]
  /\ asking = [g \in Goroutines |-> NoType]
  /\ newID = [g \in Goroutines |-> NoId]

-----------------------------------------------------------------------------
RegGoto(g, l) == where' = [where EXCEPT ![g] = l]

(* The fast path finds the type, or the slow path is taken.                  *)
Register(g, t) ==
  /\ where[g] = "idle"
  /\ asking' = [asking EXCEPT ![g] = t]
  /\ RegGoto(g, IF typeIds[t] = NoId THEN "draw" ELSE "idle")
  /\ UNCHANGED <<typeIds, nextID, typesArr, newID>>

Truncated(n) == n % 2 ^ IdWidth

(* The next number; the limit itself panics, and what wraps around does not. *)
DrawId(g) ==
  /\ where[g] = "draw" /\ nextID < MaxAsked
  /\ nextID' = nextID + 1
  /\ newID' = [newID EXCEPT ![g] = Truncated(nextID)]
  /\ RegGoto(g, IF newID'[g] >= MaxComponents THEN "panicked" ELSE "store")
  /\ UNCHANGED <<typeIds, typesArr, asking>>

First(t) == typeIds[t] = NoId

(* Mutant: the loser gives its number back.                                  *)
LostGivenBack(n) == n - 1

Lost(n) == n

(* LoadOrStore: the loser's number is lost.                                  *)
LoadOrStore(g) ==
  LET t == asking[g] IN
  /\ where[g] = "store"
  /\ IF First(t)
     THEN typeIds' = [typeIds EXCEPT ![t] = newID[g]] /\ RegGoto(g, "name") /\ UNCHANGED nextID
     ELSE nextID' = Lost(nextID) /\ RegGoto(g, "idle") /\ UNCHANGED typeIds
  /\ UNCHANGED <<typesArr, asking, newID>>

WriteName(g) ==
  /\ where[g] = "name"
  /\ typesArr' = [typesArr EXCEPT ![newID[g]] = asking[g]]
  /\ RegGoto(g, "idle")
  /\ UNCHANGED <<typeIds, nextID, asking, newID>>

RegNext ==
  \E g \in Goroutines :
    (\E t \in CompTypes : Register(g, t)) \/ DrawId(g) \/ LoadOrStore(g) \/ WriteName(g)

RegSpec == RegInit /\ [][RegNext]_regVars

-----------------------------------------------------------------------------
(* Properties.                                                               *)

(* Until the limit was hit, no two types share an ID, and the name of an ID  *)
(* is that of its type as soon as the goroutine that stored it is done.      *)
IdsApart ==
  nextID <= MaxComponents =>
    \A t \in CompTypes : typeIds[t] # NoId =>
      /\ \A u \in CompTypes \ {t} : typeIds[u] # typeIds[t]
      /\ \/ typesArr[typeIds[t]] = t
         \/ \E g \in Goroutines : where[g] = "name" /\ asking[g] = t /\ newID[g] = typeIds[t]

(* Slots and masks of the sessions are indexed by IDs: no type shares one    *)
(* with another, whoever registers what at the same time, and a type keeps   *)
(* the one that was stored for it first.                                     *)
IdsSound ==
  [][IdsApart' /\ \A t \in CompTypes : typeIds[t] # NoId => typeIds'[t] = typeIds[t]]_regVars

=============================================================================
