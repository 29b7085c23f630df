---------------------------- MODULE Sessions_proofs ----------------------------
(****************************************************************************)
(* Proofs about Sessions for any sessions, worlds, keys and providers: the  *)
(* indexes agree with the sessions until Shutdown is called, and a relation *)
(* leads to a session that is gone only where it was set too late.          *)
(****************************************************************************)
EXTENDS Sessions, TLAPS

(* The steps of removeSession after an index has been cleared.               *)
AfterHandle == {"uuid", "name", "xuid", "world", "fake", "relations", "clearing", "done"}
AfterWorld  == {"fake", "relations", "clearing", "done"}

AfterRemoval(i) ==
  IF i = "uuid" THEN AfterHandle \ {"uuid"}
  ELSE IF i = "name" THEN AfterHandle \ {"uuid", "name"}
  ELSE IF i = "xuid" THEN AfterHandle \ {"uuid", "name", "xuid"}
  ELSE AfterWorld \ {"fake"}

(* The steps of addSession after an index has been filled.                   *)
Handled == {"uuid", "name", "xuid", "world", "fake", "open"}

Entered(i) ==
  IF i = "uuid" THEN Handled \ {"uuid"}
  ELSE IF i = "name" THEN Handled \ {"uuid", "name"}
  ELSE IF i = "xuid" THEN {"world", "fake", "open"}
  ELSE {"open"}

-----------------------------------------------------------------------------
(* The parts of the invariant.                                               *)

(* Only the swap of the flag begins a close.                                 *)
SwappedOK == \A s \in Sessions : s \in closed <=> cpc[s] # "live"

(* A relation is in a component that close has not cleared, of a session     *)
(* that removeSession has not taken out.                                     *)
HeldOK ==
  \A s \in Sessions :
    /\ rel[s] # {} => jpc[s] = "open" /\ cpc[s] \in {"live", "subs", "clear"}
    /\ jpc[s] \in Handled /\ cpc[s] \notin AfterHandle => s \in byHandle

(* While a session clears the relations to it, what is left is in its        *)
(* snapshot or was set too late.                                             *)
ClearingOK ==
  \A s, t \in Sessions :
    cpc[t] \in {"clearing", "done"} /\ t \in rel[s] =>
      t \in late[s] \/ (cpc[t] = "clearing" /\ s \in todo[t])

(* Until Shutdown a session is closed by its own quitting only, after it has *)
(* joined and between transfers.                                             *)
OwnOK ==
  \A s \in Sessions :
    /\ cpc[s] # "live" => jpc[s] = "open" /\ s \in quit /\ ~mpc[s]
    /\ mpc[s] => jpc[s] = "open"
    /\ s \in byHandle => jpc[s] \in Handled /\ cpc[s] \notin AfterHandle

(* Where a session is listed at each step of its joining and closing.        *)
WorldOK ==
  \A s \in Sessions :
    /\ jpc[s] \notin {"new", "failed"} => at[s] \in Worlds
    /\ jpc[s] \in Handled \cup {"handle"} => cache[s] = (IF mpc[s] THEN dest[s] ELSE at[s])
    /\ mpc[s] => dest[s] \in Worlds /\ dest[s] # at[s]
    /\ \A w \in Worlds : s \in byWorld[w] <=>
         w = at[s] /\ jpc[s] \in {"fake", "open"} /\ cpc[s] \notin AfterWorld

(* An index holds a session under its own key only, from its entry to its    *)
(* removal at the longest.                                                   *)
KeysOK ==
  \A s \in Sessions, i \in Indexes, k \in Keys :
    byKey[i][k] = s =>
      /\ k = Key(i, s) /\ jpc[s] \in Entered(i) /\ cpc[s] \notin AfterRemoval(i)

(* Without overlaps, of two sessions with a common key one is gone; so the   *)
(* other stays in the index.                                                 *)
ApartOK ==
  \A s, t \in Sessions : s # t /\ Akin(s, t) => Gone(s) \/ Gone(t)

EntryOK ==
  \A s \in Sessions, i \in Indexes :
    /\ Key(i, s) # NoKey /\ jpc[s] \in Entered(i) /\ cpc[s] \notin AfterRemoval(i)
    => byKey[i][Key(i, s)] = s

UpOK == shut = "up" => OwnOK /\ WorldOK /\ KeysOK

FoundOK == shut = "up" /\ ~Overlaps => ApartOK /\ EntryOK

IInv == TypeOK /\ SwappedOK /\ HeldOK /\ ClearingOK /\ UpOK /\ FoundOK

-----------------------------------------------------------------------------
LEMMA KeysTyped == \A i \in Indexes, s \in Sessions : Key(i, s) \in Keys \cup {NoKey}
BY KeyAssumption DEF Key

LEMMA StartHolds == Init => IInv
<1> SUFFICES ASSUME Init PROVE IInv
  OBVIOUS
<1>1. TypeOK
  BY DEF Init, TypeOK, JoinSteps, CloseSteps
<1>2. SwappedOK /\ HeldOK /\ ClearingOK
  BY DEF Init, SwappedOK, HeldOK, ClearingOK, Handled
<1>3. OwnOK /\ WorldOK /\ KeysOK /\ EntryOK
  BY NoneAssumption DEF Init, OwnOK, WorldOK, KeysOK, EntryOK, Handled, Entered
<1>4. ApartOK
  BY DEF Init, ApartOK, Gone
<1> QED BY <1>1, <1>2, <1>3, <1>4 DEF IInv, UpOK, FoundOK

-----------------------------------------------------------------------------
LEMMA TypeNext == TypeOK /\ [Next]_vars => TypeOK'
<1> SUFFICES ASSUME TypeOK, [Next]_vars PROVE TypeOK'
  OBVIOUS
<1> USE DEF TypeOK, JoinSteps, CloseSteps, JoinTo, CloseTo,
            indexVars, joinVars, moveVars, closeVars, relVars, downVars
<1>1. ASSUME NEW s \in Sessions, NEW w \in Worlds, Join(s, w) PROVE TypeOK'
  BY <1>1 DEF Join
<1>2. ASSUME NEW s \in Sessions, AskProvider(s) PROVE TypeOK'
  <2>1. subs' \in [Sessions -> SUBSET Nat] /\ nth' \in [Sessions -> Nat]
    <3>1. subs[s] \cup {nth[s]} \in SUBSET Nat
      OBVIOUS
    <3>2. [subs EXCEPT ![s] = subs[s] \cup {nth[s]}] \in [Sessions -> SUBSET Nat]
      BY <3>1
    <3>3. /\ subs' = subs \/ subs' = [subs EXCEPT ![s] = subs[s] \cup {nth[s]}]
          /\ nth' = nth \/ nth' = [nth EXCEPT ![s] = nth[s] + 1]
      BY <1>2 DEF AskProvider
    <3> QED BY <3>2, <3>3
  <2>2. jpc' \in [Sessions -> JoinSteps]
    BY <1>2 DEF AskProvider
  <2> QED BY <1>2, <2>1, <2>2 DEF AskProvider
<1>3. ASSUME NEW s \in Sessions, FillCache(s) PROVE TypeOK'
  BY <1>3 DEF FillCache
<1>4. ASSUME NEW s \in Sessions, AddToHandles(s) PROVE TypeOK'
  BY <1>4 DEF AddToHandles
<1>5. ASSUME NEW s \in Sessions, NEW i \in Indexes, AddToIndex(s, i) PROVE TypeOK'
  <2>1. byKey' \in [Indexes -> [Keys -> Sessions \cup {NoSession}]]
    BY <1>5, KeysTyped DEF AddToIndex
  <2>2. jpc' \in [Sessions -> JoinSteps]
    <3>1. NextIndex(i) \in JoinSteps
      BY IndexAssumption DEF NextIndex
    <3>2. jpc' = [jpc EXCEPT ![s] = NextIndex(i)]
      BY <1>5 DEF AddToIndex
    <3> QED BY <3>1, <3>2
  <2> QED BY <1>5, <2>1, <2>2 DEF AddToIndex
<1>6. ASSUME NEW s \in Sessions, AddToWorld(s) PROVE TypeOK'
  <2>1. byWorld' \in [Worlds -> SUBSET Sessions]
    <3>1. PICK w : byWorld' = [byWorld EXCEPT ![w] = byWorld[w] \cup {s}]
      BY <1>6 DEF AddToWorld
    <3>2. w \in Worlds => byWorld[w] \cup {s} \in SUBSET Sessions
      OBVIOUS
    <3>3. byWorld \in [Worlds -> SUBSET Sessions]
      OBVIOUS
    <3> HIDE DEF TypeOK
    <3> QED BY <3>1, <3>2, <3>3
  <2>2. jpc' \in [Sessions -> JoinSteps]
    BY <1>6 DEF AddToWorld
  <2> QED BY <1>6, <2>1, <2>2 DEF AddToWorld
<1>7. ASSUME NEW s \in Sessions, NEW w \in Worlds, ChangeWorld(s, w) PROVE TypeOK'
  BY <1>7 DEF ChangeWorld, Online
<1>8. ASSUME NEW s \in Sessions, MoveSession(s) PROVE TypeOK'
  <2>1. PICK v, w : /\ byWorld' = [byWorld EXCEPT ![v] = byWorld[v] \ {s}, ![w] = @ \cup {s}]
                    /\ at' = [at EXCEPT ![s] = w] /\ w = dest[s]
    BY <1>8 DEF MoveSession, Left
  <2>2. byWorld' \in [Worlds -> SUBSET Sessions]
    <3>1. PICK one : one = [byWorld EXCEPT ![v] = byWorld[v] \ {s}]
      OBVIOUS
    <3>2. one \in [Worlds -> SUBSET Sessions]
      BY <3>1
    <3>3. byWorld' = [one EXCEPT ![w] = one[w] \cup {s}]
      BY <2>1, <3>1
    <3>4. w \in Worlds => one[w] \cup {s} \in SUBSET Sessions
      BY <3>2
    <3> QED BY <3>2, <3>3, <3>4
  <2>3. at' \in [Sessions -> Worlds \cup {NoWorld}]
    BY <2>1
  <2> QED BY <1>8, <2>2, <2>3 DEF MoveSession
<1>9. ASSUME NEW s \in Sessions, HandleQuit(s) PROVE TypeOK'
  BY <1>9 DEF HandleQuit, Swap, Online
<1>10. ASSUME NEW s \in Sessions, CloseSubs(s) PROVE TypeOK'
  BY <1>10 DEF CloseSubs
<1>11. ASSUME NEW s \in Sessions, ClearComponents(s) PROVE TypeOK'
  BY <1>11 DEF ClearComponents, Forget
<1>12. ASSUME NEW s \in Sessions, RemoveHandle(s) PROVE TypeOK'
  BY <1>12 DEF RemoveHandle
<1>13. ASSUME NEW s \in Sessions, NEW i \in Indexes, RemoveFromIndex(s, i) PROVE TypeOK'
  BY <1>13, KeysTyped, IndexAssumption DEF RemoveFromIndex, NextIndex, Emptied
<1>14. ASSUME NEW s \in Sessions, RemoveFromWorld(s) PROVE TypeOK'
  BY <1>14 DEF RemoveFromWorld
<1>15. ASSUME NEW s \in Sessions, SnapshotHolders(s) PROVE TypeOK'
  BY <1>15 DEF SnapshotHolders, Holders
<1>16. ASSUME NEW s \in Sessions, NEW t \in Sessions, ClearRelation(s, t) PROVE TypeOK'
  BY <1>16 DEF ClearRelation, Forget
<1>17. ASSUME NEW s \in Sessions, CloseDone(s) PROVE TypeOK'
  BY <1>17 DEF CloseDone
<1>18. ASSUME NEW s \in Sessions, NEW t \in Sessions, SetRelation(s, t) PROVE TypeOK'
  BY <1>18 DEF SetRelation
<1>19. ASSUME NEW s \in Sessions, NEW t \in Sessions, DropRelation(s, t) PROVE TypeOK'
  BY <1>19 DEF DropRelation, Forget
<1>20. ASSUME NEW s \in Sessions, GetRelation(s) PROVE TypeOK'
  BY <1>20 DEF GetRelation, Forget
<1>21. ASSUME NEW s \in Sessions, ShutdownClose(s) PROVE TypeOK'
  BY <1>21 DEF ShutdownClose, Swap
<1>22. CASE Shutdown
  BY <1>22 DEF Shutdown
<1>23. CASE ShutdownDone
  BY <1>23 DEF ShutdownDone
<1>24. CASE UNCHANGED vars
  BY <1>24 DEF vars
<1> QED BY <1>1, <1>2, <1>3, <1>4, <1>5, <1>6, <1>7, <1>8, <1>9, <1>10, <1>11, <1>12, <1>13,
         <1>14, <1>15, <1>16, <1>17, <1>18, <1>19, <1>20, <1>21, <1>22, <1>23, <1>24 DEF Next,
         Joining, Closing

LEMMA SwappedNext == TypeOK /\ SwappedOK /\ [Next]_vars => SwappedOK'
<1> SUFFICES ASSUME TypeOK, SwappedOK, [Next]_vars PROVE SwappedOK'
  OBVIOUS
<1> USE DEF TypeOK, SwappedOK, JoinTo, CloseTo,
            indexVars, joinVars, moveVars, closeVars, relVars, downVars
<1>1. ASSUME NEW s \in Sessions, NEW w \in Worlds, Join(s, w) PROVE SwappedOK'
  BY <1>1 DEF Join
<1>2. ASSUME NEW s \in Sessions, AskProvider(s) PROVE SwappedOK'
  BY <1>2 DEF AskProvider
<1>3. ASSUME NEW s \in Sessions, FillCache(s) PROVE SwappedOK'
  BY <1>3 DEF FillCache
<1>4. ASSUME NEW s \in Sessions, AddToHandles(s) PROVE SwappedOK'
  BY <1>4 DEF AddToHandles
<1>5. ASSUME NEW s \in Sessions, NEW i \in Indexes, AddToIndex(s, i) PROVE SwappedOK'
  BY <1>5, IndexAssumption DEF AddToIndex, NextIndex
<1>6. ASSUME NEW s \in Sessions, AddToWorld(s) PROVE SwappedOK'
  BY <1>6 DEF AddToWorld
<1>7. ASSUME NEW s \in Sessions, NEW w \in Worlds, ChangeWorld(s, w) PROVE SwappedOK'
  BY <1>7 DEF ChangeWorld, Online
<1>8. ASSUME NEW s \in Sessions, MoveSession(s) PROVE SwappedOK'
  BY <1>8 DEF MoveSession, Left
<1>9. ASSUME NEW s \in Sessions, HandleQuit(s) PROVE SwappedOK'
  BY <1>9 DEF HandleQuit, Swap, Online
<1>10. ASSUME NEW s \in Sessions, CloseSubs(s) PROVE SwappedOK'
  BY <1>10 DEF CloseSubs
<1>11. ASSUME NEW s \in Sessions, ClearComponents(s) PROVE SwappedOK'
  BY <1>11 DEF ClearComponents, Forget
<1>12. ASSUME NEW s \in Sessions, RemoveHandle(s) PROVE SwappedOK'
  BY <1>12 DEF RemoveHandle
<1>13. ASSUME NEW s \in Sessions, NEW i \in Indexes, RemoveFromIndex(s, i) PROVE SwappedOK'
  BY <1>13, IndexAssumption DEF RemoveFromIndex, NextIndex, Emptied
<1>14. ASSUME NEW s \in Sessions, RemoveFromWorld(s) PROVE SwappedOK'
  BY <1>14 DEF RemoveFromWorld
<1>15. ASSUME NEW s \in Sessions, SnapshotHolders(s) PROVE SwappedOK'
  BY <1>15 DEF SnapshotHolders, Holders
<1>16. ASSUME NEW s \in Sessions, NEW t \in Sessions, ClearRelation(s, t) PROVE SwappedOK'
  BY <1>16 DEF ClearRelation, Forget
<1>17. ASSUME NEW s \in Sessions, CloseDone(s) PROVE SwappedOK'
  BY <1>17 DEF CloseDone
<1>18. ASSUME NEW s \in Sessions, NEW t \in Sessions, SetRelation(s, t) PROVE SwappedOK'
  BY <1>18 DEF SetRelation
<1>19. ASSUME NEW s \in Sessions, NEW t \in Sessions, DropRelation(s, t) PROVE SwappedOK'
  BY <1>19 DEF DropRelation, Forget
<1>20. ASSUME NEW s \in Sessions, GetRelation(s) PROVE SwappedOK'
  BY <1>20 DEF GetRelation, Forget
<1>21. ASSUME NEW s \in Sessions, ShutdownClose(s) PROVE SwappedOK'
  BY <1>21 DEF ShutdownClose, Swap
<1>22. CASE Shutdown
  BY <1>22 DEF Shutdown
<1>23. CASE ShutdownDone
  BY <1>23 DEF ShutdownDone
<1>24. CASE UNCHANGED vars
  BY <1>24 DEF vars
<1> QED BY <1>1, <1>2, <1>3, <1>4, <1>5, <1>6, <1>7, <1>8, <1>9, <1>10, <1>11, <1>12, <1>13,
         <1>14, <1>15, <1>16, <1>17, <1>18, <1>19, <1>20, <1>21, <1>22, <1>23, <1>24 DEF Next,
         Joining, Closing

LEMMA HeldNext == TypeOK /\ SwappedOK /\ HeldOK /\ [Next]_vars => HeldOK'
<1> SUFFICES ASSUME TypeOK, SwappedOK, HeldOK, [Next]_vars PROVE HeldOK'
  OBVIOUS
<1> USE DEF TypeOK, SwappedOK, HeldOK, Handled, AfterHandle, JoinTo, CloseTo,
            indexVars, joinVars, moveVars, closeVars, relVars, downVars
<1>1. ASSUME NEW s \in Sessions, NEW w \in Worlds, Join(s, w) PROVE HeldOK'
  BY <1>1 DEF Join
<1>2. ASSUME NEW s \in Sessions, AskProvider(s) PROVE HeldOK'
  BY <1>2 DEF AskProvider
<1>3. ASSUME NEW s \in Sessions, FillCache(s) PROVE HeldOK'
  BY <1>3 DEF FillCache
<1>4. ASSUME NEW s \in Sessions, AddToHandles(s) PROVE HeldOK'
  BY <1>4 DEF AddToHandles
<1>5. ASSUME NEW s \in Sessions, NEW i \in Indexes, AddToIndex(s, i) PROVE HeldOK'
  BY <1>5, IndexAssumption DEF AddToIndex, NextIndex
<1>6. ASSUME NEW s \in Sessions, AddToWorld(s) PROVE HeldOK'
  BY <1>6 DEF AddToWorld
<1>7. ASSUME NEW s \in Sessions, NEW w \in Worlds, ChangeWorld(s, w) PROVE HeldOK'
  BY <1>7 DEF ChangeWorld, Online
<1>8. ASSUME NEW s \in Sessions, MoveSession(s) PROVE HeldOK'
  BY <1>8 DEF MoveSession, Left
<1>9. ASSUME NEW s \in Sessions, HandleQuit(s) PROVE HeldOK'
  BY <1>9 DEF HandleQuit, Swap, Online
<1>10. ASSUME NEW s \in Sessions, CloseSubs(s) PROVE HeldOK'
  BY <1>10 DEF CloseSubs
<1>11. ASSUME NEW s \in Sessions, ClearComponents(s) PROVE HeldOK'
  BY <1>11 DEF ClearComponents, Forget
<1>12. ASSUME NEW s \in Sessions, RemoveHandle(s) PROVE HeldOK'
  BY <1>12 DEF RemoveHandle
<1>13. ASSUME NEW s \in Sessions, NEW i \in Indexes, RemoveFromIndex(s, i) PROVE HeldOK'
  BY <1>13, IndexAssumption DEF RemoveFromIndex, NextIndex, Emptied
<1>14. ASSUME NEW s \in Sessions, RemoveFromWorld(s) PROVE HeldOK'
  BY <1>14 DEF RemoveFromWorld
<1>15. ASSUME NEW s \in Sessions, SnapshotHolders(s) PROVE HeldOK'
  BY <1>15 DEF SnapshotHolders, Holders
<1>16. ASSUME NEW s \in Sessions, NEW t \in Sessions, ClearRelation(s, t) PROVE HeldOK'
  BY <1>16 DEF ClearRelation, Forget
<1>17. ASSUME NEW s \in Sessions, CloseDone(s) PROVE HeldOK'
  BY <1>17 DEF CloseDone
<1>18. ASSUME NEW s \in Sessions, NEW t \in Sessions, SetRelation(s, t) PROVE HeldOK'
  BY <1>18 DEF SetRelation
<1>19. ASSUME NEW s \in Sessions, NEW t \in Sessions, DropRelation(s, t) PROVE HeldOK'
  BY <1>19 DEF DropRelation, Forget
<1>20. ASSUME NEW s \in Sessions, GetRelation(s) PROVE HeldOK'
  BY <1>20 DEF GetRelation, Forget
<1>21. ASSUME NEW s \in Sessions, ShutdownClose(s) PROVE HeldOK'
  BY <1>21 DEF ShutdownClose, Swap
<1>22. CASE Shutdown
  BY <1>22 DEF Shutdown
<1>23. CASE ShutdownDone
  BY <1>23 DEF ShutdownDone
<1>24. CASE UNCHANGED vars
  BY <1>24 DEF vars
<1> QED BY <1>1, <1>2, <1>3, <1>4, <1>5, <1>6, <1>7, <1>8, <1>9, <1>10, <1>11, <1>12, <1>13,
         <1>14, <1>15, <1>16, <1>17, <1>18, <1>19, <1>20, <1>21, <1>22, <1>23, <1>24 DEF Next,
         Joining, Closing

LEMMA ClearingNext ==
  TypeOK /\ SwappedOK /\ HeldOK /\ ClearingOK /\ [Next]_vars => ClearingOK'
<1> SUFFICES ASSUME TypeOK, SwappedOK, HeldOK, ClearingOK, [Next]_vars PROVE ClearingOK'
  OBVIOUS
<1> USE DEF TypeOK, SwappedOK, HeldOK, ClearingOK, Handled, AfterHandle, JoinTo, CloseTo,
            indexVars, joinVars, moveVars, closeVars, relVars, downVars
<1>1. ASSUME NEW s \in Sessions, NEW w \in Worlds, Join(s, w) PROVE ClearingOK'
  BY <1>1 DEF Join
<1>2. ASSUME NEW s \in Sessions, AskProvider(s) PROVE ClearingOK'
  BY <1>2 DEF AskProvider
<1>3. ASSUME NEW s \in Sessions, FillCache(s) PROVE ClearingOK'
  BY <1>3 DEF FillCache
<1>4. ASSUME NEW s \in Sessions, AddToHandles(s) PROVE ClearingOK'
  BY <1>4 DEF AddToHandles
<1>5. ASSUME NEW s \in Sessions, NEW i \in Indexes, AddToIndex(s, i) PROVE ClearingOK'
  BY <1>5, IndexAssumption DEF AddToIndex, NextIndex
<1>6. ASSUME NEW s \in Sessions, AddToWorld(s) PROVE ClearingOK'
  BY <1>6 DEF AddToWorld
<1>7. ASSUME NEW s \in Sessions, NEW w \in Worlds, ChangeWorld(s, w) PROVE ClearingOK'
  BY <1>7 DEF ChangeWorld, Online
<1>8. ASSUME NEW s \in Sessions, MoveSession(s) PROVE ClearingOK'
  BY <1>8 DEF MoveSession, Left
<1>9. ASSUME NEW s \in Sessions, HandleQuit(s) PROVE ClearingOK'
  BY <1>9 DEF HandleQuit, Swap, Online
<1>10. ASSUME NEW s \in Sessions, CloseSubs(s) PROVE ClearingOK'
  BY <1>10 DEF CloseSubs
<1>11. ASSUME NEW s \in Sessions, ClearComponents(s) PROVE ClearingOK'
  BY <1>11 DEF ClearComponents, Forget
<1>12. ASSUME NEW s \in Sessions, RemoveHandle(s) PROVE ClearingOK'
  BY <1>12 DEF RemoveHandle
<1>13. ASSUME NEW s \in Sessions, NEW i \in Indexes, RemoveFromIndex(s, i) PROVE ClearingOK'
  BY <1>13, IndexAssumption DEF RemoveFromIndex, NextIndex, Emptied
<1>14. ASSUME NEW s \in Sessions, RemoveFromWorld(s) PROVE ClearingOK'
  BY <1>14 DEF RemoveFromWorld
<1>15. ASSUME NEW s \in Sessions, SnapshotHolders(s) PROVE ClearingOK'
  BY <1>15 DEF SnapshotHolders, Holders
<1>16. ASSUME NEW s \in Sessions, NEW t \in Sessions, ClearRelation(s, t) PROVE ClearingOK'
  BY <1>16 DEF ClearRelation, Forget
<1>17. ASSUME NEW s \in Sessions, CloseDone(s) PROVE ClearingOK'
  BY <1>17 DEF CloseDone
<1>18. ASSUME NEW s \in Sessions, NEW t \in Sessions, SetRelation(s, t) PROVE ClearingOK'
  BY <1>18 DEF SetRelation
<1>19. ASSUME NEW s \in Sessions, NEW t \in Sessions, DropRelation(s, t) PROVE ClearingOK'
  BY <1>19 DEF DropRelation, Forget
<1>20. ASSUME NEW s \in Sessions, GetRelation(s) PROVE ClearingOK'
  BY <1>20 DEF GetRelation, Forget
<1>21. ASSUME NEW s \in Sessions, ShutdownClose(s) PROVE ClearingOK'
  BY <1>21 DEF ShutdownClose, Swap
<1>22. CASE Shutdown
  BY <1>22 DEF Shutdown
<1>23. CASE ShutdownDone
  BY <1>23 DEF ShutdownDone
<1>24. CASE UNCHANGED vars
  BY <1>24 DEF vars
<1> QED BY <1>1, <1>2, <1>3, <1>4, <1>5, <1>6, <1>7, <1>8, <1>9, <1>10, <1>11, <1>12, <1>13,
         <1>14, <1>15, <1>16, <1>17, <1>18, <1>19, <1>20, <1>21, <1>22, <1>23, <1>24 DEF Next,
         Joining, Closing

LEMMA OwnNext ==
  TypeOK /\ SwappedOK /\ OwnOK /\ shut = "up" /\ shut' = "up" /\ [Next]_vars => OwnOK'
<1> SUFFICES ASSUME TypeOK, SwappedOK, OwnOK, shut = "up", shut' = "up", [Next]_vars PROVE OwnOK'
  OBVIOUS
<1> USE DEF TypeOK, SwappedOK, OwnOK, Handled, AfterHandle, JoinTo, CloseTo,
            indexVars, joinVars, moveVars, closeVars, relVars, downVars
<1>1. ASSUME NEW s \in Sessions, NEW w \in Worlds, Join(s, w) PROVE OwnOK'
  BY <1>1 DEF Join
<1>2. ASSUME NEW s \in Sessions, AskProvider(s) PROVE OwnOK'
  BY <1>2 DEF AskProvider
<1>3. ASSUME NEW s \in Sessions, FillCache(s) PROVE OwnOK'
  BY <1>3 DEF FillCache
<1>4. ASSUME NEW s \in Sessions, AddToHandles(s) PROVE OwnOK'
  BY <1>4 DEF AddToHandles
<1>5. ASSUME NEW s \in Sessions, NEW i \in Indexes, AddToIndex(s, i) PROVE OwnOK'
  BY <1>5, IndexAssumption DEF AddToIndex, NextIndex
<1>6. ASSUME NEW s \in Sessions, AddToWorld(s) PROVE OwnOK'
  BY <1>6 DEF AddToWorld
<1>7. ASSUME NEW s \in Sessions, NEW w \in Worlds, ChangeWorld(s, w) PROVE OwnOK'
  BY <1>7 DEF ChangeWorld, Online
<1>8. ASSUME NEW s \in Sessions, MoveSession(s) PROVE OwnOK'
  BY <1>8 DEF MoveSession, Left
<1>9. ASSUME NEW s \in Sessions, HandleQuit(s) PROVE OwnOK'
  BY <1>9 DEF HandleQuit, Swap, Online
<1>10. ASSUME NEW s \in Sessions, CloseSubs(s) PROVE OwnOK'
  BY <1>10 DEF CloseSubs
<1>11. ASSUME NEW s \in Sessions, ClearComponents(s) PROVE OwnOK'
  BY <1>11 DEF ClearComponents, Forget
<1>12. ASSUME NEW s \in Sessions, RemoveHandle(s) PROVE OwnOK'
  BY <1>12 DEF RemoveHandle
<1>13. ASSUME NEW s \in Sessions, NEW i \in Indexes, RemoveFromIndex(s, i) PROVE OwnOK'
  BY <1>13, IndexAssumption DEF RemoveFromIndex, NextIndex, Emptied
<1>14. ASSUME NEW s \in Sessions, RemoveFromWorld(s) PROVE OwnOK'
  BY <1>14 DEF RemoveFromWorld
<1>15. ASSUME NEW s \in Sessions, SnapshotHolders(s) PROVE OwnOK'
  BY <1>15 DEF SnapshotHolders, Holders
<1>16. ASSUME NEW s \in Sessions, NEW t \in Sessions, ClearRelation(s, t) PROVE OwnOK'
  BY <1>16 DEF ClearRelation, Forget
<1>17. ASSUME NEW s \in Sessions, CloseDone(s) PROVE OwnOK'
  BY <1>17 DEF CloseDone
<1>18. ASSUME NEW s \in Sessions, NEW t \in Sessions, SetRelation(s, t) PROVE OwnOK'
  BY <1>18 DEF SetRelation
<1>19. ASSUME NEW s \in Sessions, NEW t \in Sessions, DropRelation(s, t) PROVE OwnOK'
  BY <1>19 DEF DropRelation, Forget
<1>20. ASSUME NEW s \in Sessions, GetRelation(s) PROVE OwnOK'
  BY <1>20 DEF GetRelation, Forget
<1>21. ASSUME NEW s \in Sessions, ShutdownClose(s) PROVE OwnOK'
  BY <1>21 DEF ShutdownClose, Swap
<1>22. CASE Shutdown
  BY <1>22 DEF Shutdown
<1>23. CASE ShutdownDone
  BY <1>23 DEF ShutdownDone
<1>24. CASE UNCHANGED vars
  BY <1>24 DEF vars
<1> QED BY <1>1, <1>2, <1>3, <1>4, <1>5, <1>6, <1>7, <1>8, <1>9, <1>10, <1>11, <1>12, <1>13,
         <1>14, <1>15, <1>16, <1>17, <1>18, <1>19, <1>20, <1>21, <1>22, <1>23, <1>24 DEF Next,
         Joining, Closing

LEMMA WorldNext ==
  /\ TypeOK /\ SwappedOK /\ OwnOK /\ OwnOK' /\ WorldOK /\ shut = "up" /\ shut' = "up"
  /\ [Next]_vars
  => WorldOK'
<1> SUFFICES ASSUME TypeOK, SwappedOK, OwnOK, OwnOK', WorldOK, shut = "up", shut' = "up", [Next]_vars
             PROVE WorldOK'
  OBVIOUS
<1> USE DEF TypeOK, SwappedOK, OwnOK, WorldOK, Handled, AfterWorld, JoinTo, CloseTo,
            indexVars, joinVars, moveVars, closeVars, relVars, downVars
<1>1. ASSUME NEW s \in Sessions, NEW w \in Worlds, Join(s, w) PROVE WorldOK'
  BY <1>1 DEF Join
<1>2. ASSUME NEW s \in Sessions, AskProvider(s) PROVE WorldOK'
  BY <1>2 DEF AskProvider
<1>3. ASSUME NEW s \in Sessions, FillCache(s) PROVE WorldOK'
  BY <1>3 DEF FillCache
<1>4. ASSUME NEW s \in Sessions, AddToHandles(s) PROVE WorldOK'
  BY <1>4 DEF AddToHandles
<1>5. ASSUME NEW s \in Sessions, NEW i \in Indexes, AddToIndex(s, i) PROVE WorldOK'
  BY <1>5, IndexAssumption DEF AddToIndex, NextIndex
<1>6. ASSUME NEW s \in Sessions, AddToWorld(s) PROVE WorldOK'
  BY <1>6 DEF AddToWorld
<1>7. ASSUME NEW s \in Sessions, NEW w \in Worlds, ChangeWorld(s, w) PROVE WorldOK'
  BY <1>7 DEF ChangeWorld, Online
<1>8. ASSUME NEW s \in Sessions, MoveSession(s) PROVE WorldOK'
  BY <1>8 DEF MoveSession, Left
<1>9. ASSUME NEW s \in Sessions, HandleQuit(s) PROVE WorldOK'
  BY <1>9 DEF HandleQuit, Swap, Online
<1>10. ASSUME NEW s \in Sessions, CloseSubs(s) PROVE WorldOK'
  BY <1>10 DEF CloseSubs
<1>11. ASSUME NEW s \in Sessions, ClearComponents(s) PROVE WorldOK'
  BY <1>11 DEF ClearComponents, Forget
<1>12. ASSUME NEW s \in Sessions, RemoveHandle(s) PROVE WorldOK'
  BY <1>12 DEF RemoveHandle
<1>13. ASSUME NEW s \in Sessions, NEW i \in Indexes, RemoveFromIndex(s, i) PROVE WorldOK'
  BY <1>13, IndexAssumption DEF RemoveFromIndex, NextIndex, Emptied
<1>14. ASSUME NEW s \in Sessions, RemoveFromWorld(s) PROVE WorldOK'
  BY <1>14, NoneAssumption DEF RemoveFromWorld
<1>15. ASSUME NEW s \in Sessions, SnapshotHolders(s) PROVE WorldOK'
  BY <1>15 DEF SnapshotHolders, Holders
<1>16. ASSUME NEW s \in Sessions, NEW t \in Sessions, ClearRelation(s, t) PROVE WorldOK'
  BY <1>16 DEF ClearRelation, Forget
<1>17. ASSUME NEW s \in Sessions, CloseDone(s) PROVE WorldOK'
  BY <1>17 DEF CloseDone
<1>18. ASSUME NEW s \in Sessions, NEW t \in Sessions, SetRelation(s, t) PROVE WorldOK'
  BY <1>18 DEF SetRelation
<1>19. ASSUME NEW s \in Sessions, NEW t \in Sessions, DropRelation(s, t) PROVE WorldOK'
  BY <1>19 DEF DropRelation, Forget
<1>20. ASSUME NEW s \in Sessions, GetRelation(s) PROVE WorldOK'
  BY <1>20 DEF GetRelation, Forget
<1>21. ASSUME NEW s \in Sessions, ShutdownClose(s) PROVE WorldOK'
  BY <1>21 DEF ShutdownClose, Swap
<1>22. CASE Shutdown
  BY <1>22 DEF Shutdown
<1>23. CASE ShutdownDone
  BY <1>23 DEF ShutdownDone
<1>24. CASE UNCHANGED vars
  BY <1>24 DEF vars, indexVars, joinVars, moveVars, closeVars, relVars, downVars
<1> QED BY <1>1, <1>2, <1>3, <1>4, <1>5, <1>6, <1>7, <1>8, <1>9, <1>10, <1>11, <1>12, <1>13,
         <1>14, <1>15, <1>16, <1>17, <1>18, <1>19, <1>20, <1>21, <1>22, <1>23, <1>24 DEF Next,
         Joining, Closing

AfterIndex(i) == IF i = "fake" THEN "relations" ELSE NextIndex(i)

(* Joining and closing go through the indexes in one order.                  *)
LEMMA StageFacts ==
  \A i \in Indexes :
    /\ Entered(i) \cap {"new", "init", "cache", "handle", "uuid", "failed"} = {} /\ "open" \in Entered(i)
    /\ "world" \in Entered(i) <=> "fake" \in Entered(i)
    /\ AfterRemoval(i) \cap {"live", "subs", "clear", "handle", "uuid"} = {}
    /\ {"relations", "clearing", "done"} \subseteq AfterRemoval(i)
    /\ "world" \in AfterRemoval(i) <=> "fake" \in AfterRemoval(i)
BY IndexAssumption DEF Entered, Handled, AfterRemoval, AfterHandle, AfterWorld

LEMMA NextFacts ==
  \A i, j \in Indexes :
    /\ j \notin Entered(j) /\ NextIndex(j) \in Entered(j)
    /\ j # i => (j \in Entered(i) <=> NextIndex(j) \in Entered(i))
    /\ j \notin AfterRemoval(j) /\ AfterIndex(j) \in AfterRemoval(j)
    /\ j # i => (j \in AfterRemoval(i) <=> AfterIndex(j) \in AfterRemoval(i))
<1> SUFFICES ASSUME NEW i \in Indexes, NEW j \in Indexes
             PROVE  /\ j \notin Entered(j) /\ NextIndex(j) \in Entered(j)
                    /\ j # i => (j \in Entered(i) <=> NextIndex(j) \in Entered(i))
                    /\ j \notin AfterRemoval(j) /\ AfterIndex(j) \in AfterRemoval(j)
                    /\ j # i => (j \in AfterRemoval(i) <=> AfterIndex(j) \in AfterRemoval(i))
  OBVIOUS
<1>1. /\ NextIndex("uuid") = "name" /\ NextIndex("name") = "xuid"
      /\ NextIndex("xuid") = "world" /\ NextIndex("fake") = "open"
  BY DEF NextIndex
<1>2. i \in {"uuid", "name", "xuid", "fake"} /\ j \in {"uuid", "name", "xuid", "fake"}
  BY IndexAssumption
<1> QED BY <1>1, <1>2 DEF Entered, Handled, AfterRemoval, AfterHandle, AfterWorld, AfterIndex

LEMMA KeysNext ==
  /\ TypeOK /\ SwappedOK /\ OwnOK /\ KeysOK /\ shut = "up" /\ shut' = "up" /\ [Next]_vars
  => KeysOK'
<1> SUFFICES ASSUME TypeOK, SwappedOK, OwnOK, KeysOK, shut = "up", shut' = "up", [Next]_vars
             PROVE KeysOK'
  OBVIOUS
<1> USE DEF TypeOK, SwappedOK, OwnOK, KeysOK, JoinTo, CloseTo,
            indexVars, joinVars, moveVars, closeVars, relVars, downVars
<1>1. ASSUME NEW s \in Sessions, NEW w \in Worlds, Join(s, w) PROVE KeysOK'
  BY <1>1, StageFacts DEF Join
<1>2. ASSUME NEW s \in Sessions, AskProvider(s) PROVE KeysOK'
  BY <1>2, StageFacts DEF AskProvider
<1>3. ASSUME NEW s \in Sessions, FillCache(s) PROVE KeysOK'
  BY <1>3, StageFacts DEF FillCache
<1>4. ASSUME NEW s \in Sessions, AddToHandles(s) PROVE KeysOK'
  BY <1>4, StageFacts DEF AddToHandles
<1>5. ASSUME NEW s \in Sessions, NEW i \in Indexes, AddToIndex(s, i) PROVE KeysOK'
  BY <1>5, StageFacts, NextFacts, KeysTyped, IndexAssumption DEF AddToIndex
<1>6. ASSUME NEW s \in Sessions, AddToWorld(s) PROVE KeysOK'
  BY <1>6, StageFacts DEF AddToWorld
<1>7. ASSUME NEW s \in Sessions, NEW w \in Worlds, ChangeWorld(s, w) PROVE KeysOK'
  BY <1>7, StageFacts DEF ChangeWorld, Online
<1>8. ASSUME NEW s \in Sessions, MoveSession(s) PROVE KeysOK'
  BY <1>8, StageFacts DEF MoveSession, Left
<1>9. ASSUME NEW s \in Sessions, HandleQuit(s) PROVE KeysOK'
  BY <1>9, StageFacts DEF HandleQuit, Swap, Online
<1>10. ASSUME NEW s \in Sessions, CloseSubs(s) PROVE KeysOK'
  BY <1>10, StageFacts DEF CloseSubs
<1>11. ASSUME NEW s \in Sessions, ClearComponents(s) PROVE KeysOK'
  BY <1>11, StageFacts DEF ClearComponents, Forget
<1>12. ASSUME NEW s \in Sessions, RemoveHandle(s) PROVE KeysOK'
  BY <1>12, StageFacts DEF RemoveHandle
<1>13. ASSUME NEW s \in Sessions, NEW i \in Indexes, RemoveFromIndex(s, i) PROVE KeysOK'
  <2>1. ASSUME NEW x \in Sessions, NEW j \in Indexes, NEW k \in Keys, byKey'[j][k] = x
        PROVE  byKey[j][k] = x /\ (j = i => x # s)
    <3>1. CASE Key(i, s) = NoKey
      <4>1. byKey' = byKey
        BY <1>13, <3>1 DEF RemoveFromIndex
      <4>2. j = i /\ x = s => k = NoKey
        BY <2>1, <3>1, <4>1
      <4> QED BY <2>1, <4>1, <4>2, KeyAssumption
    <3>2. CASE Key(i, s) # NoKey
      <4>1. Key(i, s) \in Keys /\ byKey' = [byKey EXCEPT ![i] = Emptied(i, s)]
        BY <1>13, <3>2, KeysTyped DEF RemoveFromIndex
      <4>2. CASE j = i
        <5>1. byKey'[i] = [byKey[i] EXCEPT ![Key(i, s)] = NoSession]
          BY <4>1 DEF Emptied
        <5>2. byKey[i] \in [Keys -> Sessions \cup {NoSession}]
          OBVIOUS
        <5>3. k # Key(i, s)
          BY <2>1, <4>1, <4>2, <5>1, <5>2, NoneAssumption
        <5>4. byKey[i][k] = x
          BY <2>1, <4>2, <5>1, <5>2, <5>3
        <5> QED BY <4>2, <5>3, <5>4
      <4>3. CASE j # i
        BY <2>1, <4>1, <4>3
      <4> QED BY <4>2, <4>3
    <3> QED BY <3>1, <3>2
  <2>2. UNCHANGED jpc /\ cpc[s] = i /\ cpc' = [cpc EXCEPT ![s] = AfterIndex(i)]
    BY <1>13 DEF RemoveFromIndex, AfterIndex
  <2> QED BY <2>1, <2>2, NextFacts
<1>14. ASSUME NEW s \in Sessions, RemoveFromWorld(s) PROVE KeysOK'
  BY <1>14, StageFacts DEF RemoveFromWorld
<1>15. ASSUME NEW s \in Sessions, SnapshotHolders(s) PROVE KeysOK'
  BY <1>15, StageFacts DEF SnapshotHolders, Holders
<1>16. ASSUME NEW s \in Sessions, NEW t \in Sessions, ClearRelation(s, t) PROVE KeysOK'
  BY <1>16, StageFacts DEF ClearRelation, Forget
<1>17. ASSUME NEW s \in Sessions, CloseDone(s) PROVE KeysOK'
  BY <1>17, StageFacts DEF CloseDone
<1>18. ASSUME NEW s \in Sessions, NEW t \in Sessions, SetRelation(s, t) PROVE KeysOK'
  BY <1>18, StageFacts DEF SetRelation
<1>19. ASSUME NEW s \in Sessions, NEW t \in Sessions, DropRelation(s, t) PROVE KeysOK'
  BY <1>19, StageFacts DEF DropRelation, Forget
<1>20. ASSUME NEW s \in Sessions, GetRelation(s) PROVE KeysOK'
  BY <1>20, StageFacts DEF GetRelation, Forget
<1>21. ASSUME NEW s \in Sessions, ShutdownClose(s) PROVE KeysOK'
  BY <1>21, StageFacts DEF ShutdownClose, Swap
<1>22. CASE Shutdown
  BY <1>22 DEF Shutdown
<1>23. CASE ShutdownDone
  BY <1>23 DEF ShutdownDone
<1>24. CASE UNCHANGED vars
  BY <1>24 DEF vars
<1> QED BY <1>1, <1>2, <1>3, <1>4, <1>5, <1>6, <1>7, <1>8, <1>9, <1>10, <1>11, <1>12, <1>13,
         <1>14, <1>15, <1>16, <1>17, <1>18, <1>19, <1>20, <1>21, <1>22, <1>23, <1>24 DEF Next,
         Joining, Closing

LEMMA ApartNext ==
  /\ TypeOK /\ SwappedOK /\ OwnOK /\ ApartOK /\ ~Overlaps
  /\ shut = "up" /\ shut' = "up" /\ [Next]_vars
  => ApartOK'
<1> SUFFICES ASSUME TypeOK, SwappedOK, OwnOK, ApartOK, ~Overlaps, shut = "up", shut' = "up", [Next]_vars
             PROVE ApartOK'
  OBVIOUS
<1> USE DEF TypeOK, SwappedOK, OwnOK, ApartOK, Gone, Akin, JoinTo, CloseTo,
            indexVars, joinVars, moveVars, closeVars, relVars, downVars
<1>1. ASSUME NEW s \in Sessions, NEW w \in Worlds, Join(s, w) PROVE ApartOK'
  BY <1>1 DEF Join
<1>2. ASSUME NEW s \in Sessions, AskProvider(s) PROVE ApartOK'
  <2>1. PICK l : jpc' = [jpc EXCEPT ![s] = l]
    BY <1>2 DEF AskProvider
  <2>2. jpc[s] = "init" /\ cpc' = cpc /\ quit' = quit
    BY <1>2 DEF AskProvider
  <2>3. \A t \in Sessions : Gone(t) => Gone(t)'
    BY <2>1, <2>2
  <2> QED BY <2>3
<1>3. ASSUME NEW s \in Sessions, FillCache(s) PROVE ApartOK'
  BY <1>3 DEF FillCache
<1>4. ASSUME NEW s \in Sessions, AddToHandles(s) PROVE ApartOK'
  BY <1>4 DEF AddToHandles
<1>5. ASSUME NEW s \in Sessions, NEW i \in Indexes, AddToIndex(s, i) PROVE ApartOK'
  BY <1>5, IndexAssumption DEF AddToIndex, NextIndex
<1>6. ASSUME NEW s \in Sessions, AddToWorld(s) PROVE ApartOK'
  BY <1>6 DEF AddToWorld
<1>7. ASSUME NEW s \in Sessions, NEW w \in Worlds, ChangeWorld(s, w) PROVE ApartOK'
  BY <1>7 DEF ChangeWorld, Online
<1>8. ASSUME NEW s \in Sessions, MoveSession(s) PROVE ApartOK'
  BY <1>8 DEF MoveSession, Left
<1>9. ASSUME NEW s \in Sessions, HandleQuit(s) PROVE ApartOK'
  BY <1>9 DEF HandleQuit, Swap, Online
<1>10. ASSUME NEW s \in Sessions, CloseSubs(s) PROVE ApartOK'
  BY <1>10 DEF CloseSubs
<1>11. ASSUME NEW s \in Sessions, ClearComponents(s) PROVE ApartOK'
  BY <1>11 DEF ClearComponents, Forget
<1>12. ASSUME NEW s \in Sessions, RemoveHandle(s) PROVE ApartOK'
  BY <1>12 DEF RemoveHandle
<1>13. ASSUME NEW s \in Sessions, NEW i \in Indexes, RemoveFromIndex(s, i) PROVE ApartOK'
  BY <1>13, IndexAssumption DEF RemoveFromIndex, NextIndex, Emptied
<1>14. ASSUME NEW s \in Sessions, RemoveFromWorld(s) PROVE ApartOK'
  BY <1>14 DEF RemoveFromWorld
<1>15. ASSUME NEW s \in Sessions, SnapshotHolders(s) PROVE ApartOK'
  BY <1>15 DEF SnapshotHolders, Holders
<1>16. ASSUME NEW s \in Sessions, NEW t \in Sessions, ClearRelation(s, t) PROVE ApartOK'
  BY <1>16 DEF ClearRelation, Forget
<1>17. ASSUME NEW s \in Sessions, CloseDone(s) PROVE ApartOK'
  BY <1>17 DEF CloseDone
<1>18. ASSUME NEW s \in Sessions, NEW t \in Sessions, SetRelation(s, t) PROVE ApartOK'
  BY <1>18 DEF SetRelation
<1>19. ASSUME NEW s \in Sessions, NEW t \in Sessions, DropRelation(s, t) PROVE ApartOK'
  BY <1>19 DEF DropRelation, Forget
<1>20. ASSUME NEW s \in Sessions, GetRelation(s) PROVE ApartOK'
  BY <1>20 DEF GetRelation, Forget
<1>21. ASSUME NEW s \in Sessions, ShutdownClose(s) PROVE ApartOK'
  BY <1>21 DEF ShutdownClose, Swap
<1>22. CASE Shutdown
  BY <1>22 DEF Shutdown
<1>23. CASE ShutdownDone
  BY <1>23 DEF ShutdownDone
<1>24. CASE UNCHANGED vars
  BY <1>24 DEF vars, indexVars, joinVars, moveVars, closeVars, relVars, downVars
<1> QED BY <1>1, <1>2, <1>3, <1>4, <1>5, <1>6, <1>7, <1>8, <1>9, <1>10, <1>11, <1>12, <1>13,
         <1>14, <1>15, <1>16, <1>17, <1>18, <1>19, <1>20, <1>21, <1>22, <1>23, <1>24 DEF Next,
         Joining, Closing

LEMMA EntryNext ==
  /\ TypeOK /\ SwappedOK /\ OwnOK /\ ApartOK /\ EntryOK
  /\ shut = "up" /\ shut' = "up" /\ [Next]_vars
  => EntryOK'
<1> SUFFICES ASSUME TypeOK, SwappedOK, OwnOK, ApartOK, EntryOK, shut = "up", shut' = "up", [Next]_vars
             PROVE EntryOK'
  OBVIOUS
<1> USE DEF TypeOK, SwappedOK, OwnOK, ApartOK, EntryOK, Gone, Akin, JoinTo, CloseTo,
            indexVars, joinVars, moveVars, closeVars, relVars, downVars
<1>1. ASSUME NEW s \in Sessions, NEW w \in Worlds, Join(s, w) PROVE EntryOK'
  BY <1>1, StageFacts DEF Join
<1>2. ASSUME NEW s \in Sessions, AskProvider(s) PROVE EntryOK'
  BY <1>2, StageFacts DEF AskProvider
<1>3. ASSUME NEW s \in Sessions, FillCache(s) PROVE EntryOK'
  BY <1>3, StageFacts DEF FillCache
<1>4. ASSUME NEW s \in Sessions, AddToHandles(s) PROVE EntryOK'
  BY <1>4, StageFacts DEF AddToHandles
<1>5. ASSUME NEW s \in Sessions, NEW i \in Indexes, AddToIndex(s, i) PROVE EntryOK'
  <2>1. /\ jpc[s] = i /\ jpc' = [jpc EXCEPT ![s] = NextIndex(i)] /\ cpc' = cpc
        /\ byKey' = IF Key(i, s) = NoKey THEN byKey ELSE [byKey EXCEPT ![i][Key(i, s)] = s]
    BY <1>5 DEF AddToIndex
  <2>2. SUFFICES ASSUME NEW t \in Sessions, NEW n \in Indexes,
                        Key(n, t) # NoKey, jpc'[t] \in Entered(n), cpc[t] \notin AfterRemoval(n)
                 PROVE  byKey'[n][Key(n, t)] = t
    BY <2>1
  <2>3. Key(n, t) \in Keys
    BY <2>2, KeysTyped
  <2>4. CASE t = s /\ n = i
    BY <2>1, <2>2, <2>3, <2>4
  <2>5. CASE t = s /\ n # i
    <3>1. jpc[t] \in Entered(n)
      BY <2>1, <2>2, <2>5, StageFacts, NextFacts, IndexAssumption
    <3>2. byKey[n][Key(n, t)] = t
      BY <2>2, <3>1
    <3> QED BY <2>1, <2>3, <2>5, <3>2
  <2>6. CASE t # s
    <3>1. byKey[n][Key(n, t)] = t
      BY <2>1, <2>2, <2>6
    <3>2. CASE n = i /\ Key(n, t) = Key(i, s) /\ Key(i, s) # NoKey
      <4>1. Gone(s) \/ Gone(t)
        BY <2>6, <3>2
      <4> QED BY <2>1, <2>2, <2>6, <4>1, StageFacts, IndexAssumption
    <3>3. CASE ~(n = i /\ Key(n, t) = Key(i, s) /\ Key(i, s) # NoKey)
      BY <2>1, <2>3, <3>1, <3>3
    <3> QED BY <3>2, <3>3
  <2> QED BY <2>4, <2>5, <2>6
<1>6. ASSUME NEW s \in Sessions, AddToWorld(s) PROVE EntryOK'
  BY <1>6, StageFacts DEF AddToWorld
<1>7. ASSUME NEW s \in Sessions, NEW w \in Worlds, ChangeWorld(s, w) PROVE EntryOK'
  BY <1>7, StageFacts DEF ChangeWorld, Online
<1>8. ASSUME NEW s \in Sessions, MoveSession(s) PROVE EntryOK'
  BY <1>8, StageFacts DEF MoveSession, Left
<1>9. ASSUME NEW s \in Sessions, HandleQuit(s) PROVE EntryOK'
  BY <1>9, StageFacts DEF HandleQuit, Swap, Online
<1>10. ASSUME NEW s \in Sessions, CloseSubs(s) PROVE EntryOK'
  BY <1>10, StageFacts DEF CloseSubs
<1>11. ASSUME NEW s \in Sessions, ClearComponents(s) PROVE EntryOK'
  BY <1>11, StageFacts DEF ClearComponents, Forget
<1>12. ASSUME NEW s \in Sessions, RemoveHandle(s) PROVE EntryOK'
  BY <1>12, StageFacts DEF RemoveHandle
<1>13. ASSUME NEW s \in Sessions, NEW i \in Indexes, RemoveFromIndex(s, i) PROVE EntryOK'
  BY <1>13, StageFacts, NextFacts, KeysTyped, IndexAssumption, NoneAssumption DEF RemoveFromIndex,
           Emptied, AfterIndex
<1>14. ASSUME NEW s \in Sessions, RemoveFromWorld(s) PROVE EntryOK'
  BY <1>14, StageFacts DEF RemoveFromWorld
<1>15. ASSUME NEW s \in Sessions, SnapshotHolders(s) PROVE EntryOK'
  BY <1>15, StageFacts DEF SnapshotHolders, Holders
<1>16. ASSUME NEW s \in Sessions, NEW t \in Sessions, ClearRelation(s, t) PROVE EntryOK'
  BY <1>16, StageFacts DEF ClearRelation, Forget
<1>17. ASSUME NEW s \in Sessions, CloseDone(s) PROVE EntryOK'
  BY <1>17, StageFacts DEF CloseDone
<1>18. ASSUME NEW s \in Sessions, NEW t \in Sessions, SetRelation(s, t) PROVE EntryOK'
  BY <1>18, StageFacts DEF SetRelation
<1>19. ASSUME NEW s \in Sessions, NEW t \in Sessions, DropRelation(s, t) PROVE EntryOK'
  BY <1>19, StageFacts DEF DropRelation, Forget
<1>20. ASSUME NEW s \in Sessions, GetRelation(s) PROVE EntryOK'
  BY <1>20, StageFacts DEF GetRelation, Forget
<1>21. ASSUME NEW s \in Sessions, ShutdownClose(s) PROVE EntryOK'
  BY <1>21, StageFacts DEF ShutdownClose, Swap
<1>22. CASE Shutdown
  BY <1>22 DEF Shutdown
<1>23. CASE ShutdownDone
  BY <1>23 DEF ShutdownDone
<1>24. CASE UNCHANGED vars
  BY <1>24 DEF vars
<1> QED BY <1>1, <1>2, <1>3, <1>4, <1>5, <1>6, <1>7, <1>8, <1>9, <1>10, <1>11, <1>12, <1>13,
         <1>14, <1>15, <1>16, <1>17, <1>18, <1>19, <1>20, <1>21, <1>22, <1>23, <1>24 DEF Next,
         Joining, Closing

-----------------------------------------------------------------------------
(* Shutdown is not taken back.                                               *)
LEMMA DownStays == TypeOK /\ [Next]_vars /\ shut' = "up" => shut = "up"
<1> SUFFICES ASSUME TypeOK, [Next]_vars, shut' = "up" PROVE shut = "up"
  OBVIOUS
<1>1. CASE Shutdown
  BY <1>1 DEF Shutdown
<1>2. CASE ShutdownDone
  BY <1>2 DEF ShutdownDone
<1>3. CASE UNCHANGED shut
  BY <1>3
<1>4. [Next]_vars => Shutdown \/ ShutdownDone \/ UNCHANGED shut
  BY DEF Next, vars, downVars, Joining, Closing, Join, AskProvider, FillCache, AddToHandles,
           AddToIndex,
         AddToWorld, ChangeWorld, MoveSession, HandleQuit, CloseSubs, ClearComponents, RemoveHandle,
         RemoveFromIndex, RemoveFromWorld, SnapshotHolders, ClearRelation, CloseDone, SetRelation,
         DropRelation, GetRelation, ShutdownClose
<1> QED BY <1>1, <1>2, <1>3, <1>4

LEMMA StepHolds == IInv /\ [Next]_vars => IInv'
<1> SUFFICES ASSUME IInv, [Next]_vars PROVE IInv'
  OBVIOUS
<1>1. TypeOK' /\ SwappedOK' /\ HeldOK' /\ ClearingOK'
  BY TypeNext, SwappedNext, HeldNext, ClearingNext DEF IInv
<1>2. ASSUME shut' = "up" PROVE shut = "up"
  BY <1>2, DownStays DEF IInv
<1>3. ASSUME shut' = "up" PROVE OwnOK' /\ WorldOK' /\ KeysOK'
  <2>1. shut = "up" /\ OwnOK /\ WorldOK /\ KeysOK
    BY <1>2, <1>3 DEF IInv, UpOK
  <2>2. OwnOK'
    BY <1>3, <2>1, OwnNext DEF IInv
  <2> QED BY <1>3, <2>1, <2>2, WorldNext, KeysNext DEF IInv
<1>4. ASSUME shut' = "up", ~Overlaps PROVE ApartOK' /\ EntryOK'
  <2>1. shut = "up" /\ OwnOK /\ ApartOK /\ EntryOK
    BY <1>2, <1>4 DEF IInv, UpOK, FoundOK
  <2> QED BY <1>4, <2>1, ApartNext, EntryNext DEF IInv
<1>5. UpOK'
  BY <1>3 DEF UpOK
<1>6. FoundOK'
  BY <1>4 DEF FoundOK
<1> QED BY <1>1, <1>5, <1>6 DEF IInv

(* The parts hold in every state: what a close has done of its work, where a *)
(* session is listed at each step of joining and closing, and who may still  *)
(* hold a relation.                                                          *)
THEOREM Inductive == Spec => []IInv
<1>1. Init => IInv
  BY StartHolds
<1>2. IInv /\ [Next]_vars => IInv'
  BY StepHolds
<1> QED BY <1>1, <1>2, PTL DEF Spec

(* A relation to a session that is gone was set when it was closed already:  *)
(* the snapshot that clearAllRelationsTo takes misses none, since a holder   *)
(* drops its components before it leaves the index.                          *)
THEOREM RelationsAreCleared == Spec => []RelationsCleared
<1>1. IInv => RelationsCleared
  BY DEF IInv, ClearingOK, RelationsCleared
<1> QED BY <1>1, Inductive, PTL

(* Until Shutdown, a session that is neither joining, moving nor closing is  *)
(* listed in its world only.                                                 *)
THEOREM ListedOnce == Spec => []OneWorld
<1>1. ASSUME IInv PROVE OneWorld
  <2> SUFFICES ASSUME shut = "up", NEW s \in Sessions, Settled(s)
               PROVE cache[s] = at[s] /\ {w \in Worlds : s \in byWorld[w]} = {at[s]}
    BY DEF OneWorld
  <2>1. WorldOK /\ jpc[s] = "open" /\ cpc[s] = "live" /\ ~mpc[s]
    BY <1>1 DEF IInv, UpOK, Settled
  <2>2. at[s] \in Worlds /\ cache[s] = at[s]
    BY <2>1 DEF WorldOK, Handled
  <2>3. \A w \in Worlds : s \in byWorld[w] <=> w = at[s]
    BY <2>1 DEF WorldOK, AfterWorld
  <2> QED BY <2>2, <2>3
<1> QED BY <1>1, Inductive, PTL

(* Until Shutdown, no index leads to a session after removeSession, nor to   *)
(* one whose join has failed.                                                *)
THEOREM GoneFromIndexes == Spec => []Unregistered
<1>1. ASSUME IInv PROVE Unregistered
  <2> SUFFICES ASSUME shut = "up", NEW s \in Sessions, jpc[s] = "failed" \/ cpc[s] = "done"
               PROVE  /\ s \notin byHandle /\ \A w \in Worlds : s \notin byWorld[w]
                      /\ \A i \in Indexes, k \in Keys : byKey[i][k] # s
    BY DEF Unregistered
  <2>1. OwnOK /\ WorldOK /\ KeysOK
    BY <1>1 DEF IInv, UpOK
  <2>2. s \notin byHandle
    BY <2>1 DEF OwnOK, AfterHandle, Handled
  <2>3. \A w \in Worlds : s \notin byWorld[w]
    BY <2>1 DEF WorldOK, AfterWorld
  <2>4. \A i \in Indexes, k \in Keys : byKey[i][k] # s
    BY <2>1, StageFacts DEF KeysOK
  <2> QED BY <2>2, <2>3, <2>4
<1> QED BY <1>1, Inductive, PTL

(* Until Shutdown, and if no two live sessions have a key in common, a       *)
(* session is found under each of its keys.                                  *)
THEOREM KeysLead ==
  ASSUME ~Overlaps
  PROVE  Spec => []FoundByKey
<1>1. ASSUME IInv PROVE FoundByKey
  <2> SUFFICES ASSUME shut = "up", NEW s \in Sessions, NEW i \in Indexes, Settled(s), Key(i, s) # NoKey
               PROVE  byKey[i][Key(i, s)] = s
    BY DEF FoundByKey
  <2>1. EntryOK
    BY <1>1 DEF IInv, FoundOK
  <2> QED BY <2>1, StageFacts DEF EntryOK, Settled
<1> QED BY <1>1, Inductive, PTL

=============================================================================
