-------------------------- MODULE Structures_proofs --------------------------
(****************************************************************************)
(* Proofs about five structures for any constants. Registry: component      *)
(* types never share an ID before the limit. TaskHeap: the heap implements  *)
(* the queue that gives the earliest task that is due. Bitmasks: a mask is  *)
(* a set. RefSets: a set never holds an ID twice, and the compare-and-swap  *)
(* loops implement a set on which each call has its effect at one moment.   *)
(* Batching: the batches are free of conflicts, hold every loop once, and   *)
(* are those of first fit.                                                  *)
(****************************************************************************)
EXTENDS Batching, RefSets, Registry, TaskHeap, Bitmasks, WellFoundedInduction, TLAPS

-----------------------------------------------------------------------------
(* Lists.                                                                    *)

LEMMA AppendIs ==
  ASSUME NEW S, NEW q \in Seq(S), NEW e \in S
  PROVE  /\ Append(q, e) \in Seq(S)
         /\ DOMAIN q = 1 .. Len(q) /\ Len(q) \in Nat
         /\ DOMAIN Append(q, e) = 1 .. Len(q) + 1
         /\ Append(q, e)[Len(q) + 1] = e
         /\ \A i \in 1 .. Len(q) : Append(q, e)[i] = q[i]
  OBVIOUS

-----------------------------------------------------------------------------
(* Registry.                                                                 *)

(* What registering never leaves: IDs of the width they have, types and      *)
(* names of those there are.                                                 *)
RegTypeOK ==
  /\ typeIds \in [CompTypes -> ComponentID \cup {NoId}] /\ nextID \in Nat
  /\ typesArr \in [0 .. MaxComponents - 1 -> CompTypes \cup {NoType}]
  /\ where \in [Goroutines -> {"idle", "draw", "store", "name", "panicked"}]
  /\ asking \in [Goroutines -> CompTypes \cup {NoType}]
  /\ newID \in [Goroutines -> ComponentID \cup {NoId}]
  /\ \A g \in Goroutines :
       /\ where[g] # "idle" => asking[g] \in CompTypes
       /\ where[g] \in {"store", "name"} => newID[g] \in 0 .. MaxComponents - 1

(* A goroutine has a number of its own.                                      *)
Holds(g) == where[g] \in {"store", "name"}

(* The numbers drawn before the counter wraps around: nobody holds that of   *)
(* another, and one that is stored is held by him alone who is to name it.   *)
NumbersOK ==
  nextID <= MaxComponents =>
    /\ \A g \in Goroutines : Holds(g) => newID[g] < nextID
    /\ \A g, h \in Goroutines : Holds(g) /\ Holds(h) /\ newID[g] = newID[h] => g = h
    /\ \A t \in CompTypes : typeIds[t] # NoId => typeIds[t] < nextID
    /\ \A t, u \in CompTypes : typeIds[t] # NoId /\ typeIds[t] = typeIds[u] => t = u
    /\ \A t \in CompTypes, g \in Goroutines :
         typeIds[t] # NoId /\ Holds(g) /\ newID[g] = typeIds[t] => where[g] = "name" /\ asking[g] = t
    /\ \A g \in Goroutines : where[g] = "name" => typeIds[asking[g]] = newID[g]
    /\ \A t \in CompTypes : typeIds[t] # NoId =>
         \/ typesArr[typeIds[t]] = t
         \/ \E g \in Goroutines : where[g] = "name" /\ asking[g] = t /\ newID[g] = typeIds[t]

RegInv == RegTypeOK /\ NumbersOK

(* A number below the limit is not cut.                                      *)
LEMMA WidthIs ==
  /\ MaxComponents \in Nat /\ ComponentID = 0 .. MaxComponents /\ NoId \notin ComponentID
  /\ \A n \in Nat : Truncated(n) \in ComponentID /\ (n < MaxComponents => Truncated(n) = n)
<1> PICK m \in Nat \ {0} : m = 2 ^ IdWidth
  BY WidthAssumption
<1>1. MaxComponents = m - 1 /\ ComponentID = 0 .. m - 1
  BY DEF MaxComponents, ComponentID
<1>2. \A n \in Nat : Truncated(n) = n % m
  BY DEF Truncated
<1>3. \A n \in Nat : n % m \in 0 .. m - 1 /\ (n < m => n % m = n)
  OBVIOUS
<1>4. NoId \notin 0 .. m - 1
  BY AskedAssumption
<1>5. MaxComponents \in Nat /\ m - 1 = MaxComponents /\ \A n \in Nat : n < MaxComponents => n < m
  BY <1>1
<1>6. \A n \in Nat : Truncated(n) \in 0 .. m - 1 /\ (n < m => Truncated(n) = n)
  BY <1>2, <1>3
<1> QED BY <1>1, <1>4, <1>5, <1>6

LEMMA RegInitInv == RegInit => RegInv
<1> SUFFICES ASSUME RegInit PROVE RegInv
  OBVIOUS
<1>1. RegTypeOK
  BY DEF RegInit, RegTypeOK
<1>2. NumbersOK
  BY DEF RegInit, NumbersOK, Holds
<1> QED BY <1>1, <1>2 DEF RegInv

LEMMA RegisterKeeps ==
  ASSUME RegInv, NEW g \in Goroutines, NEW t \in CompTypes, Register(g, t)
  PROVE  RegInv'
<1>1. /\ where[g] = "idle" /\ asking' = [asking EXCEPT ![g] = t]
      /\ \E l \in {"draw", "idle"} : where' = [where EXCEPT ![g] = l]
      /\ typeIds' = typeIds /\ nextID' = nextID /\ typesArr' = typesArr /\ newID' = newID
  BY DEF Register, RegGoto
<1>2. RegTypeOK'
  BY <1>1 DEF RegInv, RegTypeOK
<1>3. \A h \in Goroutines :
        /\ Holds(h)' => h # g /\ Holds(h)
        /\ where'[h] = "name" <=> where[h] = "name"
        /\ h # g => asking'[h] = asking[h] /\ where'[h] = where[h]
  BY <1>1 DEF RegInv, RegTypeOK, Holds
<1>4. NumbersOK'
  BY <1>1, <1>3 DEF RegInv, NumbersOK
<1> QED BY <1>2, <1>4 DEF RegInv

LEMMA DrawIdKeeps ==
  ASSUME RegInv, NEW g \in Goroutines, DrawId(g)
  PROVE  RegInv'
<1> PICK l : l = IF newID'[g] >= MaxComponents THEN "panicked" ELSE "store"
  OBVIOUS
<1>1. /\ where[g] = "draw" /\ nextID' = nextID + 1 /\ newID' = [newID EXCEPT ![g] = Truncated(nextID)]
      /\ where' = [where EXCEPT ![g] = l]
      /\ typeIds' = typeIds /\ typesArr' = typesArr /\ asking' = asking
  BY DEF DrawId, RegGoto
<1>2. /\ nextID \in Nat /\ nextID' \in Nat /\ newID'[g] = Truncated(nextID)
      /\ newID'[g] \in ComponentID /\ (nextID < MaxComponents => newID'[g] = nextID)
  BY <1>1, WidthIs DEF RegInv, RegTypeOK
<1>3. RegTypeOK'
  <2>1. l \in {"panicked", "store"} /\ (l = "store" => newID'[g] \in 0 .. MaxComponents - 1)
    BY <1>2, WidthIs
  <2>2. newID' \in [Goroutines -> ComponentID \cup {NoId}]
    BY <1>1, <1>2 DEF RegInv, RegTypeOK
  <2>3. where' \in [Goroutines -> {"idle", "draw", "store", "name", "panicked"}]
    BY <1>1, <2>1 DEF RegInv, RegTypeOK
  <2>4. \A h \in Goroutines :
       /\ where'[h] # "idle" => asking'[h] \in CompTypes
       /\ where'[h] \in {"store", "name"} => newID'[h] \in 0 .. MaxComponents - 1
    BY <1>1, <2>1 DEF RegInv, RegTypeOK
  <2> QED BY <1>1, <1>2, <2>2, <2>3, <2>4 DEF RegInv, RegTypeOK
<1>4. \A h \in Goroutines :
        /\ where'[h] = "name" <=> where[h] = "name"
        /\ h # g => where'[h] = where[h] /\ newID'[h] = newID[h]
  BY <1>1 DEF RegInv, RegTypeOK
<1>5. NumbersOK'
  <2> SUFFICES ASSUME nextID' <= MaxComponents PROVE NumbersOK'
    BY DEF NumbersOK
  <2>1. nextID < MaxComponents /\ nextID <= MaxComponents /\ newID'[g] = nextID
    BY <1>1, <1>2, WidthIs
  <2>2. \A h \in Goroutines : Holds(h)' => h = g \/ (Holds(h) /\ newID'[h] = newID[h])
    BY <1>4 DEF Holds
  <2>3. \A h \in Goroutines : Holds(h)' /\ h # g => newID[h] \in Nat /\ newID[h] < nextID
    BY <2>1, <2>2, WidthIs DEF RegInv, RegTypeOK, NumbersOK, Holds
  <2>4. \A t \in CompTypes : typeIds[t] # NoId => typeIds[t] \in Nat /\ typeIds[t] < nextID
    BY <2>1, WidthIs DEF RegInv, RegTypeOK, NumbersOK
  <2>5. \A h \in Goroutines : Holds(h)' => newID'[h] < nextID'
    BY <1>1, <1>2, <2>1, <2>2, <2>3
  <2>6. \A h, k \in Goroutines : Holds(h)' /\ Holds(k)' /\ newID'[h] = newID'[k] => h = k
    <3>1. \A h \in Goroutines : Holds(h)' /\ h # g => newID'[h] # nextID
      BY <1>2, <2>2, <2>3
    <3> QED BY <2>1, <2>2, <3>1 DEF RegInv, NumbersOK
  <2>7. \A t \in CompTypes, h \in Goroutines :
          typeIds[t] # NoId /\ Holds(h)' /\ newID'[h] = typeIds[t] => where[h] = "name" /\ asking[h] = t
    <3>1. \A t \in CompTypes : typeIds[t] # NoId => typeIds[t] # nextID
      BY <1>2, <2>4
    <3> QED BY <2>1, <2>2, <3>1 DEF RegInv, NumbersOK
  <2>8. \A h \in Goroutines : where'[h] = "name" => h # g /\ newID'[h] = newID[h]
    BY <1>1, <1>4
  <2>9. \A t \in CompTypes : typeIds[t] # NoId => typeIds[t] < nextID'
    BY <1>1, <1>2, <2>4
  <2> QED BY <1>1, <1>4, <2>1, <2>5, <2>6, <2>7, <2>8, <2>9 DEF RegInv, NumbersOK
<1> QED BY <1>3, <1>5 DEF RegInv

LEMMA LoadOrStoreKeeps ==
  ASSUME RegInv, NEW g \in Goroutines, LoadOrStore(g)
  PROVE  RegInv'
<1> PICK t : t = asking[g]
  OBVIOUS
<1>1. /\ where[g] = "store" /\ Holds(g) /\ t \in CompTypes /\ newID[g] \in 0 .. MaxComponents - 1
      /\ newID[g] \in ComponentID /\ newID[g] # NoId
      /\ typesArr' = typesArr /\ asking' = asking /\ newID' = newID
  BY WidthIs DEF RegInv, RegTypeOK, LoadOrStore, Holds
<1>2. CASE First(t)
  <2>1. /\ typeIds' = [typeIds EXCEPT ![t] = newID[g]] /\ where' = [where EXCEPT ![g] = "name"]
        /\ nextID' = nextID /\ typeIds[t] = NoId
    BY <1>2 DEF LoadOrStore, RegGoto, First
  <2>2. RegTypeOK'
    BY <1>1, <2>1 DEF RegInv, RegTypeOK
  <2>3. /\ \A u \in CompTypes : u # t => typeIds'[u] = typeIds[u]
        /\ typeIds'[t] = newID[g] /\ where'[g] = "name"
        /\ \A h \in Goroutines : h # g => where'[h] = where[h]
        /\ \A h \in Goroutines : Holds(h)' <=> Holds(h)
    BY <1>1, <2>1 DEF RegInv, RegTypeOK, Holds
  <2>4. NumbersOK'
    <3> SUFFICES ASSUME nextID <= MaxComponents PROVE NumbersOK'
      BY <2>1 DEF NumbersOK
    <3>1. \A u \in CompTypes : typeIds[u] # NoId => typeIds[u] # newID[g]
      BY <1>1 DEF RegInv, NumbersOK
    <3>2. \A h \in Goroutines : h # g /\ Holds(h) => newID[h] # newID[g]
      BY <1>1 DEF RegInv, NumbersOK
    <3>3. \A h \in Goroutines : where[h] = "name" => asking[h] \in CompTypes /\ asking[h] # t
      <4>1. \A h \in Goroutines : where[h] = "name" => newID[h] # NoId /\ asking[h] \in CompTypes
        BY WidthIs DEF RegInv, RegTypeOK
      <4> QED BY <2>1, <4>1 DEF RegInv, NumbersOK
    <3>4. \A h \in Goroutines : Holds(h)' => newID'[h] < nextID'
      BY <1>1, <2>1, <2>3 DEF RegInv, NumbersOK
    <3>5. \A h, k \in Goroutines : Holds(h)' /\ Holds(k)' /\ newID'[h] = newID'[k] => h = k
      BY <1>1, <2>3 DEF RegInv, NumbersOK
    <3>6. \A u \in CompTypes : typeIds'[u] # NoId => typeIds'[u] < nextID'
      BY <1>1, <2>1, <2>3 DEF RegInv, NumbersOK
    <3>7. \A u, v \in CompTypes : typeIds'[u] # NoId /\ typeIds'[u] = typeIds'[v] => u = v
      BY <1>1, <2>3, <3>1 DEF RegInv, NumbersOK
    <3>8. \A u \in CompTypes, h \in Goroutines :
            typeIds'[u] # NoId /\ Holds(h)' /\ newID'[h] = typeIds'[u] => where'[h] = "name" /\ asking'[h] = u
      BY <1>1, <2>3, <3>1, <3>2 DEF RegInv, NumbersOK
    <3>9. \A h \in Goroutines : where'[h] = "name" => typeIds'[asking'[h]] = newID'[h]
      BY <1>1, <2>3, <3>3 DEF RegInv, NumbersOK
    <3>10. \A u \in CompTypes : typeIds'[u] # NoId =>
             \/ typesArr'[typeIds'[u]] = u
             \/ \E h \in Goroutines : where'[h] = "name" /\ asking'[h] = u /\ newID'[h] = typeIds'[u]
      BY <1>1, <2>3 DEF RegInv, NumbersOK
    <3> QED BY <3>4, <3>5, <3>6, <3>7, <3>8, <3>9, <3>10 DEF NumbersOK
  <2> QED BY <2>2, <2>4 DEF RegInv
<1>3. CASE ~First(t)
  <2>1. typeIds' = typeIds /\ where' = [where EXCEPT ![g] = "idle"] /\ nextID' = nextID
    BY <1>3 DEF LoadOrStore, RegGoto, Lost
  <2>2. RegTypeOK'
    BY <1>1, <2>1 DEF RegInv, RegTypeOK
  <2>3. \A h \in Goroutines :
          /\ Holds(h)' => Holds(h)
          /\ where'[h] = "name" <=> where[h] = "name"
    BY <1>1, <2>1 DEF RegInv, RegTypeOK, Holds
  <2>4. NumbersOK'
    BY <1>1, <2>1, <2>3 DEF RegInv, NumbersOK
  <2> QED BY <2>2, <2>4 DEF RegInv
<1> QED BY <1>2, <1>3

LEMMA WriteNameKeeps ==
  ASSUME RegInv, NEW g \in Goroutines, WriteName(g)
  PROVE  RegInv'
<1>1. /\ where[g] = "name" /\ Holds(g) /\ asking[g] \in CompTypes /\ newID[g] \in 0 .. MaxComponents - 1
      /\ typesArr' = [typesArr EXCEPT ![newID[g]] = asking[g]]
      /\ where' = [where EXCEPT ![g] = "idle"]
      /\ typeIds' = typeIds /\ nextID' = nextID /\ asking' = asking /\ newID' = newID
  BY DEF RegInv, RegTypeOK, WriteName, RegGoto, Holds
<1>2. RegTypeOK'
  BY <1>1 DEF RegInv, RegTypeOK
<1>3. \A h \in Goroutines :
        /\ Holds(h)' => Holds(h)
        /\ where'[h] = "name" <=> where[h] = "name" /\ h # g
        /\ Holds(h)' => h # g
  BY <1>1 DEF RegInv, RegTypeOK, Holds
<1>4. NumbersOK'
  <2> SUFFICES ASSUME nextID <= MaxComponents PROVE NumbersOK'
    BY <1>1 DEF NumbersOK
  <2>1. typesArr'[newID[g]] = asking[g] /\ typeIds[asking[g]] = newID[g]
    BY <1>1 DEF RegInv, RegTypeOK, NumbersOK
  <2>2. \A t \in CompTypes : typeIds[t] # NoId /\ typeIds[t] # newID[g] =>
          typesArr'[typeIds[t]] = typesArr[typeIds[t]]
    BY <1>1 DEF RegInv, RegTypeOK
  <2>3. \A t \in CompTypes : typeIds[t] # NoId /\ typeIds[t] = newID[g] => t = asking[g]
    BY <1>1 DEF RegInv, NumbersOK
  <2>4. \A t \in CompTypes : typeIds[t] # NoId =>
          \/ typesArr'[typeIds[t]] = t
          \/ \E h \in Goroutines : where'[h] = "name" /\ asking[h] = t /\ newID[h] = typeIds[t]
    <3> TAKE t \in CompTypes
    <3>1. CASE typeIds[t] # NoId /\ typeIds[t] = newID[g]
      BY <2>1, <2>3, <3>1
    <3>2. CASE typeIds[t] # NoId /\ typeIds[t] # newID[g]
      <4>1. \/ typesArr[typeIds[t]] = t
            \/ \E h \in Goroutines : where[h] = "name" /\ asking[h] = t /\ newID[h] = typeIds[t]
        BY <3>2 DEF RegInv, NumbersOK
      <4> QED BY <1>3, <2>2, <3>2, <4>1
    <3> QED BY <3>1, <3>2
  <2> QED BY <1>1, <1>3, <2>4 DEF RegInv, NumbersOK
<1> QED BY <1>2, <1>4 DEF RegInv

LEMMA RegNextInv == RegInv /\ [RegNext]_regVars => RegInv'
<1> SUFFICES ASSUME RegInv, [RegNext]_regVars PROVE RegInv'
  OBVIOUS
<1>1. CASE UNCHANGED regVars
  BY <1>1 DEF RegInv, RegTypeOK, NumbersOK, Holds, regVars
<1>2. CASE RegNext
  BY <1>2, RegisterKeeps, DrawIdKeeps, LoadOrStoreKeeps, WriteNameKeeps DEF RegNext
<1> QED BY <1>1, <1>2

(* Every state of the registry satisfies the invariant.                      *)
THEOREM RegInductive == RegSpec => []RegInv
<1> QED BY RegInitInv, RegNextInv, PTL DEF RegSpec

(* No two types share an ID before the limit was hit, and a type keeps its   *)
(* own for good.                                                             *)
THEOREM IdsStaySound == RegSpec => IdsSound
<1>1. RegInv => IdsApart
  BY DEF RegInv, NumbersOK, IdsApart
<1>2. RegInv /\ [RegNext]_regVars =>
        [\A t \in CompTypes : typeIds[t] # NoId => typeIds'[t] = typeIds[t]]_regVars
  <2> SUFFICES ASSUME RegInv, RegNext, NEW t \in CompTypes, typeIds[t] # NoId
               PROVE  typeIds'[t] = typeIds[t]
    OBVIOUS
  <2>1. ASSUME NEW g \in Goroutines, LoadOrStore(g) PROVE typeIds'[t] = typeIds[t]
    BY <2>1 DEF LoadOrStore, First, RegInv, RegTypeOK
  <2>2. ASSUME NEW g \in Goroutines, (\E u \in CompTypes : Register(g, u)) \/ DrawId(g) \/ WriteName(g)
        PROVE  typeIds'[t] = typeIds[t]
    BY <2>2 DEF Register, DrawId, WriteName
  <2> QED BY <2>1, <2>2 DEF RegNext
<1>3. RegInv' => IdsApart'
  BY <1>1, PTL
<1>4. RegInv /\ RegInv' /\ [RegNext]_regVars =>
        [IdsApart' /\ \A t \in CompTypes : typeIds[t] # NoId => typeIds'[t] = typeIds[t]]_regVars
  BY <1>2, <1>3
<1> QED BY <1>4, RegInductive, PTL DEF RegSpec, IdsSound

-----------------------------------------------------------------------------
(* RefSets.                                                                  *)

(* Two pointers of one number are the same pointer. This is what makes a     *)
(* comparison of numbers good enough: nil comes back after a Clear, but it   *)
(* leads to the same empty list as before.                                   *)
PointersOK ==
  /\ ids.num <= stored /\ Distinct(ids.list)
  /\ ids.num = 0 => ids = Nil
  /\ \A u \in RefUsers :
       /\ old[u].num <= stored /\ Distinct(old[u].list)
       /\ old[u].num = 0 => old[u] = Nil
       /\ old[u].num = ids.num => old[u] = ids

(* Where a user is agrees with what it was asked, and the list it will swap  *)
(* from calls for a change.                                                  *)
UsersOK ==
  \A u \in RefUsers :
    /\ at[u] = "idle" <=> asked[u] = NoCall
    /\ at[u] = "load" => asked[u].op \in {"add", "remove"}
    /\ at[u] = "swap" /\ asked[u].op \in {"add", "remove"} => ~NothingToDo(asked[u], old[u].list)

RefInv == RefTypeOK /\ PointersOK /\ UsersOK

-----------------------------------------------------------------------------
(* Lists.                                                                    *)

(* Appending an ID adds it to the set, and makes no duplicate of a new one.  *)
LEMMA AppendAdds ==
  ASSUME NEW S, NEW s \in Seq(S), NEW x \in S, Distinct(s), ~Contains(s, x)
  PROVE  Distinct(Append(s, x)) /\ IdsIn(Append(s, x)) = IdsIn(s) \cup {x}
<1>1. /\ DOMAIN s = 1 .. Len(s) /\ Len(s) \in Nat
      /\ DOMAIN Append(s, x) = 1 .. Len(s) + 1
      /\ Append(s, x)[Len(s) + 1] = x
      /\ \A i \in 1 .. Len(s) : Append(s, x)[i] = s[i]
  BY AppendIs
<1>2. \A i \in 1 .. Len(s) : s[i] # x
  BY <1>1 DEF Contains
<1>3. Distinct(Append(s, x))
  BY <1>1, <1>2 DEF Distinct
<1>4. IdsIn(Append(s, x)) = IdsIn(s) \cup {x}
  BY <1>1 DEF IdsIn
<1> QED BY <1>3, <1>4

(* Taking out the first x of a list without duplicates takes out x.          *)
LEMMA WithoutRemoves ==
  ASSUME NEW S, NEW s \in Seq(S), NEW x \in S, Distinct(s), Contains(s, x)
  PROVE  /\ Without(s, x) \in Seq(S) /\ Distinct(Without(s, x))
         /\ IdsIn(Without(s, x)) = IdsIn(s) \ {x}
<1>1. DOMAIN s = 1 .. Len(s) /\ Len(s) \in Nat /\ \A i \in 1 .. Len(s) : s[i] \in S
  OBVIOUS
<1>2. PICK f \in 1 .. Len(s) : s[f] = x
  BY <1>1 DEF Contains
<1>3. \A i \in 1 .. Len(s) : s[i] = x => i = f
  BY <1>1, <1>2 DEF Distinct
<1>4. FirstAt(s, x) = f
  BY <1>1, <1>2, <1>3 DEF FirstAt
<1> DEFINE t == Without(s, x)
<1>5. t = [j \in 1 .. Len(s) - 1 |-> IF j < f THEN s[j] ELSE s[j + 1]]
  BY <1>4 DEF Without
<1> HIDE DEF t
<1>6. Len(s) - 1 \in Nat /\ \A j \in 1 .. Len(s) - 1 : j \in 1 .. Len(s) /\ j + 1 \in 1 .. Len(s)
  BY <1>1, <1>2
<1>7. \A j \in 1 .. Len(s) - 1 : t[j] = IF j < f THEN s[j] ELSE s[j + 1]
  BY <1>5
<1>8. t \in Seq(S) /\ DOMAIN t = 1 .. Len(s) - 1
  BY <1>1, <1>5, <1>6
<1>9. Distinct(t)
  <2>0. SUFFICES ASSUME NEW i \in 1 .. Len(s) - 1, NEW j \in 1 .. Len(s) - 1, t[i] = t[j]
                 PROVE  i = j
    BY <1>8 DEF Distinct
  <2> DEFINE from(n) == IF n < f THEN n ELSE n + 1
  <2>1. t[i] = s[from(i)] /\ t[j] = s[from(j)]
    BY <1>7
  <2>2. from(i) \in 1 .. Len(s) /\ from(j) \in 1 .. Len(s)
    BY <1>6
  <2>3. from(i) = from(j)
    <3> HIDE DEF from
    <3> QED BY <1>1, <2>0, <2>1, <2>2 DEF Distinct
  <2> QED BY <1>1, <1>2, <2>3
<1>10. IdsIn(t) \subseteq IdsIn(s) \ {x}
  <2> SUFFICES ASSUME NEW j \in 1 .. Len(s) - 1 PROVE t[j] \in IdsIn(s) /\ t[j] # x
    BY <1>8 DEF IdsIn
  <2>1. CASE j < f
    <3>1. t[j] = s[j] /\ j \in 1 .. Len(s) /\ j # f
      BY <2>1, <1>1, <1>2, <1>6, <1>7
    <3> QED BY <3>1, <1>1, <1>3 DEF IdsIn
  <2>2. CASE ~(j < f)
    <3>1. t[j] = s[j + 1] /\ j + 1 \in 1 .. Len(s) /\ j + 1 # f
      BY <2>2, <1>1, <1>2, <1>6, <1>7
    <3> QED BY <3>1, <1>1, <1>3 DEF IdsIn
  <2> QED BY <2>1, <2>2
<1>11. IdsIn(s) \ {x} \subseteq IdsIn(t)
  <2> SUFFICES ASSUME NEW i \in 1 .. Len(s), s[i] # x PROVE s[i] \in IdsIn(t)
    BY <1>1 DEF IdsIn
  <2>1. CASE i < f
    BY <2>1, <1>1, <1>2, <1>7, <1>8 DEF IdsIn
  <2>2. CASE i > f
    <3>1. i - 1 \in 1 .. Len(s) - 1 /\ t[i - 1] = s[i]
      BY <2>2, <1>1, <1>2, <1>7
    <3> QED BY <3>1, <1>8 DEF IdsIn
  <2> QED BY <2>1, <2>2, <1>1, <1>2
<1> QED BY <1>8, <1>9, <1>10, <1>11 DEF t

(* What the abstract set becomes, call by call.                              *)
LEMMA AfterIs ==
  ASSUME NEW c, NEW m
  PROVE  /\ c.op = "add" => AtomicSet!After(c, m) = m \cup {c.id}
         /\ c.op = "remove" => AtomicSet!After(c, m) = m \ {c.id}
         /\ c.op = "set" => AtomicSet!After(c, m) = IdsIn(c.ids)
         /\ c.op = "clear" => AtomicSet!After(c, m) = {}
<1>1. "add" # "remove" /\ "add" # "set" /\ "add" # "clear" /\ "remove" # "set"
        /\ "remove" # "clear" /\ "set" # "clear"
  OBVIOUS
<1> QED BY <1>1, Zenon DEF AtomicSet!After, IdsIn

(* The same of the list a swap stores.                                       *)
LEMMA NewListIs ==
  ASSUME NEW s \in Seq(RefIds), Distinct(s),
         NEW c \in [op : {"add", "remove"}, id : RefIds], ~NothingToDo(c, s)
  PROVE  /\ NewList(c, s) \in Seq(RefIds) /\ Distinct(NewList(c, s))
         /\ IdsIn(NewList(c, s)) = AtomicSet!After(c, IdsIn(s))
<1>1. CASE c.op = "add"
  <2>1. ~Contains(s, c.id) /\ c.id \in RefIds
    BY <1>1 DEF NothingToDo
  <2>2. NewList(c, s) = Append(s, c.id) /\ AtomicSet!After(c, IdsIn(s)) = IdsIn(s) \cup {c.id}
    BY <1>1, AfterIs DEF NewList
  <2>3. Append(s, c.id) \in Seq(RefIds)
    BY <2>1
  <2> QED BY <2>1, <2>2, <2>3, AppendAdds
<1>2. CASE c.op = "remove"
  <2>1. Contains(s, c.id) /\ c.id \in RefIds
    BY <1>2 DEF NothingToDo
  <2>2. NewList(c, s) = Without(s, c.id) /\ AtomicSet!After(c, IdsIn(s)) = IdsIn(s) \ {c.id}
    BY <1>2, AfterIs DEF NewList
  <2> QED BY <2>1, <2>2, WithoutRemoves
<1> QED BY <1>1, <1>2

(* What needs no change has been done.                                       *)
LEMMA NothingToDoIs ==
  ASSUME NEW s, NEW c \in [op : {"add", "remove"}, id : RefIds], NothingToDo(c, s)
  PROVE  AtomicSet!After(c, IdsIn(s)) = IdsIn(s)
<1>1. CASE c.op = "add"
  BY <1>1, AfterIs DEF NothingToDo, IdsIn, Contains
<1>2. CASE c.op = "remove"
  BY <1>2, AfterIs DEF NothingToDo, IdsIn, Contains
<1> QED BY <1>1, <1>2

LEMMA CallsAre ==
  ASSUME NEW c \in Calls
  PROVE  /\ c # NoCall
         /\ c.op \in {"add", "remove", "set", "clear"}
         /\ c.op \in {"add", "remove"} => c \in [op : {"add", "remove"}, id : RefIds]
         /\ c.op = "set" => c.ids \in RefLists /\ c.ids \in Seq(RefIds) /\ Distinct(c.ids)
  BY NoCallAssumption, RefListsAssumption DEF Calls

-----------------------------------------------------------------------------
(* The invariant.                                                            *)

LEMMA RefInitInv == RefInit => RefInv
  BY DEF RefInit, RefInv, RefTypeOK, PointersOK, UsersOK, Nil, Distinct

LEMMA CallRefKeeps ==
  ASSUME RefInv, NEW u \in RefUsers, NEW c \in Calls, CallRef(u, c)
  PROVE  RefInv'
<1>1. RefTypeOK'
  BY DEF RefInv, RefTypeOK, CallRef
<1>2. PointersOK'
  BY DEF RefInv, PointersOK, CallRef
<1>3. UsersOK'
  BY CallsAre DEF RefInv, RefTypeOK, UsersOK, CallRef
<1> QED BY <1>1, <1>2, <1>3 DEF RefInv

(* A list that is stored gets a number no pointer loaded before has.         *)
LEMMA StoreKeeps ==
  ASSUME RefTypeOK, PointersOK, NEW s \in Seq(RefIds), Distinct(s), Store(s), old' = old
  PROVE  /\ PointersOK' /\ ids'.list = s
         /\ ids' \in [num : Nat, list : Seq(RefIds)] /\ stored' \in Nat
<1>1. stored \in Nat /\ stored' = stored + 1 /\ ids' = [num |-> stored + 1, list |-> s]
  BY DEF RefTypeOK, Store
<1>2. \A u \in RefUsers : old[u].num \in Nat /\ old[u].num <= stored
  BY DEF RefTypeOK, PointersOK
<1>3. ids'.num = stored + 1 /\ ids'.list = s
  BY <1>1
<1>4. PointersOK'
  BY <1>1, <1>2, <1>3 DEF PointersOK
<1> QED BY <1>1, <1>3, <1>4

LEMMA ReturnKeeps ==
  ASSUME RefInv, NEW u \in RefUsers, at[u] # "idle", Return(u), old' = old
  PROVE  /\ asked' \in [RefUsers -> Calls \cup {NoCall}]
         /\ at' \in [RefUsers -> {"idle", "load", "swap"}]
         /\ UsersOK'
  BY DEF RefInv, RefTypeOK, UsersOK, Return

LEMMA StoreRefKeeps ==
  ASSUME RefInv, NEW u \in RefUsers, StoreRef(u)
  PROVE  RefInv'
<1>1. asked[u] \in Calls /\ asked[u].op = "set" /\ at[u] # "idle"
  BY DEF RefInv, RefTypeOK, UsersOK, StoreRef
<1>2. asked[u].ids \in Seq(RefIds) /\ Distinct(asked[u].ids)
  BY <1>1, CallsAre
<1>3. Store(asked[u].ids) /\ Return(u) /\ old' = old
  BY DEF StoreRef
<1> QED BY <1>1, <1>2, <1>3, StoreKeeps, ReturnKeeps DEF RefInv, RefTypeOK

LEMMA ClearRefKeeps ==
  ASSUME RefInv, NEW u \in RefUsers, ClearRef(u)
  PROVE  RefInv'
<1>1. at[u] # "idle" /\ Return(u) /\ old' = old /\ stored' = stored /\ ids' = Nil
  BY DEF ClearRef
<1>2. Nil \in [num : Nat, list : Seq(RefIds)] /\ Distinct(Nil.list) /\ Nil.num = 0
  BY DEF Nil, Distinct
<1>3. PointersOK'
  BY <1>1, <1>2 DEF RefInv, RefTypeOK, PointersOK
<1> QED BY <1>1, <1>2, <1>3, ReturnKeeps DEF RefInv, RefTypeOK

LEMMA LoadKeeps ==
  ASSUME RefInv, NEW u \in RefUsers, Load(u)
  PROVE  RefInv'
<1>1. CASE NothingToDo(asked[u], ids.list)
  <2>1. at[u] # "idle" /\ Return(u) /\ old' = old /\ ids' = ids /\ stored' = stored
    BY <1>1 DEF Load
  <2> QED BY <2>1, ReturnKeeps DEF RefInv, RefTypeOK, PointersOK
<1>2. CASE ~NothingToDo(asked[u], ids.list)
  <2>1. /\ at[u] = "load" /\ old' = [old EXCEPT ![u] = ids]
        /\ at' = [at EXCEPT ![u] = "swap"]
        /\ asked' = asked /\ ids' = ids /\ stored' = stored
    BY <1>2 DEF Load
  <2>2. RefTypeOK'
    BY <2>1 DEF RefInv, RefTypeOK
  <2>3. PointersOK'
    BY <2>1 DEF RefInv, RefTypeOK, PointersOK
  <2>4. UsersOK'
    BY <2>1, <1>2 DEF RefInv, RefTypeOK, UsersOK
  <2> QED BY <2>2, <2>3, <2>4 DEF RefInv
<1> QED BY <1>1, <1>2

(* What a swap that succeeds does to the set: the list it was made from is   *)
(* the one that is there.                                                    *)
LEMMA SwapIs ==
  ASSUME RefInv, NEW u \in RefUsers, CompareAndSwap(u), StillThere(u)
  PROVE  /\ asked[u] \in Calls /\ at[u] # "idle" /\ Return(u) /\ old' = old
         /\ Store(NewList(asked[u], ids.list))
         /\ NewList(asked[u], ids.list) \in Seq(RefIds) /\ Distinct(NewList(asked[u], ids.list))
         /\ IdsIn(NewList(asked[u], ids.list)) = AtomicSet!After(asked[u], IdsIn(ids.list))
<1>1. /\ at[u] = "swap" /\ asked[u].op \in {"add", "remove"} /\ Return(u) /\ old' = old
      /\ Store(NewList(asked[u], old[u].list))
  BY DEF CompareAndSwap
<1>2. asked[u] \in Calls /\ asked[u] \in [op : {"add", "remove"}, id : RefIds]
  BY <1>1, CallsAre DEF RefInv, RefTypeOK, UsersOK
<1>3. old[u] = ids
  BY DEF RefInv, PointersOK, StillThere
<1>4. ids.list \in Seq(RefIds) /\ Distinct(ids.list) /\ ~NothingToDo(asked[u], ids.list)
  BY <1>1, <1>3 DEF RefInv, RefTypeOK, PointersOK, UsersOK
<1> QED BY <1>1, <1>2, <1>3, <1>4, NewListIs

LEMMA SwapKeeps ==
  ASSUME RefInv, NEW u \in RefUsers, CompareAndSwap(u)
  PROVE  RefInv'
<1>1. CASE StillThere(u)
  <2>1. PointersOK' /\ ids' \in [num : Nat, list : Seq(RefIds)] /\ stored' \in Nat
    BY <1>1, SwapIs, StoreKeeps DEF RefInv
  <2> QED BY <1>1, <2>1, SwapIs, ReturnKeeps DEF RefInv, RefTypeOK
<1>2. CASE ~StillThere(u)
  <2>1. /\ asked[u].op \in {"add", "remove"} /\ at[u] = "swap"
        /\ at' = [at EXCEPT ![u] = "load"] /\ UNCHANGED <<ids, stored, asked, old>>
    BY <1>2 DEF CompareAndSwap
  <2> QED BY <2>1 DEF RefInv, RefTypeOK, PointersOK, UsersOK
<1> QED BY <1>1, <1>2

LEMMA RefNextInv == RefInv /\ [RefNext]_refVars => RefInv'
<1> SUFFICES ASSUME RefInv, [RefNext]_refVars PROVE RefInv'
  OBVIOUS
<1>1. ASSUME NEW u \in RefUsers, NEW c \in Calls, CallRef(u, c) PROVE RefInv'
  BY <1>1, CallRefKeeps
<1>2. ASSUME NEW u \in RefUsers, StoreRef(u) PROVE RefInv'
  BY <1>2, StoreRefKeeps
<1>3. ASSUME NEW u \in RefUsers, ClearRef(u) PROVE RefInv'
  BY <1>3, ClearRefKeeps
<1>4. ASSUME NEW u \in RefUsers, Load(u) PROVE RefInv'
  BY <1>4, LoadKeeps
<1>5. ASSUME NEW u \in RefUsers, CompareAndSwap(u) PROVE RefInv'
  BY <1>5, SwapKeeps
<1>6. CASE UNCHANGED refVars
  BY <1>6 DEF refVars, RefInv, RefTypeOK, PointersOK, UsersOK
<1> QED BY <1>1, <1>2, <1>3, <1>4, <1>5, <1>6 DEF RefNext

(* Every state of RefSets satisfies the invariant.                           *)
THEOREM RefInductive == RefSpec => []RefInv
<1> QED BY RefInitInv, RefNextInv, PTL DEF RefSpec

(* Every state is type correct.                                              *)
THEOREM RefTypes == RefSpec => []RefTypeOK
<1>1. RefInv => RefTypeOK
  BY DEF RefInv
<1> QED BY <1>1, RefInductive, PTL

(* No set ever holds an ID twice, so that Remove leaves none of it.          *)
THEOREM NeverTwice == RefSpec => []NoDuplicates
<1>1. RefInv => NoDuplicates
  BY DEF RefInv, PointersOK, NoDuplicates
<1> QED BY <1>1, RefInductive, PTL

-----------------------------------------------------------------------------
(* The refinement.                                                           *)

LEMMA InitImplements == RefInit => AtomicSet!Init
  BY DEF RefInit, AtomicSet!Init, Nil, IdsIn

(* Every step is one of the set, or changes neither the set nor the calls.   *)
LEMMA StepImplements ==
  ASSUME RefInv, [RefNext]_refVars
  PROVE  [AtomicSet!Next]_<<IdsIn(ids.list), asked>>
<1>1. ASSUME NEW u \in RefUsers, NEW c \in Calls, CallRef(u, c) PROVE AtomicSet!Next
  <2>1. asked[u] = NoCall /\ asked' = [asked EXCEPT ![u] = c] /\ ids' = ids
    BY <1>1 DEF CallRef, RefInv, UsersOK
  <2>2. AtomicSet!Begin(u, c)
    BY <2>1 DEF AtomicSet!Begin
  <2> QED BY <2>2 DEF AtomicSet!Next, AtomicSet!Calls, Calls
<1>2. ASSUME NEW u \in RefUsers, at[u] # "idle", Return(u),
             IdsIn(ids.list)' = AtomicSet!After(asked[u], IdsIn(ids.list))
      PROVE  AtomicSet!Next
  <2>1. asked[u] # NoCall
    BY <1>2 DEF RefInv, UsersOK
  <2>2. AtomicSet!Perform(u)
    BY <2>1, <1>2 DEF AtomicSet!Perform, Return
  <2> QED BY <2>2 DEF AtomicSet!Next
<1>3. ASSUME NEW u \in RefUsers, StoreRef(u) PROVE AtomicSet!Next
  <2>1. at[u] # "idle" /\ Return(u) /\ asked[u].op = "set" /\ ids'.list = asked[u].ids
    BY <1>3 DEF StoreRef, Store
  <2> QED BY <2>1, <1>2, AfterIs
<1>4. ASSUME NEW u \in RefUsers, ClearRef(u) PROVE AtomicSet!Next
  <2>1. at[u] # "idle" /\ Return(u) /\ asked[u].op = "clear" /\ IdsIn(ids.list)' = {}
    BY <1>4 DEF ClearRef, Nil, IdsIn
  <2> QED BY <2>1, <1>2, AfterIs
<1>5. ASSUME NEW u \in RefUsers, Load(u)
      PROVE  AtomicSet!Next \/ UNCHANGED <<IdsIn(ids.list), asked>>
  <2>1. CASE NothingToDo(asked[u], ids.list)
    <3>1. asked[u] \in [op : {"add", "remove"}, id : RefIds]
      BY <1>5, CallsAre DEF RefInv, RefTypeOK, UsersOK, Load
    <3>2. at[u] # "idle" /\ Return(u) /\ IdsIn(ids.list)' = IdsIn(ids.list)
      BY <1>5, <2>1 DEF Load, IdsIn
    <3> QED BY <2>1, <3>1, <3>2, <1>2, NothingToDoIs
  <2>2. CASE ~NothingToDo(asked[u], ids.list)
    BY <1>5, <2>2 DEF Load, IdsIn
  <2> QED BY <2>1, <2>2
<1>6. ASSUME NEW u \in RefUsers, CompareAndSwap(u)
      PROVE  AtomicSet!Next \/ UNCHANGED <<IdsIn(ids.list), asked>>
  <2>1. CASE StillThere(u)
    <3>1. ids'.list = NewList(asked[u], ids.list)
      BY <1>6, <2>1, SwapIs DEF Store
    <3> QED BY <1>6, <2>1, <3>1, <1>2, SwapIs
  <2>2. CASE ~StillThere(u)
    BY <1>6, <2>2 DEF CompareAndSwap, IdsIn
  <2> QED BY <2>1, <2>2
<1>7. CASE UNCHANGED refVars
  BY <1>7 DEF refVars, IdsIn
<1> QED BY <1>1, <1>3, <1>4, <1>5, <1>6, <1>7 DEF RefNext

(* The compare-and-swap loops implement the set on which each call has its   *)
(* effect at one moment.                                                     *)
THEOREM Implements == RefSpec => SetImplemented
<1>1. RefInv /\ [RefNext]_refVars => [AtomicSet!Next]_<<IdsIn(ids.list), asked>>
  BY StepImplements
<1> QED BY <1>1, InitImplements, RefInductive, PTL DEF RefSpec, SetImplemented, AtomicSet!Spec

-----------------------------------------------------------------------------
(* TaskHeap.                                                                 *)

(* A set of numbers has a least one.                                         *)
Smaller == {xy \in Nat \X Nat : xy[1] < xy[2]}

LEMMA LeastNumber ==
  ASSUME NEW S \in SUBSET Nat, S # {}
  PROVE  \E x \in S : \A y \in S : x <= y
<1>1. IsWellFoundedOn(Smaller, Nat)
  BY NatLessThanWellFounded DEF OpToRel, Smaller
<1>2. PICK x \in S : \A y \in S : <<y, x>> \notin Smaller
  BY <1>1, WFMin
<1>3. \A y \in S : ~(y < x)
  BY <1>2 DEF Smaller
<1> QED BY <1>3

Items == [task : Nat, at : Int]

(* The heap is being rebuilt.                                                *)
Rebuilding == doing \in {"keep", "rebuild"} \/ (doing = "down" /\ hand = {})

HeapTyped ==
  /\ heap \in Seq(Items) /\ kept \in Seq(Items) /\ hand \in SUBSET Items
  /\ off \subseteq 1 .. pushed /\ pushed \in Nat /\ root \in Nat /\ pos \in Nat /\ popTime \in Int \cup {NoPop}
  /\ doing \in {"free", "append", "up", "keep", "rebuild", "down", "pop", "check"}

(* Whose the lock is.                                                        *)
HolderOK ==
  /\ popTime = NoPop => doing \notin {"pop", "check"} /\ hand = {} /\ due = <<>>
  /\ popTime # NoPop => doing \notin {"free", "append", "up"}
  /\ popTime = NoPop /\ (Rebuilding \/ doing = "append") => coming \in HeapTimes
  /\ hand # {} => doing \in {"down", "check"} /\ root = 0
  /\ doing \notin {"rebuild", "down"} => root = 0

(* A task is there once, in the heap or in the hand of PopDue.               *)
OncePushed ==
  /\ \A i \in 1 .. Len(heap) : heap[i].task <= pushed
  /\ \A i, j \in 1 .. Len(heap) : i # j => heap[i].task # heap[j].task
  /\ \A x \in hand : x.task <= pushed /\ \A i \in 1 .. Len(heap) : heap[i].task # x.task
  /\ \A x, y \in hand : x = y

(* What compactHeap has written is what it has read, but for cancelled tasks *)
(* some of which may have been cancelled since.                              *)
WrittenOK ==
  /\ doing # "keep" => kept = <<>>
  /\ doing = "keep" =>
       /\ pos \in 1 .. Len(heap) + 1
       /\ \A a \in 1 .. Len(kept) : \E k \in 1 .. pos - 1 : kept[a] = heap[k]
       /\ \A k \in 1 .. pos - 1 : heap[k].task \notin off => \E a \in 1 .. Len(kept) : kept[a] = heap[k]
       /\ \A a, b \in 1 .. Len(kept) : a # b => kept[a].task # kept[b].task

(* Parents from lo on come before their children; but for the parent, or the *)
(* child, that is on its way.                                                *)
Before(h, lo) == \A k \in 2 .. Len(h) : k \div 2 >= lo => h[k \div 2].at <= h[k].at

BeforeBut(h, i) ==
  \A k \in 2 .. Len(h) :
    /\ k # i => h[k \div 2].at <= h[k].at
    /\ k \div 2 = i /\ i > 1 => h[i \div 2].at <= h[k].at

BeforeUnder(h, i, lo) ==
  \A k \in 2 .. Len(h) :
    /\ k \div 2 >= lo /\ k \div 2 # i => h[k \div 2].at <= h[k].at
    /\ k \div 2 = i /\ i \div 2 >= lo => h[i \div 2].at <= h[k].at

SortedOK ==
  /\ doing \in {"free", "append", "pop", "check"} => Before(heap, 1)
  /\ doing = "rebuild" => Before(heap, root + 1)
  /\ doing = "up" => pos \in 1 .. Len(heap) /\ BeforeBut(heap, pos)
  /\ doing = "down" => pos >= 1 /\ BeforeUnder(heap, pos, root + 1)

(* What was popped is the earliest; what is rebuilt for PopDue is not due.   *)
EarliestOK ==
  /\ \A x \in hand : x.at <= popTime /\ \A i \in 1 .. Len(heap) : x.at <= heap[i].at
  /\ popTime # NoPop /\ Rebuilding => \A i \in 1 .. Len(heap) : heap[i].at > popTime

HeapInv == HeapTyped /\ HolderOK /\ OncePushed /\ WrittenOK /\ SortedOK /\ EarliestOK

(* What is in a list of tasks.                                               *)
LEMMA ItemsAre ==
  ASSUME NEW h \in Seq(Items)
  PROVE  /\ Len(h) \in Nat /\ DOMAIN h = 1 .. Len(h)
         /\ \A k \in 1 .. Len(h) : h[k] \in Items /\ h[k].at \in Int /\ h[k].task \in Nat
<1>1. \A k \in 1 .. Len(h) : h[k] \in Items
  OBVIOUS
<1>2. \A x \in Items : x.at \in Int /\ x.task \in Nat
  BY DEF Items
<1> QED BY <1>1, <1>2

(* The first of a heap is the earliest.                                      *)
LEMMA TopIsEarliest ==
  ASSUME NEW h \in Seq(Items), Before(h, 1), NEW k \in 1 .. Len(h)
  PROVE  h[1].at <= h[k].at
<1>1. Len(h) \in Nat /\ \A i \in 1 .. Len(h) : h[i].at \in Int
  BY ItemsAre
<1> DEFINE S == {i \in 1 .. Len(h) : h[i].at < h[1].at}
<1>2. SUFFICES ASSUME S # {} PROVE FALSE
  BY <1>1
<1>3. PICK m \in S : \A y \in S : m <= y
  <2>1. S \in SUBSET Nat
    BY <1>1
  <2> HIDE DEF S
  <2> QED BY <1>2, <2>1, LeastNumber
<1>4. m \in 2 .. Len(h)
  BY <1>1
<1>5. m \div 2 \in 1 .. Len(h) /\ m \div 2 < m
  BY <1>1, <1>4
<1>6. h[m \div 2].at <= h[m].at
  BY <1>4, <1>5 DEF Before
<1>7. h[m \div 2].at < h[1].at
  BY <1>1, <1>4, <1>5, <1>6
<1> QED BY <1>3, <1>5, <1>7

(* The same tasks in another order.                                          *)
Shuffled(h, g) ==
  /\ g \in Seq(Items) /\ Len(g) = Len(h)
  /\ \A k \in 1 .. Len(h) : \E m \in 1 .. Len(h) : g[k] = h[m]
  /\ \A k \in 1 .. Len(h) : \E m \in 1 .. Len(h) : h[k] = g[m]
  /\ (\A i, j \in 1 .. Len(h) : i # j => h[i].task # h[j].task)
       => \A i, j \in 1 .. Len(h) : i # j => g[i].task # g[j].task

LEMMA SwapShuffles ==
  ASSUME NEW h \in Seq(Items), NEW i \in 1 .. Len(h), NEW j \in 1 .. Len(h)
  PROVE  /\ Shuffled(h, Swapped(h, i, j))
         /\ Swapped(h, i, j)[i] = h[j] /\ Swapped(h, i, j)[j] = h[i]
         /\ \A k \in 1 .. Len(h) : k \notin {i, j} => Swapped(h, i, j)[k] = h[k]
<1> DEFINE g == Swapped(h, i, j)
<1>1. g \in Seq(Items) /\ Len(g) = Len(h)
  BY DEF Swapped
<1>2. g[i] = h[j] /\ g[j] = h[i] /\ \A k \in 1 .. Len(h) : k \notin {i, j} => g[k] = h[k]
  BY DEF Swapped
<1> HIDE DEF g
<1>3. \A k \in 1 .. Len(h) : (\E m \in 1 .. Len(h) : g[k] = h[m]) /\ \E m \in 1 .. Len(h) : h[k] = g[m]
  BY <1>2
<1>4. (\A a, b \in 1 .. Len(h) : a # b => h[a].task # h[b].task)
        => \A a, b \in 1 .. Len(h) : a # b => g[a].task # g[b].task
  BY <1>2
<1>5. Shuffled(h, g)
  BY <1>1, <1>3, <1>4 DEF Shuffled
<1> QED BY <1>2, <1>5 DEF g

(* A task that rises, or sinks, leaves the heap in order but for itself.     *)
LEMMA RisingKeepsOrder ==
  ASSUME NEW h \in Seq(Items), NEW i \in 1 .. Len(h), BeforeBut(h, i),
         i > 1, h[i].at < h[i \div 2].at
  PROVE  /\ i \div 2 \in 1 .. Len(h)
         /\ BeforeBut(Swapped(h, i, i \div 2), i \div 2)
<1>1. Len(h) \in Nat /\ \A k \in 1 .. Len(h) : h[k].at \in Int
  BY ItemsAre
<1>2. i \div 2 \in 1 .. Len(h) /\ i \div 2 < i
  BY <1>1
<1>3. PICK p \in 1 .. Len(h) : p = i \div 2
  BY <1>2
<1>4. PICK g : g = Swapped(h, i, p)
  OBVIOUS
<1>5. /\ Len(g) = Len(h) /\ g[i] = h[p] /\ g[p] = h[i]
      /\ \A k \in 1 .. Len(h) : k \notin {i, p} => g[k] = h[k]
  <2>1. Shuffled(h, Swapped(h, i, p)) => Len(Swapped(h, i, p)) = Len(h)
    BY DEF Shuffled
  <2> QED BY <2>1, <1>4, SwapShuffles
<1>6. \A k \in 2 .. Len(h) : k \div 2 \in 1 .. Len(h) /\ k \div 2 < k
  BY <1>1
<1>7. \A k \in 2 .. Len(h) : k # i => h[k \div 2].at <= h[k].at
  BY DEF BeforeBut
<1>8. \A k \in 2 .. Len(h) : k \div 2 = i => h[p].at <= h[k].at
  BY <1>3 DEF BeforeBut
<1>9. ASSUME NEW k \in 2 .. Len(h), k # p PROVE g[k \div 2].at <= g[k].at
  <2>1. CASE k = i
    <3>1. h[i].at < h[p].at
      BY <1>3
    <3> QED BY <3>1, <2>1, <1>1, <1>3, <1>5
  <2>2. CASE k # i /\ k \div 2 = p
    <3>1. h[p].at <= h[k].at
      BY <2>2, <1>7
    <3> QED BY <3>1, <2>2, <1>9, <1>1, <1>3, <1>5
  <2>3. CASE k # i /\ k \div 2 = i
    <3>1. h[p].at <= h[k].at
      BY <2>3, <1>8
    <3> QED BY <3>1, <2>3, <1>9, <1>5
  <2>4. CASE k # i /\ k \div 2 # p /\ k \div 2 # i
    BY <2>4, <1>9, <1>5, <1>6, <1>7
  <2> QED BY <2>1, <2>2, <2>3, <2>4
<1>10. ASSUME NEW k \in 2 .. Len(h), k \div 2 = p, p > 1 PROVE g[p \div 2].at <= g[k].at
  <2>1. p \div 2 \in 1 .. Len(h) /\ p \div 2 # p /\ p \div 2 # i /\ k # p
    BY <1>1, <1>2, <1>3, <1>10
  <2>2. h[p \div 2].at <= h[p].at
    BY <1>2, <1>3, <1>7, <1>10
  <2>3. k # i => h[p].at <= h[k].at
    BY <1>7, <1>10
  <2>4. g[p \div 2] = h[p \div 2] /\ g[k] = IF k = i THEN h[p] ELSE h[k]
    BY <2>1, <1>5
  <2> QED BY <2>1, <2>2, <2>3, <2>4, <1>1
<1> QED BY <1>2, <1>3, <1>4, <1>5, <1>9, <1>10 DEF BeforeBut

LEMMA RisenIsInOrder ==
  ASSUME NEW h \in Seq(Items), NEW i \in 1 .. Len(h), BeforeBut(h, i),
         ~(i > 1 /\ h[i].at < h[i \div 2].at)
  PROVE  Before(h, 1)
<1>1. Len(h) \in Nat /\ \A k \in 1 .. Len(h) : h[k].at \in Int
  BY ItemsAre
<1>2. ASSUME NEW k \in 2 .. Len(h) PROVE h[k \div 2].at <= h[k].at
  <2>1. CASE k = i
    <3>1. i \div 2 \in 1 .. Len(h)
      BY <1>1, <2>1
    <3> QED BY <3>1, <2>1, <1>1
  <2>2. CASE k # i
    BY <2>2 DEF BeforeBut
  <2> QED BY <2>1, <2>2
<1> QED BY <1>2 DEF Before

LEMMA ChildIs ==
  ASSUME NEW h \in Seq(Items), NEW i \in Nat \ {0}, 2 * i <= Len(h)
  PROVE  /\ i \in 1 .. Len(h) /\ Child(h, i) \in 2 .. Len(h)
         /\ Child(h, i) \div 2 = i /\ Child(h, i) > i
         /\ \A k \in 2 .. Len(h) : k \div 2 = i => h[Child(h, i)].at <= h[k].at
<1>1. Len(h) \in Nat /\ \A k \in 1 .. Len(h) : h[k].at \in Int
  BY ItemsAre
<1>2. \A k \in 2 .. Len(h) : k \div 2 = i => k = 2 * i \/ k = 2 * i + 1
  BY <1>1
<1>3. (2 * i) \div 2 = i /\ (2 * i + 1) \div 2 = i
  OBVIOUS
<1>4. PICK c : c = Child(h, i)
  OBVIOUS
<1>5. CASE 2 * i + 1 <= Len(h) /\ h[2 * i + 1].at < h[2 * i].at
  <2>1. c = 2 * i + 1
    BY <1>4, <1>5 DEF Child
  <2>2. \A k \in 2 .. Len(h) : k \div 2 = i => h[c].at <= h[k].at
    BY <2>1, <1>1, <1>2, <1>5
  <2>3. i \in 1 .. Len(h) /\ c \in 2 .. Len(h)
    BY <2>1, <1>1, <1>5
  <2>4. c \div 2 = i /\ c > i
    BY <2>1, <1>3
  <2> QED BY <2>2, <2>3, <2>4, <1>4
<1>6. CASE ~(2 * i + 1 <= Len(h) /\ h[2 * i + 1].at < h[2 * i].at)
  <2>1. c = 2 * i
    BY <1>4, <1>6 DEF Child
  <2>2. \A k \in 2 .. Len(h) : k \div 2 = i => h[c].at <= h[k].at
    BY <2>1, <1>1, <1>2, <1>6
  <2>3. i \in 1 .. Len(h) /\ c \in 2 .. Len(h)
    BY <2>1, <1>1, <1>6
  <2>4. c \div 2 = i /\ c > i
    BY <2>1, <1>3
  <2> QED BY <2>2, <2>3, <2>4, <1>4
<1> QED BY <1>5, <1>6

LEMMA SinkingKeepsOrder ==
  ASSUME NEW h \in Seq(Items), NEW i \in Nat \ {0}, NEW lo \in Nat, BeforeUnder(h, i, lo),
         NEW j, j = Child(h, i), 2 * i <= Len(h), h[j].at < h[i].at
  PROVE  j \in Nat \ {0} /\ BeforeUnder(Swapped(h, i, j), j, lo)
<1>1. Len(h) \in Nat /\ \A k \in 1 .. Len(h) : h[k].at \in Int
  BY ItemsAre
<1>2. /\ i \in 1 .. Len(h) /\ j \in 2 .. Len(h) /\ j \div 2 = i /\ j > i
      /\ \A k \in 2 .. Len(h) : k \div 2 = i => h[j].at <= h[k].at
  BY ChildIs
<1>3. PICK g : g = Swapped(h, i, j)
  OBVIOUS
<1>4. /\ Len(g) = Len(h) /\ g[i] = h[j] /\ g[j] = h[i]
      /\ \A k \in 1 .. Len(h) : k \notin {i, j} => g[k] = h[k]
  <2>1. Shuffled(h, Swapped(h, i, j)) => Len(Swapped(h, i, j)) = Len(h)
    BY DEF Shuffled
  <2>2. j \in 1 .. Len(h)
    BY <1>1, <1>2
  <2>3. PICK s : s = Swapped(h, i, j)
    OBVIOUS
  <2>4. Shuffled(h, s) /\ s[i] = h[j] /\ s[j] = h[i]
    BY <2>2, <2>3, <1>2, SwapShuffles
  <2>5. \A k \in 1 .. Len(h) : k \notin {i, j} => s[k] = h[k]
    BY <2>2, <2>3, <1>2, SwapShuffles
  <2> QED BY <2>1, <2>3, <2>4, <2>5, <1>3
<1>5. \A k \in 2 .. Len(h) : k \div 2 \in 1 .. Len(h) /\ k \div 2 < k
  BY <1>1
<1>6. \A k \in 2 .. Len(h) : k \div 2 >= lo /\ k \div 2 # i => h[k \div 2].at <= h[k].at
  BY DEF BeforeUnder
<1>7. ASSUME NEW k \in 2 .. Len(h), k \div 2 >= lo, k \div 2 # j PROVE g[k \div 2].at <= g[k].at
  <2>1. CASE k = j
    BY <2>1, <1>1, <1>2, <1>4
  <2>2. CASE k # j /\ k \div 2 = i
    <3>1. h[j].at <= h[k].at /\ k # i
      BY <2>2, <1>2, <1>5
    <3> QED BY <3>1, <2>2, <1>4
  <2>3. CASE k = i
    <3>1. h[i \div 2].at <= h[j].at
      BY <2>3, <1>2, <1>7 DEF BeforeUnder
    <3>2. i \div 2 \in 1 .. Len(h) /\ i \div 2 # i /\ i \div 2 # j
      BY <2>3, <1>2, <1>5
    <3> QED BY <3>1, <3>2, <2>3, <1>4
  <2>4. CASE k # i /\ k # j /\ k \div 2 # i
    BY <2>4, <1>4, <1>5, <1>6, <1>7
  <2> QED BY <2>1, <2>2, <2>3, <2>4
<1>8. ASSUME NEW k \in 2 .. Len(h), k \div 2 = j, j \div 2 >= lo PROVE g[j \div 2].at <= g[k].at
  <2>1. k # i /\ k # j /\ j >= lo /\ j # i
    BY <1>2, <1>5, <1>8
  <2>2. h[j].at <= h[k].at
    BY <2>1, <1>6, <1>8
  <2> QED BY <2>1, <2>2, <1>2, <1>4
<1> QED BY <1>2, <1>3, <1>4, <1>7, <1>8 DEF BeforeUnder

LEMMA SunkIsInOrder ==
  ASSUME NEW h \in Seq(Items), NEW i \in Nat \ {0}, NEW lo \in Nat, BeforeUnder(h, i, lo),
         ~(2 * i <= Len(h) /\ h[Child(h, i)].at < h[i].at)
  PROVE  Before(h, lo)
<1>1. Len(h) \in Nat /\ \A k \in 1 .. Len(h) : h[k].at \in Int
  BY ItemsAre
<1>2. ASSUME NEW k \in 2 .. Len(h), k \div 2 >= lo PROVE h[k \div 2].at <= h[k].at
  <2>1. CASE k \div 2 = i
    <3>1. 2 * i <= Len(h)
      BY <2>1, <1>1
    <3>2. /\ i \in 1 .. Len(h) /\ Child(h, i) \in 1 .. Len(h)
          /\ h[Child(h, i)].at <= h[k].at
      BY <2>1, <3>1, ChildIs
    <3> QED BY <2>1, <3>1, <3>2, <1>1
  <2>2. CASE k \div 2 # i
    BY <2>2, <1>2 DEF BeforeUnder
  <2> QED BY <2>1, <2>2
<1> QED BY <1>2 DEF Before

LEMMA WithoutTopIs ==
  ASSUME NEW h \in Seq(Items), h # <<>>, NEW g, g = WithoutTop(h)
  PROVE  /\ g \in Seq(Items) /\ Len(h) \in Nat \ {0} /\ Len(g) = Len(h) - 1
         /\ \A k \in 2 .. Len(g) : g[k] = h[k]
         /\ Len(g) > 0 => g[1] = h[Len(h)]
<1>1. Len(h) \in Nat \ {0}
  OBVIOUS
<1>2. PICK n \in Nat \ {0} : n = Len(h)
  BY <1>1
<1>3. PICK s : s = Swapped(h, 1, n)
  OBVIOUS
<1>4. /\ s \in Seq(Items) /\ Len(s) = n
      /\ s[1] = h[n] /\ \A k \in 1 .. n : k \notin {1, n} => s[k] = h[k]
  <2>1. Shuffled(h, Swapped(h, 1, n)) => Swapped(h, 1, n) \in Seq(Items) /\ Len(Swapped(h, 1, n)) = Len(h)
    BY DEF Shuffled
  <2>2. 1 \in 1 .. Len(h) /\ n \in 1 .. Len(h)
    BY <1>2
  <2>3. Shuffled(h, Swapped(h, 1, n)) /\ Swapped(h, 1, n)[1] = h[n]
    BY <2>2, SwapShuffles
  <2>4. \A k \in 1 .. Len(h) : k \notin {1, n} => Swapped(h, 1, n)[k] = h[k]
    BY <2>2, SwapShuffles
  <2> QED BY <2>1, <2>3, <2>4, <1>2, <1>3
<1>5. g = SubSeq(s, 1, n - 1)
  BY <1>2, <1>3 DEF WithoutTop
<1>6. g \in Seq(Items) /\ Len(g) = n - 1 /\ \A k \in 1 .. n - 1 : g[k] = s[k]
  BY <1>4, <1>5
<1> QED BY <1>2, <1>4, <1>6

-----------------------------------------------------------------------------
(* The invariant.                                                            *)

LEMMA HeapStarts == HeapInit => HeapInv
BY HeapTimesAssumption
   DEF HeapInit, HeapInv, HeapTyped, HolderOK, OncePushed, WrittenOK, SortedOK, EarliestOK,
       Before, Rebuilding

(* Up and Down leave the same tasks in the heap.                             *)
LEMMA MovesShuffle ==
  ASSUME HeapInv, Up \/ Down
  PROVE  Shuffled(heap, heap')
<1>0. heap \in Seq(Items) /\ pos \in Nat
  BY DEF HeapInv, HeapTyped
<1>1. CASE heap' = heap
  BY <1>0, <1>1 DEF Shuffled
<1>2. CASE Up /\ Rises
  <2>1. pos \in 1 .. Len(heap) /\ pos \div 2 \in 1 .. Len(heap)
    BY <1>0, <1>2, RisingKeepsOrder DEF Up, Rises, HeapInv, SortedOK
  <2>2. heap' = Swapped(heap, pos, pos \div 2)
    BY <1>2 DEF Up
  <2> QED BY <1>0, <2>1, <2>2, SwapShuffles
<1>3. CASE Down /\ Sinks(Child(heap, pos))
  <2>1. pos \in 1 .. Len(heap) /\ Child(heap, pos) \in 1 .. Len(heap)
    BY <1>0, <1>3, ChildIs DEF Down, Sinks, HeapInv, SortedOK
  <2>2. heap' = Swapped(heap, pos, Child(heap, pos))
    BY <1>3 DEF Down
  <2> QED BY <1>0, <2>1, <2>2, SwapShuffles
<1> QED BY <1>1, <1>2, <1>3 DEF Up, Down

LEMMA TypedNext == HeapInv /\ [HeapNext]_heapVars => HeapTyped'
<1> SUFFICES ASSUME HeapInv, [HeapNext]_heapVars PROVE HeapTyped'
  OBVIOUS
<1> USE DEF HeapTyped
<1>0. HeapTyped
  BY DEF HeapInv
<1>1. ASSUME NEW t \in HeapTimes, Push(t) PROVE HeapTyped'
  BY <1>0, <1>1 DEF Push, Compact, popVars
<1>2. ASSUME NEW t \in HeapTimes, PopBegin(t) PROVE HeapTyped'
  BY <1>0, <1>2, HeapTimesAssumption DEF PopBegin
<1>3. CASE PushAppend
  <2>1. [task |-> pushed', at |-> coming] \in Items
    BY <1>0, <1>3, HeapTimesAssumption DEF PushAppend, HeapInv, HolderOK, Items
  <2>2. heap' \in Seq(Items) /\ pos' \in Nat
    BY <1>0, <1>3, <2>1 DEF PushAppend
  <2> QED BY <1>0, <1>3, <2>2 DEF PushAppend, popVars
<1>4. CASE Up
  <2>1. heap' \in Seq(Items)
    BY <1>4, MovesShuffle DEF Shuffled
  <2> QED BY <1>0, <1>4, <2>1 DEF Up, popVars
<1>5. CASE Keep
  <2>1. heap[pos] \in Items
    BY <1>0, <1>5 DEF Keep, HeapInv, WrittenOK
  <2>2. kept' \in Seq(Items)
    BY <1>0, <1>5, <2>1 DEF Keep, Kept
  <2> QED BY <1>0, <1>5, <2>2 DEF Keep, popVars
<1>6. CASE Truncate
  BY <1>0, <1>6 DEF Truncate, LastParent, popVars
<1>7. CASE SinkNext
  BY <1>0, <1>7 DEF SinkNext, popVars
<1>8. CASE Rebuilt
  BY <1>0, <1>8 DEF Rebuilt, PopReturn
<1>9. CASE Down
  <2>1. heap' \in Seq(Items)
    BY <1>9, MovesShuffle DEF Shuffled
  <2>2. Child(heap, pos) \in Nat
    BY <1>0 DEF Child
  <2> QED BY <1>0, <1>9, <2>1, <2>2 DEF Down, popVars
<1>10. CASE Pop
  <2>1. heap[1] \in Items /\ heap' \in Seq(Items)
    BY <1>0, <1>10, WithoutTopIs DEF Pop, TopIsDue
  <2> QED BY <1>0, <1>10, <2>1 DEF Pop
<1>11. CASE PopEnd
  BY <1>0, <1>11 DEF PopEnd, Compact, PopReturn
<1>12. ASSUME NEW x \in hand, Popped(x) PROVE HeapTyped'
  BY <1>0, <1>12 DEF Popped
<1>13. ASSUME NEW t \in 1 .. MaxPushed, CancelTask(t) PROVE HeapTyped'
  BY <1>0, <1>13 DEF CancelTask, popVars
<1>14. CASE UNCHANGED heapVars
  BY <1>0, <1>14 DEF heapVars, popVars
<1> QED BY <1>1, <1>2, <1>3, <1>4, <1>5, <1>6, <1>7, <1>8, <1>9, <1>10, <1>11, <1>12, <1>13, <1>14
        DEF HeapNext

LEMMA HolderNext == HeapInv /\ [HeapNext]_heapVars => HolderOK'
<1> SUFFICES ASSUME HeapInv, [HeapNext]_heapVars PROVE HolderOK'
  OBVIOUS
<1> USE DEF HolderOK, Rebuilding
<1>0. HeapTyped /\ HolderOK
  BY DEF HeapInv
<1>1. ASSUME NEW t \in HeapTimes, Push(t) PROVE HolderOK'
  BY <1>0, <1>1 DEF Push, Compact, popVars
<1>2. ASSUME NEW t \in HeapTimes, PopBegin(t) PROVE HolderOK'
  BY <1>0, <1>2, HeapTimesAssumption DEF PopBegin
<1>3. CASE PushAppend
  BY <1>0, <1>3 DEF PushAppend, popVars
<1>4. CASE Up
  BY <1>0, <1>4 DEF Up, popVars
<1>5. CASE Keep
  BY <1>0, <1>5 DEF Keep, popVars
<1>6. CASE Truncate
  BY <1>0, <1>6 DEF Truncate, popVars
<1>7. CASE SinkNext
  BY <1>0, <1>7 DEF SinkNext, popVars
<1>8. CASE Rebuilt
  BY <1>0, <1>8 DEF Rebuilt, PopReturn, HeapTyped
<1>9. CASE Down
  <2>1. /\ UNCHANGED <<popTime, due, hand, root, coming>> /\ doing = "down"
        /\ doing' = "down" \/ doing' = IF hand = {} THEN "rebuild" ELSE "check"
    BY <1>9 DEF Down, popVars
  <2> QED BY <1>0, <2>1
<1>10. CASE Pop
  BY <1>0, <1>10 DEF Pop
<1>11. CASE PopEnd
  BY <1>0, <1>11 DEF PopEnd, Compact, PopReturn
<1>12. ASSUME NEW x \in hand, Popped(x) PROVE HolderOK'
  BY <1>0, <1>12 DEF Popped
<1>13. ASSUME NEW t \in 1 .. MaxPushed, CancelTask(t) PROVE HolderOK'
  BY <1>0, <1>13 DEF CancelTask, popVars
<1>14. CASE UNCHANGED heapVars
  BY <1>0, <1>14 DEF heapVars, popVars
<1> QED BY <1>1, <1>2, <1>3, <1>4, <1>5, <1>6, <1>7, <1>8, <1>9, <1>10, <1>11, <1>12, <1>13, <1>14
        DEF HeapNext

LEMMA OncePushedNext == HeapInv /\ [HeapNext]_heapVars => OncePushed'
<1> SUFFICES ASSUME HeapInv, [HeapNext]_heapVars PROVE OncePushed'
  OBVIOUS
<1>0. HeapTyped /\ HolderOK /\ OncePushed /\ WrittenOK
  BY DEF HeapInv
<1>1. Len(heap) \in Nat /\ \A i \in 1 .. Len(heap) : heap[i].task \in Nat
  BY <1>0, ItemsAre DEF HeapTyped
<1>2. CASE UNCHANGED <<heap, hand, pushed>>
  BY <1>0, <1>2 DEF OncePushed
<1>3. CASE PushAppend
  <2>1. hand = {} /\ hand' = {}
    BY <1>0, <1>3 DEF PushAppend, HolderOK, popVars
  <2>2. PICK x : x.task = pushed + 1 /\ heap' = Append(heap, x)
    BY <1>3 DEF PushAppend
  <2>3. Len(heap') = Len(heap) + 1 /\ heap'[Len(heap) + 1] = x /\ \A i \in 1 .. Len(heap) : heap'[i] = heap[i]
    BY <1>0, <2>2 DEF HeapTyped
  <2>4. pushed' = pushed + 1 /\ pushed \in Nat
    BY <1>0, <1>3 DEF PushAppend, HeapTyped
  <2>5. \A i \in 1 .. Len(heap') : heap'[i].task <= pushed'
    BY <1>0, <1>1, <2>2, <2>3, <2>4 DEF OncePushed
  <2>6. \A i, j \in 1 .. Len(heap') : i # j => heap'[i].task # heap'[j].task
    BY <1>0, <1>1, <2>2, <2>3, <2>4 DEF OncePushed
  <2> QED BY <2>1, <2>5, <2>6 DEF OncePushed
<1>4. CASE Up \/ Down
  <2>1. Shuffled(heap, heap') /\ UNCHANGED <<hand, pushed>>
    BY <1>4, MovesShuffle DEF Up, Down, popVars
  <2>2. \A i \in 1 .. Len(heap') : \E k \in 1 .. Len(heap) : heap'[i] = heap[k]
    BY <2>1 DEF Shuffled
  <2>3. \A i \in 1 .. Len(heap') : heap'[i].task <= pushed
    BY <1>0, <2>2 DEF OncePushed
  <2>4. \A x \in hand, i \in 1 .. Len(heap') : heap'[i].task # x.task
    BY <1>0, <2>2 DEF OncePushed
  <2>5. \A i, j \in 1 .. Len(heap') : i # j => heap'[i].task # heap'[j].task
    BY <1>0, <2>1 DEF OncePushed, Shuffled
  <2> QED BY <1>0, <2>1, <2>3, <2>4, <2>5 DEF OncePushed
<1>5. CASE Truncate
  <2>1. hand = {} /\ hand' = {} /\ heap' = kept /\ pushed' = pushed
    BY <1>0, <1>5 DEF Truncate, HolderOK, popVars
  <2>2. \A a \in 1 .. Len(kept) : kept[a].task <= pushed
    <3>1. ASSUME NEW a \in 1 .. Len(kept) PROVE kept[a].task <= pushed
      <4>1. PICK k \in 1 .. pos - 1 : kept[a] = heap[k]
        BY <1>0, <1>5, <3>1 DEF Truncate, WrittenOK
      <4>2. k \in 1 .. Len(heap)
        BY <1>0, <1>1, <1>5 DEF Truncate, WrittenOK, HeapTyped
      <4> QED BY <1>0, <4>1, <4>2 DEF OncePushed
    <3> QED BY <3>1
  <2>3. \A a, b \in 1 .. Len(kept) : a # b => kept[a].task # kept[b].task
    BY <1>0, <1>5 DEF WrittenOK, Truncate
  <2> QED BY <2>1, <2>2, <2>3 DEF OncePushed
<1>6. CASE Pop
  <2>1. /\ Len(heap) \in Nat \ {0} /\ Len(heap') = Len(heap) - 1
        /\ \A k \in 2 .. Len(heap') : heap'[k] = heap[k]
        /\ Len(heap') > 0 => heap'[1] = heap[Len(heap)]
    BY <1>0, <1>6, WithoutTopIs DEF Pop, TopIsDue, HeapTyped
  <2>2. hand' = {heap[1]} /\ pushed' = pushed
    BY <1>6 DEF Pop
  <2>3. \A i \in 1 .. Len(heap') : \E k \in 2 .. Len(heap) : heap'[i] = heap[k] /\ (i # 1 => k = i) /\ (i = 1 => k = Len(heap))
    BY <2>1
  <2>4. \A i \in 1 .. Len(heap') : heap'[i].task <= pushed /\ heap'[i].task # heap[1].task
    BY <1>0, <1>1, <2>1, <2>3 DEF OncePushed
  <2>5. \A i, j \in 1 .. Len(heap') : i # j => heap'[i].task # heap'[j].task
    BY <1>0, <1>1, <2>1, <2>3 DEF OncePushed
  <2>6. heap[1].task <= pushed
    BY <1>0, <2>1 DEF OncePushed
  <2> QED BY <2>2, <2>4, <2>5, <2>6 DEF OncePushed
<1>7. ASSUME NEW x \in hand, Popped(x) PROVE OncePushed'
  BY <1>0, <1>7 DEF OncePushed, Popped
<1>8. ASSUME NEW t \in HeapTimes, Push(t) \/ PopBegin(t) PROVE UNCHANGED <<heap, hand, pushed>>
  BY <1>8 DEF Push, PopBegin, popVars
<1>9. Keep \/ SinkNext \/ Rebuilt \/ PopEnd \/ UNCHANGED heapVars => UNCHANGED <<heap, hand, pushed>>
  BY DEF Keep, SinkNext, Rebuilt, PopEnd, heapVars, popVars
<1>10. ASSUME NEW t \in 1 .. MaxPushed, CancelTask(t) PROVE UNCHANGED <<heap, hand, pushed>>
  BY <1>10 DEF CancelTask, popVars
<1> QED BY <1>2, <1>3, <1>4, <1>5, <1>6, <1>7, <1>8, <1>9, <1>10 DEF HeapNext

LEMMA WrittenNext == HeapInv /\ [HeapNext]_heapVars => WrittenOK'
<1> SUFFICES ASSUME HeapInv, [HeapNext]_heapVars PROVE WrittenOK'
  OBVIOUS
<1>0. HeapTyped /\ OncePushed /\ WrittenOK
  BY DEF HeapInv
<1>1. Len(heap) \in Nat
  BY <1>0, ItemsAre DEF HeapTyped
<1>2. CASE doing' = "keep" /\ pos' = 1 /\ kept' = <<>> /\ heap' = heap
  BY <1>1, <1>2 DEF WrittenOK
<1>3. CASE doing' # "keep" /\ kept' = <<>>
  BY <1>3 DEF WrittenOK
<1>4. CASE Keep
  <2>1. /\ doing = "keep" /\ doing' = "keep" /\ heap' = heap /\ off' = off
        /\ pos' = pos + 1 /\ pos \in 1 .. Len(heap)
    BY <1>0, <1>4 DEF Keep, WrittenOK
  <2>2. heap[pos] \in Items
    BY <1>0, <2>1 DEF HeapTyped
  <2>3. CASE heap[pos].task \in off
    <3>1. kept' = kept
      BY <1>4, <2>3 DEF Keep, Kept
    <3>2. 1 .. pos' - 1 = (1 .. pos - 1) \cup {pos} /\ pos' \in 1 .. Len(heap') + 1
      BY <1>1, <2>1
    <3> QED BY <1>0, <2>1, <2>3, <3>1, <3>2 DEF WrittenOK
  <2>4. CASE heap[pos].task \notin off
    <3>1. kept' = Append(kept, heap[pos])
      BY <1>4, <2>4 DEF Keep, Kept
    <3>2. /\ Len(kept) \in Nat /\ Len(kept') = Len(kept) + 1 /\ kept'[Len(kept) + 1] = heap[pos]
          /\ \A a \in 1 .. Len(kept) : kept'[a] = kept[a]
      BY <1>0, <2>2, <3>1 DEF HeapTyped
    <3>3. 1 .. pos' - 1 = (1 .. pos - 1) \cup {pos} /\ pos' \in 1 .. Len(heap') + 1
      BY <1>1, <2>1
    <3>4. \A a \in 1 .. Len(kept') : \E k \in 1 .. pos' - 1 : kept'[a] = heap[k]
      <4>1. \A a \in 1 .. Len(kept) : \E k \in 1 .. pos - 1 : kept[a] = heap[k]
        BY <1>0, <2>1 DEF WrittenOK
      <4>2. ASSUME NEW a \in 1 .. Len(kept') PROVE \E k \in 1 .. pos' - 1 : kept'[a] = heap[k]
        <5>1. CASE a = Len(kept) + 1
          BY <3>2, <3>3, <5>1
        <5>2. CASE a \in 1 .. Len(kept)
          BY <3>2, <3>3, <4>1, <5>2
        <5> QED BY <3>2, <5>1, <5>2
      <4> QED BY <4>2
    <3>5. ASSUME NEW k \in 1 .. pos' - 1, heap[k].task \notin off
          PROVE  \E a \in 1 .. Len(kept') : kept'[a] = heap[k]
      <4>1. CASE k = pos
        BY <3>2, <4>1
      <4>2. CASE k \in 1 .. pos - 1
        <5>1. PICK a \in 1 .. Len(kept) : kept[a] = heap[k]
          BY <1>0, <2>1, <3>5, <4>2 DEF WrittenOK
        <5> QED BY <3>2, <5>1
      <4> QED BY <3>3, <4>1, <4>2
    <3>6. \A a \in 1 .. Len(kept) : kept[a].task # heap[pos].task
      <4>1. ASSUME NEW a \in 1 .. Len(kept) PROVE kept[a].task # heap[pos].task
        <5>1. PICK k \in 1 .. pos - 1 : kept[a] = heap[k]
          BY <1>0, <2>1 DEF WrittenOK
        <5>2. k \in 1 .. Len(heap) /\ k # pos
          BY <1>1, <2>1
        <5> QED BY <1>0, <2>1, <5>1, <5>2 DEF OncePushed
      <4> QED BY <4>1
    <3>7. \A a, b \in 1 .. Len(kept') : a # b => kept'[a].task # kept'[b].task
      <4>1. \A a, b \in 1 .. Len(kept) : a # b => kept[a].task # kept[b].task
        BY <1>0, <2>1 DEF WrittenOK
      <4> QED BY <3>2, <3>6, <4>1
    <3> QED BY <2>1, <3>3, <3>4, <3>5, <3>7 DEF WrittenOK
  <2> QED BY <2>3, <2>4
<1>5. ASSUME NEW t \in 1 .. MaxPushed, CancelTask(t) PROVE WrittenOK'
  BY <1>0, <1>5 DEF CancelTask, WrittenOK
<1>6. CASE UNCHANGED heapVars
  BY <1>0, <1>6 DEF heapVars, WrittenOK
<1>7. ASSUME NEW t \in HeapTimes, Push(t) \/ PopBegin(t) PROVE WrittenOK'
  BY <1>0, <1>2, <1>3, <1>7 DEF Push, PopBegin, Compact, WrittenOK
<1>8. CASE PopEnd
  BY <1>0, <1>2, <1>3, <1>8 DEF PopEnd, Compact, PopReturn, WrittenOK
<1>9. PushAppend \/ Up \/ Truncate \/ SinkNext \/ Rebuilt \/ Down \/ Pop => doing' # "keep" /\ kept' = <<>>
  BY <1>0 DEF PushAppend, Up, Truncate, SinkNext, Rebuilt, Down, Pop, PopReturn, WrittenOK
<1>10. ASSUME NEW x \in hand, Popped(x) PROVE WrittenOK'
  BY <1>0, <1>3, <1>10 DEF Popped, WrittenOK
<1> QED BY <1>3, <1>4, <1>5, <1>6, <1>7, <1>8, <1>9, <1>10 DEF HeapNext

LEMMA SortedNext == HeapInv /\ [HeapNext]_heapVars => SortedOK'
<1> SUFFICES ASSUME HeapInv, [HeapNext]_heapVars PROVE SortedOK'
  OBVIOUS
<1>0. HeapTyped /\ HolderOK /\ SortedOK
  BY DEF HeapInv
<1>1. Len(heap) \in Nat
  BY <1>0, ItemsAre DEF HeapTyped
<1>2. CASE doing' \in {"free", "append", "pop", "check"} /\ Before(heap', 1)
  BY <1>2 DEF SortedOK
<1>3. CASE doing' = "keep"
  BY <1>3 DEF SortedOK
<1>4. ASSUME NEW t \in HeapTimes, Push(t) PROVE SortedOK'
  BY <1>0, <1>2, <1>3, <1>4 DEF Push, Compact, SortedOK
<1>5. ASSUME NEW t \in HeapTimes, PopBegin(t) PROVE SortedOK'
  BY <1>0, <1>2, <1>5 DEF PopBegin, SortedOK
<1>6. CASE PushAppend
  <2>1. PICK x \in Items : heap' = Append(heap, x)
    <3>1. [task |-> pushed', at |-> coming] \in Items
      BY <1>0, <1>6, HeapTimesAssumption DEF PushAppend, HeapTyped, HolderOK, Items
    <3> QED BY <1>6, <3>1 DEF PushAppend
  <2>2. Len(heap') = Len(heap) + 1 /\ \A i \in 1 .. Len(heap) : heap'[i] = heap[i]
    BY <1>0, <2>1 DEF HeapTyped
  <2>3. pos' = Len(heap) + 1 /\ doing' = "up" /\ Before(heap, 1)
    BY <1>0, <1>6 DEF PushAppend, SortedOK
  <2>4. ASSUME NEW k \in 2 .. Len(heap'), k # pos' PROVE heap'[k \div 2].at <= heap'[k].at
    <3>1. k \in 2 .. Len(heap) /\ k \div 2 \in 1 .. Len(heap)
      BY <1>1, <2>2, <2>3, <2>4
    <3> QED BY <2>2, <2>3, <3>1 DEF Before
  <2>5. \A k \in 2 .. Len(heap') : k \div 2 # pos'
    BY <1>1, <2>2, <2>3
  <2>6. BeforeBut(heap', pos')
    BY <2>4, <2>5 DEF BeforeBut
  <2> QED BY <1>1, <2>2, <2>3, <2>6 DEF SortedOK
<1>7. CASE Up
  <2>1. heap \in Seq(Items) /\ pos \in 1 .. Len(heap) /\ BeforeBut(heap, pos)
    BY <1>0, <1>7 DEF Up, SortedOK, HeapTyped
  <2>2. CASE Rises
    <3>1. heap' = Swapped(heap, pos, pos \div 2) /\ pos' = pos \div 2 /\ doing' = "up"
      BY <1>7, <2>2 DEF Up
    <3>2. pos' \in 1 .. Len(heap) /\ BeforeBut(heap', pos')
      BY <2>1, <2>2, <3>1, RisingKeepsOrder DEF Rises
    <3>3. Len(heap') = Len(heap)
      BY <1>7, MovesShuffle DEF Shuffled
    <3> QED BY <3>1, <3>2, <3>3 DEF SortedOK
  <2>3. CASE ~Rises
    <3>1. heap' = heap /\ doing' = "free"
      BY <1>7, <2>3 DEF Up
    <3>2. Before(heap, 1)
      BY <2>1, <2>3, RisenIsInOrder DEF Rises
    <3> QED BY <1>2, <3>1, <3>2
  <2> QED BY <2>2, <2>3
<1>8. CASE Keep
  BY <1>3, <1>8 DEF Keep
<1>9. CASE Truncate
  <2>1. doing' = "rebuild" /\ heap' = kept /\ root' = Len(kept) \div 2
    BY <1>9 DEF Truncate, LastParent
  <2>2. Len(kept) \in Nat
    BY <1>0, ItemsAre DEF HeapTyped
  <2>3. Before(kept, Len(kept) \div 2 + 1)
    BY <2>2 DEF Before
  <2> QED BY <2>1, <2>3 DEF SortedOK
<1>10. CASE SinkNext
  <2>1. /\ doing' = "down" /\ heap' = heap /\ pos' = root /\ root' = root - 1 /\ root \in Nat \ {0}
        /\ Before(heap, root + 1)
    BY <1>0, <1>10 DEF SinkNext, SortedOK, HeapTyped
  <2>2. BeforeUnder(heap, root, root)
    BY <1>1, <2>1 DEF Before, BeforeUnder
  <2> QED BY <2>1, <2>2 DEF SortedOK
<1>11. CASE Rebuilt
  <2>1. root = 0 /\ Before(heap, root + 1) /\ heap' = heap /\ doing' \in {"append", "free"}
    BY <1>0, <1>11 DEF Rebuilt, PopReturn, SortedOK, HeapTyped
  <2> QED BY <1>2, <2>1
<1>12. CASE Down
  <2>1. /\ heap \in Seq(Items) /\ pos \in Nat \ {0} /\ root + 1 \in Nat
        /\ BeforeUnder(heap, pos, root + 1) /\ root' = root
    BY <1>0, <1>12 DEF Down, SortedOK, HeapTyped
  <2>2. PICK j : j = Child(heap, pos)
    OBVIOUS
  <2>3. CASE Sinks(j)
    <3>1. heap' = Swapped(heap, pos, j) /\ pos' = j /\ doing' = "down"
      BY <1>12, <2>2, <2>3 DEF Down
    <3>2. j \in Nat \ {0} /\ BeforeUnder(heap', pos', root + 1)
      BY <2>1, <2>2, <2>3, <3>1, SinkingKeepsOrder DEF Sinks
    <3> QED BY <2>1, <3>1, <3>2 DEF SortedOK
  <2>4. CASE ~Sinks(j)
    <3>1. heap' = heap /\ doing' = IF hand = {} THEN "rebuild" ELSE "check"
      BY <1>12, <2>2, <2>4 DEF Down
    <3>2. Before(heap, root + 1)
      BY <2>1, <2>2, <2>4, SunkIsInOrder DEF Sinks
    <3>3. hand # {} => root = 0
      BY <1>0 DEF HolderOK
    <3> QED BY <2>1, <3>1, <3>2, <3>3 DEF SortedOK
  <2> QED BY <2>3, <2>4
<1>13. CASE Pop
  <2>1. /\ Len(heap') = Len(heap) - 1 /\ \A k \in 2 .. Len(heap') : heap'[k] = heap[k]
    BY <1>0, <1>13, WithoutTopIs DEF Pop, TopIsDue, HeapTyped
  <2>2. doing' = "down" /\ pos' = 1 /\ root' = 0 /\ Before(heap, 1)
    BY <1>0, <1>13 DEF Pop, SortedOK, HolderOK
  <2>3. ASSUME NEW k \in 2 .. Len(heap'), k \div 2 # 1 PROVE heap'[k \div 2].at <= heap'[k].at
    <3>1. k \in 2 .. Len(heap) /\ k \div 2 \in 2 .. Len(heap')
      BY <1>1, <2>1, <2>3
    <3> QED BY <2>1, <2>2, <3>1 DEF Before
  <2>4. BeforeUnder(heap', 1, 1)
    BY <2>3 DEF BeforeUnder
  <2> QED BY <2>2, <2>4 DEF SortedOK
<1>14. CASE PopEnd
  BY <1>0, <1>2, <1>3, <1>14 DEF PopEnd, Compact, PopReturn, SortedOK
<1>15. ASSUME NEW x \in hand, Popped(x) PROVE SortedOK'
  BY <1>0, <1>2, <1>15 DEF Popped, SortedOK
<1>16. ASSUME NEW t \in 1 .. MaxPushed, CancelTask(t) PROVE SortedOK'
  BY <1>0, <1>16 DEF CancelTask, SortedOK
<1>17. CASE UNCHANGED heapVars
  BY <1>0, <1>17 DEF heapVars, SortedOK
<1> QED BY <1>4, <1>5, <1>6, <1>7, <1>8, <1>9, <1>10, <1>11, <1>12, <1>13, <1>14, <1>15, <1>16, <1>17
        DEF HeapNext

LEMMA EarliestNext == HeapInv /\ [HeapNext]_heapVars => EarliestOK'
<1> SUFFICES ASSUME HeapInv, [HeapNext]_heapVars PROVE EarliestOK'
  OBVIOUS
<1>0. HeapTyped /\ HolderOK /\ WrittenOK /\ EarliestOK
  BY DEF HeapInv
<1>1. Len(heap) \in Nat /\ \A i \in 1 .. Len(heap) : heap[i].at \in Int
  BY <1>0, ItemsAre DEF HeapTyped
<1>2. ASSUME NEW t \in HeapTimes, Push(t) \/ PopBegin(t) PROVE EarliestOK'
  <2>1. hand = {} /\ hand' = {}
    BY <1>0, <1>2 DEF Push, PopBegin, HolderOK, popVars
  <2>2. popTime' = NoPop \/ doing' = "pop"
    BY <1>0, <1>2 DEF Push, PopBegin, HolderOK, popVars
  <2> QED BY <2>1, <2>2 DEF EarliestOK, Rebuilding
<1>3. CASE PushAppend
  <2>1. hand' = {} /\ doing' = "up"
    BY <1>0, <1>3 DEF PushAppend, HolderOK, popVars
  <2> QED BY <2>1 DEF EarliestOK, Rebuilding
<1>4. CASE Up \/ Down
  <2>1. Shuffled(heap, heap') /\ UNCHANGED <<hand, popTime>>
    BY <1>4, MovesShuffle DEF Up, Down, popVars
  <2>2. \A i \in 1 .. Len(heap') : \E k \in 1 .. Len(heap) : heap'[i] = heap[k]
    BY <2>1 DEF Shuffled
  <2>3. Rebuilding' => Rebuilding
    BY <1>4, <2>1 DEF Up, Down, Rebuilding
  <2>4. \A x \in hand, i \in 1 .. Len(heap') : x.at <= heap'[i].at
    BY <1>0, <2>2 DEF EarliestOK
  <2>5. popTime # NoPop /\ Rebuilding => \A i \in 1 .. Len(heap') : heap'[i].at > popTime
    BY <1>0, <2>2 DEF EarliestOK
  <2> QED BY <1>0, <2>1, <2>3, <2>4, <2>5 DEF EarliestOK
<1>5. CASE Keep
  BY <1>0, <1>5 DEF Keep, EarliestOK, Rebuilding, popVars
<1>6. CASE Truncate
  <2>1. hand = {} /\ hand' = {} /\ popTime' = popTime /\ heap' = kept /\ doing = "keep"
    BY <1>0, <1>6 DEF Truncate, HolderOK, popVars
  <2>2. ASSUME popTime # NoPop, NEW a \in 1 .. Len(kept) PROVE kept[a].at > popTime
    <3>1. PICK k \in 1 .. pos - 1 : kept[a] = heap[k]
      BY <1>0, <2>1 DEF WrittenOK
    <3>2. k \in 1 .. Len(heap)
      BY <1>0, <1>1, <2>1 DEF WrittenOK, HeapTyped
    <3> QED BY <1>0, <2>1, <2>2, <3>1, <3>2 DEF EarliestOK, Rebuilding
  <2> QED BY <2>1, <2>2 DEF EarliestOK
<1>7. CASE SinkNext
  BY <1>0, <1>7 DEF SinkNext, EarliestOK, Rebuilding, popVars
<1>8. CASE Rebuilt
  <2>1. hand = {} /\ hand' = {} /\ doing' \in {"append", "free"}
    BY <1>0, <1>8 DEF Rebuilt, PopReturn, HolderOK
  <2> QED BY <2>1 DEF EarliestOK, Rebuilding
<1>9. CASE Pop
  <2>1. /\ Len(heap) \in Nat \ {0} /\ Len(heap') = Len(heap) - 1
        /\ \A k \in 2 .. Len(heap') : heap'[k] = heap[k]
        /\ Len(heap') > 0 => heap'[1] = heap[Len(heap)]
    BY <1>0, <1>9, WithoutTopIs DEF Pop, TopIsDue, HeapTyped
  <2>2. \A i \in 1 .. Len(heap') : \E k \in 1 .. Len(heap) : heap'[i] = heap[k]
    BY <2>1
  <2>3. /\ hand' = {heap[1]} /\ doing' = "down" /\ popTime' = popTime /\ heap[1].at <= popTime
        /\ Before(heap, 1)
    BY <1>9 DEF Pop, TopIsDue, HeapInv, SortedOK
  <2>4. \A k \in 1 .. Len(heap) : heap[1].at <= heap[k].at
    BY <1>0, <2>3, TopIsEarliest DEF HeapTyped
  <2>5. \A i \in 1 .. Len(heap') : heap[1].at <= heap'[i].at
    BY <2>2, <2>4
  <2> QED BY <2>3, <2>5 DEF EarliestOK, Rebuilding
<1>10. CASE PopEnd
  <2>1. hand = {} /\ hand' = {} /\ heap' = heap
    BY <1>0, <1>10 DEF PopEnd, HolderOK
  <2>2. CASE doing' = "free"
    BY <2>1, <2>2 DEF EarliestOK, Rebuilding
  <2>3. CASE doing' = "keep" /\ heap # <<>> /\ popTime' = popTime
    <3>1. Before(heap, 1) /\ popTime \in Int /\ ~(heap[1].at <= popTime) /\ 1 \in 1 .. Len(heap)
      BY <1>0, <1>1, <1>10, <2>3 DEF PopEnd, TopIsDue, HeapInv, SortedOK, HeapTyped, HolderOK
    <3>2. \A k \in 1 .. Len(heap) : heap[1].at <= heap[k].at
      BY <1>0, <3>1, TopIsEarliest DEF HeapTyped
    <3>3. \A k \in 1 .. Len(heap) : heap[k].at > popTime
      BY <1>1, <3>1, <3>2
    <3> QED BY <2>1, <2>3, <3>3 DEF EarliestOK
  <2> QED BY <1>10, <2>2, <2>3 DEF PopEnd, Compact, PopReturn
<1>11. ASSUME NEW x \in hand, Popped(x) PROVE EarliestOK'
  BY <1>11 DEF Popped, EarliestOK, Rebuilding
<1>12. ASSUME NEW t \in 1 .. MaxPushed, CancelTask(t) PROVE EarliestOK'
  BY <1>0, <1>12 DEF CancelTask, EarliestOK, Rebuilding, popVars
<1>13. CASE UNCHANGED heapVars
  BY <1>0, <1>13 DEF heapVars, EarliestOK, Rebuilding, popVars
<1> QED BY <1>2, <1>3, <1>4, <1>5, <1>6, <1>7, <1>8, <1>9, <1>10, <1>11, <1>12, <1>13 DEF HeapNext

(* The invariant of the heap: parents are not later than their children      *)
(* except where up or down is at work, each task is there once, compactHeap  *)
(* has written what it read, and what PopDue has in hand is the earliest.    *)
THEOREM HeapInductive == HeapSpec => []HeapInv
<1>1. HeapInv /\ [HeapNext]_heapVars => HeapInv'
  BY TypedNext, HolderNext, OncePushedNext, WrittenNext, SortedNext, EarliestNext DEF HeapInv
<1> QED BY HeapStarts, <1>1, PTL DEF HeapSpec

-----------------------------------------------------------------------------
(* The refinement.                                                           *)

Unseen == UNCHANGED <<pushed, Live, popTime, due>>

LEMMA HeapStartsEmpty == HeapInit => Queue!Init
BY DEF HeapInit, Queue!Init, Live, InHeap

LEMMA NothingIsDue ==
  ASSUME HeapInv, popTime # NoPop, \/ doing = "pop" /\ ~TopIsDue
                                   \/ doing = "rebuild"
  PROVE  hand = {} /\ \A x \in Live : ~(x.at <= popTime)
<1>0. HeapTyped /\ HolderOK /\ SortedOK /\ EarliestOK
  BY DEF HeapInv
<1>1. Len(heap) \in Nat /\ DOMAIN heap = 1 .. Len(heap) /\ \A i \in 1 .. Len(heap) : heap[i].at \in Int
  BY <1>0, ItemsAre DEF HeapTyped
<1>2. hand = {} /\ popTime \in Int
  BY <1>0 DEF HolderOK, HeapTyped
<1>3. \A i \in 1 .. Len(heap) : heap[i].at > popTime
  <2>1. CASE doing = "pop" /\ ~TopIsDue
    <3>1. Before(heap, 1) /\ (Len(heap) > 0 => ~(heap[1].at <= popTime))
      BY <1>0, <1>1, <2>1 DEF TopIsDue, SortedOK
    <3>2. \A k \in 1 .. Len(heap) : heap[1].at <= heap[k].at
      BY <1>0, <3>1, TopIsEarliest DEF HeapTyped
    <3> QED BY <1>1, <1>2, <3>1, <3>2
  <2>2. CASE doing = "rebuild"
    BY <1>0, <2>2 DEF EarliestOK, Rebuilding
  <2> QED BY <2>1, <2>2
<1>4. \A x \in Live : \E i \in 1 .. Len(heap) : x = heap[i]
  BY <1>1, <1>2 DEF Live, InHeap
<1> QED BY <1>1, <1>2, <1>3, <1>4

LEMMA StepsOfQueue ==
  HeapInv /\ [HeapNext]_heapVars => [Queue!Next]_<<pushed, Live, popTime, due>>
<1> SUFFICES ASSUME HeapInv, [HeapNext]_heapVars PROVE Unseen \/ Queue!Next
  BY DEF Unseen
<1>0. HeapTyped /\ HolderOK /\ OncePushed /\ WrittenOK /\ EarliestOK
  BY DEF HeapInv
<1>1. Len(heap) \in Nat /\ DOMAIN heap = 1 .. Len(heap)
  BY <1>0, ItemsAre DEF HeapTyped
<1>2. ASSUME NEW t \in HeapTimes, Push(t) PROVE Unseen
  BY <1>2 DEF Push, Unseen, Live, InHeap, popVars
<1>3. ASSUME NEW t \in HeapTimes, PopBegin(t) PROVE Queue!Next
  <2>1. popTime = NoPop /\ popTime' = t /\ UNCHANGED <<pushed, Live, due>>
    BY <1>0, <1>3 DEF PopBegin, HolderOK, Live, InHeap
  <2> QED BY <2>1 DEF Queue!Next, Queue!Ask
<1>4. CASE PushAppend
  <2>1. PICK x : x = [task |-> pushed + 1, at |-> coming]
    OBVIOUS
  <2>2. heap' = Append(heap, x) /\ pushed' = pushed + 1 /\ off' = off
    BY <1>4, <2>1 DEF PushAppend
  <2>3. x \in Items /\ coming \in HeapTimes
    BY <1>0, <1>4, <2>1, HeapTimesAssumption DEF PushAppend, HolderOK, HeapTyped, Items
  <2>4. InHeap' = InHeap \cup {x}
    <3>1. /\ DOMAIN heap' = 1 .. Len(heap) + 1 /\ heap'[Len(heap) + 1] = x
          /\ \A i \in 1 .. Len(heap) : heap'[i] = heap[i]
      BY <1>0, <2>2, <2>3 DEF HeapTyped
    <3> QED BY <1>1, <3>1 DEF InHeap
  <2>5. hand = {} /\ hand' = {} /\ popTime = NoPop /\ UNCHANGED <<popTime, due>>
    BY <1>0, <1>4 DEF PushAppend, HolderOK, popVars
  <2>6. x.task \notin off
    BY <1>0, <2>1 DEF HeapTyped
  <2>7. Live' = Live \cup {x}
    BY <2>2, <2>4, <2>5, <2>6 DEF Live
  <2>8. Queue!Add(coming)
    BY <2>1, <2>2, <2>5, <2>7 DEF Queue!Add
  <2> QED BY <2>3, <2>8 DEF Queue!Next
<1>5. CASE Up \/ Down
  <2>1. Shuffled(heap, heap') /\ UNCHANGED <<hand, off, pushed, popTime, due>>
    BY <1>5, MovesShuffle DEF Up, Down, popVars
  <2>2. heap' \in Seq(Items) /\ Len(heap') = Len(heap)
    BY <2>1 DEF Shuffled
  <2>3. DOMAIN heap' = 1 .. Len(heap)
    BY <2>2
  <2>4. InHeap' = InHeap
    <3>1. /\ \A k \in 1 .. Len(heap) : \E m \in 1 .. Len(heap) : heap'[k] = heap[m]
          /\ \A k \in 1 .. Len(heap) : \E m \in 1 .. Len(heap) : heap[k] = heap'[m]
      BY <2>1 DEF Shuffled
    <3>2. /\ InHeap = {heap[k] : k \in 1 .. Len(heap)}
          /\ InHeap' = {heap'[k] : k \in 1 .. Len(heap)}
      BY <1>1, <2>3 DEF InHeap
    <3>3. InHeap' \subseteq InHeap
      BY <3>1, <3>2, Zenon
    <3>4. InHeap \subseteq InHeap'
      BY <3>1, <3>2, Zenon
    <3> QED BY <3>3, <3>4
  <2> QED BY <2>1, <2>4 DEF Unseen, Live
<1>6. CASE Keep
  BY <1>6 DEF Keep, Unseen, Live, InHeap, popVars
<1>7. CASE Truncate
  <2>1. /\ doing = "keep" /\ heap' = kept /\ UNCHANGED <<hand, off, pushed, popTime, due>>
        /\ pos = Len(heap) + 1 /\ DOMAIN kept = 1 .. Len(kept)
    BY <1>0, <1>1, <1>7 DEF Truncate, WrittenOK, HeapTyped, popVars
  <2>2. \A a \in 1 .. Len(kept) : \E k \in 1 .. Len(heap) : kept[a] = heap[k]
    BY <1>0, <1>1, <2>1 DEF WrittenOK
  <2>3. \A k \in 1 .. Len(heap) : heap[k].task \notin off => \E a \in 1 .. Len(kept) : kept[a] = heap[k]
    BY <1>0, <1>1, <2>1 DEF WrittenOK
  <2>4. InHeap' \subseteq InHeap /\ \A x \in InHeap : x.task \notin off => x \in InHeap'
    BY <1>1, <2>1, <2>2, <2>3 DEF InHeap
  <2>5. Live' = Live
    BY <2>1, <2>4 DEF Live
  <2> QED BY <2>1, <2>5 DEF Unseen
<1>8. CASE SinkNext
  BY <1>8 DEF SinkNext, Unseen, Live, InHeap, popVars
<1>9. CASE Rebuilt
  <2>1. UNCHANGED <<pushed, Live>>
    BY <1>9 DEF Rebuilt, Live, InHeap
  <2>2. CASE popTime = NoPop
    BY <1>9, <2>1, <2>2 DEF Rebuilt, Unseen
  <2>3. CASE popTime # NoPop
    <3>1. \A x \in Live : ~(x.at <= popTime)
      BY <1>9, <2>3, NothingIsDue DEF Rebuilt
    <3>2. popTime' = NoPop /\ due' = <<>>
      BY <1>9, <2>3 DEF Rebuilt, PopReturn
    <3> QED BY <2>1, <2>3, <3>1, <3>2 DEF Queue!Next, Queue!Answer, Queue!Due
  <2> QED BY <2>2, <2>3
<1>10. CASE Pop
  <2>1. /\ Len(heap) \in Nat \ {0} /\ Len(heap') = Len(heap) - 1 /\ heap' \in Seq(Items)
        /\ \A k \in 2 .. Len(heap') : heap'[k] = heap[k]
        /\ Len(heap') > 0 => heap'[1] = heap[Len(heap)]
    BY <1>0, <1>10, WithoutTopIs DEF Pop, TopIsDue, HeapTyped
  <2>2. hand = {} /\ hand' = {heap[1]} /\ UNCHANGED <<pushed, off, popTime, due>>
    BY <1>0, <1>10 DEF Pop, HolderOK
  <2>3. DOMAIN heap' = 1 .. Len(heap) - 1
    BY <2>1
  <2>4. \A i \in 1 .. Len(heap) - 1 : \E k \in 1 .. Len(heap) : heap'[i] = heap[k]
    BY <2>1
  <2>5. \A k \in 1 .. Len(heap) : k = 1 \/ \E i \in 1 .. Len(heap) - 1 : heap'[i] = heap[k]
    <3>1. ASSUME NEW k \in 1 .. Len(heap), k # 1 PROVE \E i \in 1 .. Len(heap) - 1 : heap'[i] = heap[k]
      <4>1. CASE k = Len(heap)
        BY <2>1, <3>1, <4>1
      <4>2. CASE k # Len(heap)
        <5>1. k \in 2 .. Len(heap') /\ k \in 1 .. Len(heap) - 1
          BY <2>1, <3>1, <4>2
        <5> QED BY <2>1, <5>1
      <4> QED BY <4>1, <4>2
    <3> QED BY <3>1
  <2>6. InHeap' \cup hand' = InHeap \cup hand
    <3>1. /\ InHeap = {heap[k] : k \in 1 .. Len(heap)}
          /\ InHeap' = {heap'[i] : i \in 1 .. Len(heap) - 1}
      BY <1>1, <2>3 DEF InHeap
    <3>2. InHeap' \subseteq InHeap
      BY <2>4, <3>1, Zenon
    <3>3. 1 \in 1 .. Len(heap)
      BY <2>1
    <3>4. heap[1] \in InHeap
      BY <3>1, <3>3, Zenon
    <3>5. \A x \in InHeap : x = heap[1] \/ x \in InHeap'
      <4>1. ASSUME NEW x \in InHeap, x # heap[1] PROVE x \in InHeap'
        <5>1. PICK k \in 1 .. Len(heap) : x = heap[k]
          BY <3>1
        <5>2. PICK i \in 1 .. Len(heap) - 1 : heap'[i] = heap[k]
          BY <2>5, <4>1, <5>1
        <5> QED BY <3>1, <5>1, <5>2
      <4> QED BY <4>1
    <3> QED BY <2>2, <3>2, <3>4, <3>5
  <2> QED BY <2>2, <2>6 DEF Unseen, Live
<1>11. CASE PopEnd
  <2>1. UNCHANGED <<pushed, Live>> /\ doing = "pop" /\ ~TopIsDue /\ popTime # NoPop
    BY <1>0, <1>11 DEF PopEnd, Live, InHeap, HolderOK
  <2>2. CASE UNCHANGED <<popTime, due>>
    BY <2>1, <2>2 DEF Unseen
  <2>3. CASE popTime' = NoPop /\ due' = <<>>
    <3>1. \A x \in Live : ~(x.at <= popTime)
      BY <2>1, NothingIsDue
    <3> QED BY <2>1, <2>3, <3>1 DEF Queue!Next, Queue!Answer, Queue!Due
  <2> QED BY <1>11, <2>2, <2>3 DEF PopEnd, PopReturn
<1>12. ASSUME NEW x \in hand, Popped(x) PROVE Unseen \/ Queue!Next
  <2>1. hand = {x} /\ hand' = {} /\ UNCHANGED <<heap, off, pushed, popTime>> /\ popTime # NoPop
    BY <1>0, <1>12 DEF Popped, OncePushed, HolderOK
  <2>2. InHeap' = InHeap /\ \A y \in InHeap : \E i \in 1 .. Len(heap) : y = heap[i]
    BY <1>1, <2>1 DEF InHeap
  <2>3. CASE x.task \in off
    <3>1. Live' = Live
      BY <2>1, <2>2, <2>3 DEF Live
    <3> QED BY <1>12, <2>1, <2>3, <3>1 DEF Popped, Unseen
  <2>4. CASE x.task \notin off
    <3>1. x \notin InHeap
      BY <1>0, <2>2 DEF OncePushed
    <3>2. x \in Live /\ Live' = Live \ {x}
      BY <2>1, <2>2, <2>4, <3>1 DEF Live
    <3>3. x.at <= popTime /\ \A y \in InHeap : x.at <= y.at
      BY <1>0, <2>2 DEF EarliestOK
    <3>4. x \in Items /\ x.at <= x.at
      BY <1>0 DEF HeapTyped, Items
    <3>5. \A y \in Live : x.at <= y.at
      BY <2>1, <3>3, <3>4 DEF Live
    <3>6. due' = Append(due, x.task)
      BY <1>12, <2>4 DEF Popped
    <3>7. Queue!Give(x)
      BY <2>1, <3>2, <3>3, <3>5, <3>6 DEF Queue!Give, Queue!Due
    <3> QED BY <3>2, <3>7 DEF Queue!Next
  <2> QED BY <2>3, <2>4
<1>13. ASSUME NEW t \in 1 .. MaxPushed, CancelTask(t) PROVE Queue!Next
  <2>1. t \in 1 .. pushed /\ off' = off \cup {t} /\ UNCHANGED <<heap, hand, pushed, popTime, due>>
    BY <1>13 DEF CancelTask, popVars
  <2>2. Live' = {x \in Live : x.task # t}
    BY <2>1 DEF Live, InHeap
  <2> QED BY <2>1, <2>2 DEF Queue!Next, Queue!Cancel
<1>14. CASE UNCHANGED heapVars
  BY <1>14 DEF heapVars, Unseen, Live, InHeap, popVars
<1> QED BY <1>2, <1>3, <1>4, <1>5, <1>6, <1>7, <1>8, <1>9, <1>10, <1>11, <1>12, <1>13, <1>14 DEF HeapNext

(* The heap of taskQueue implements the queue: PopDue gives what is due and  *)
(* not cancelled, the earliest first, each once, and leaves nothing due, for *)
(* any number of tasks, while any of them is cancelled at any moment.        *)
THEOREM HeapIsQueue == HeapSpec => QueueImplemented
<1>1. HeapInv /\ [HeapNext]_heapVars => [Queue!Next]_<<pushed, Live, popTime, due>>
  BY StepsOfQueue
<1> QED BY <1>1, HeapStartsEmpty, HeapInductive, PTL DEF HeapSpec, QueueImplemented, Queue!Spec


-----------------------------------------------------------------------------
(* Bitmasks.                                                                 *)

IsMask(m) == m \in [WordIx -> Word]

MaskInv ==
  /\ mask \in [{"session", "system"} -> [WordIx -> Word]]
  /\ bitset \in [{"session", "system"} -> SUBSET Bits]
  /\ \A k \in {"session", "system"} : BitsOf(mask[k]) = bitset[k]

LEMMA Product == ASSUME NEW a \in Nat, NEW b \in Nat PROVE a * b \in Nat
OBVIOUS

LEMMA Multiples ==
  ASSUME NEW a \in Nat, NEW b \in Nat, NEW d \in Nat, a < b
  PROVE  a * d + d <= b * d
<1>1. PICK c \in Nat : b = a + 1 + c
  <2>1. b - a - 1 \in Nat /\ b = a + 1 + (b - a - 1)
    OBVIOUS
  <2> QED BY <2>1
<1>2. b * d = a * d + d + c * d
  BY <1>1
<1>3. c * d \in Nat /\ a * d \in Nat
  BY Product
<1> QED BY <1>2, <1>3

(* An ID is a word and a bit of it, and each of these pairs is an ID.        *)
LEMMA WordAndBit ==
  ASSUME NEW id \in Bits
  PROVE  /\ At(id) \in WordIx /\ Bit(id) \in 0 .. WordBits - 1
         /\ id = At(id) * WordBits + Bit(id)
<1>1. PICK d \in Nat \ {0} : d = WordBits
  BY WordsAssumption
<1>2. id \in Nat /\ id < Words * d
  <2>1. Words * d \in Nat
    BY WordsAssumption, Product
  <2> QED BY <1>1, <2>1 DEF Bits
<1>3. id \div d \in Nat /\ id % d \in 0 .. d - 1 /\ id = (id \div d) * d + (id % d)
  BY <1>2
<1>4. ~(Words <= id \div d)
  <2>1. SUFFICES ASSUME Words <= id \div d PROVE FALSE
    OBVIOUS
  <2>2. CASE Words = id \div d
    BY <1>2, <1>3, <2>2
  <2>3. CASE Words < id \div d
    <3>1. PICK q \in Nat : q = id \div d
      BY <1>3
    <3>2. Words * d + d <= q * d
      BY <1>3, <2>3, <3>1, Multiples, WordsAssumption
    <3>3. Words * d \in Nat /\ q * d \in Nat
      BY WordsAssumption, Product
    <3> QED BY <1>2, <1>3, <3>1, <3>2, <3>3
  <2> QED BY <1>3, <2>1, <2>2, <2>3, WordsAssumption
<1> QED BY <1>1, <1>3, <1>4, WordsAssumption DEF At, Bit, WordIx

LEMMA IdOf ==
  ASSUME NEW i \in WordIx, NEW b \in 0 .. WordBits - 1
  PROVE  \E id \in Bits : At(id) = i /\ Bit(id) = b
<1>1. PICK d \in Nat \ {0} : d = WordBits
  BY WordsAssumption
<1>2. i \in Nat /\ i < Words /\ b \in 0 .. d - 1
  BY <1>1, WordsAssumption DEF WordIx
<1>3. PICK id : id = i * d + b
  OBVIOUS
<1>4. (i * d + b) \div d = i /\ (i * d + b) % d = b
  BY <1>2
<1>5. i * d \in Nat /\ Words * d \in Nat /\ i * d + d <= Words * d
  BY <1>2, Product, Multiples, WordsAssumption
<1>6. id \in 0 .. Words * d - 1
  BY <1>2, <1>3, <1>5
<1> QED BY <1>1, <1>3, <1>4, <1>6 DEF At, Bit, Bits

(* A word is what the mask has of it.                                        *)
LEMMA WordIs ==
  ASSUME NEW m, IsMask(m), NEW i \in WordIx, NEW b
  PROVE  b \in m[i] <=> \E id \in BitsOf(m) : At(id) = i /\ Bit(id) = b
<1>1. b \in m[i] => b \in 0 .. WordBits - 1
  BY DEF IsMask, Word
<1>2. ASSUME b \in m[i] PROVE \E id \in BitsOf(m) : At(id) = i /\ Bit(id) = b
  <2>1. PICK id \in Bits : At(id) = i /\ Bit(id) = b
    BY <1>1, <1>2, IdOf
  <2> QED BY <1>2, <2>1 DEF BitsOf, HasBit
<1>3. ASSUME NEW id \in BitsOf(m), At(id) = i, Bit(id) = b PROVE b \in m[i]
  BY <1>3 DEF BitsOf, HasBit
<1> QED BY <1>2, <1>3

LEMMA SetAndClear ==
  ASSUME NEW m, IsMask(m), NEW id \in Bits
  PROVE  /\ IsMask(SetBit(m, id)) /\ BitsOf(SetBit(m, id)) = BitsOf(m) \cup {id}
         /\ IsMask(ClearBit(m, id)) /\ BitsOf(ClearBit(m, id)) = BitsOf(m) \ {id}
<1>1. At(id) \in WordIx /\ Bit(id) \in 0 .. WordBits - 1
  BY WordAndBit
<1>2. IsMask(SetBit(m, id)) /\ IsMask(ClearBit(m, id))
  BY <1>1 DEF IsMask, Word, SetBit, ClearBit
<1>3. \A x \in Bits : At(x) = At(id) /\ Bit(x) = Bit(id) => x = id
  <2>1. ASSUME NEW x \in Bits, At(x) = At(id), Bit(x) = Bit(id) PROVE x = id
    <3>1. x = At(x) * WordBits + Bit(x) /\ id = At(id) * WordBits + Bit(id)
      BY WordAndBit
    <3> QED BY <2>1, <3>1
  <2> QED BY <2>1
<1>4. ASSUME NEW x \in Bits PROVE HasBit(SetBit(m, id), x) <=> HasBit(m, x) \/ x = id
  <2>1. At(x) \in WordIx
    BY WordAndBit
  <2> QED BY <1>1, <1>3, <2>1 DEF IsMask, HasBit, SetBit
<1>5. ASSUME NEW x \in Bits PROVE HasBit(ClearBit(m, id), x) <=> HasBit(m, x) /\ x # id
  <2>1. At(x) \in WordIx
    BY WordAndBit
  <2> QED BY <1>1, <1>3, <2>1 DEF IsMask, HasBit, ClearBit
<1> QED BY <1>2, <1>4, <1>5 DEF BitsOf

(* The queries and operations are those of sets.                             *)
LEMMA ZeroIs == ASSUME NEW m, IsMask(m) PROVE IsZero(m) <=> BitsOf(m) = {}
<1>1. ASSUME IsZero(m) PROVE BitsOf(m) = {}
  <2>1. \A id \in Bits : At(id) \in WordIx
    BY WordAndBit
  <2> QED BY <1>1, <2>1 DEF IsZero, BitsOf, HasBit
<1>2. ASSUME BitsOf(m) = {}, NEW i \in WordIx PROVE m[i] = {}
  BY <1>2, WordIs
<1> QED BY <1>1, <1>2 DEF IsZero

LEMMA FirstWord == 0 \in WordIx
BY WordsAssumption DEF WordIx

LEMMA AllIs ==
  ASSUME NEW m, IsMask(m), NEW o, IsMask(o)
  PROVE  ContainsAll(m, o) <=> BitsOf(o) \subseteq BitsOf(m)
<1>1. ContainsAll(m, o) <=> \A i \in WordIx : o[i] \subseteq m[i]
  BY FirstWord DEF ContainsAll, OnlyFirst
<1>2. ASSUME \A i \in WordIx : o[i] \subseteq m[i] PROVE BitsOf(o) \subseteq BitsOf(m)
  BY <1>2, WordAndBit DEF BitsOf, HasBit
<1>3. ASSUME BitsOf(o) \subseteq BitsOf(m), NEW i \in WordIx PROVE o[i] \subseteq m[i]
  BY <1>3, WordIs
<1> QED BY <1>1, <1>2, <1>3

LEMMA AnyIs ==
  ASSUME NEW m, IsMask(m), NEW o, IsMask(o)
  PROVE  ContainsAny(m, o) <=> BitsOf(m) \cap BitsOf(o) # {}
<1>1. ContainsAny(m, o) <=> \E i \in WordIx : m[i] \cap o[i] # {}
  BY FirstWord DEF ContainsAny, OnlyFirst
<1>2. ASSUME NEW i \in WordIx, NEW b \in m[i], b \in o[i] PROVE BitsOf(m) \cap BitsOf(o) # {}
  <2>1. b \in 0 .. WordBits - 1
    BY <1>2 DEF IsMask, Word
  <2>2. PICK id \in Bits : At(id) = i /\ Bit(id) = b
    BY <1>2, <2>1, IdOf
  <2> QED BY <1>2, <2>2 DEF BitsOf, HasBit
<1>3. ASSUME NEW id \in BitsOf(m), id \in BitsOf(o) PROVE \E i \in WordIx : m[i] \cap o[i] # {}
  <2>1. At(id) \in WordIx
    BY WordAndBit DEF BitsOf
  <2> QED BY <1>3, <2>1 DEF BitsOf, HasBit
<1> QED BY <1>1, <1>2, <1>3

LEMMA WordwiseIs ==
  ASSUME NEW m, IsMask(m), NEW o, IsMask(o)
  PROVE  /\ BitsOf(OrMask(m, o)) = BitsOf(m) \cup BitsOf(o)
         /\ BitsOf(AndMask(m, o)) = BitsOf(m) \cap BitsOf(o)
         /\ BitsOf(AndNotMask(m, o)) = BitsOf(m) \ BitsOf(o)
<1>1. \A id \in Bits : At(id) \in WordIx
  BY WordAndBit
<1>2. BitsOf(OrMask(m, o)) = BitsOf(m) \cup BitsOf(o)
  BY <1>1 DEF BitsOf, HasBit, OrMask
<1>3. BitsOf(AndMask(m, o)) = BitsOf(m) \cap BitsOf(o)
  BY <1>1 DEF BitsOf, HasBit, AndMask
<1>4. BitsOf(AndNotMask(m, o)) = BitsOf(m) \ BitsOf(o)
  BY <1>1 DEF BitsOf, HasBit, AndNotMask
<1> QED BY <1>2, <1>3, <1>4

LEMMA MaskStarts == MaskInit => MaskInv
<1> SUFFICES ASSUME MaskInit PROVE MaskInv
  OBVIOUS
<1>1. \A k \in {"session", "system"} : mask[k] = [i \in WordIx |-> {}] /\ bitset[k] = {}
  BY DEF MaskInit
<1>2. mask \in [{"session", "system"} -> [WordIx -> Word]] /\ bitset \in [{"session", "system"} -> SUBSET Bits]
  BY DEF MaskInit, Word
<1>3. ASSUME NEW k \in {"session", "system"} PROVE BitsOf(mask[k]) = {}
  BY <1>1, WordAndBit DEF BitsOf, HasBit
<1> QED BY <1>1, <1>2, <1>3 DEF MaskInv

LEMMA MaskSteps == MaskInv /\ [MaskNext]_maskVars => MaskInv'
<1> SUFFICES ASSUME MaskInv, [MaskNext]_maskVars PROVE MaskInv'
  OBVIOUS
<1>1. CASE UNCHANGED maskVars
  BY <1>1 DEF maskVars, MaskInv
<1>2. ASSUME NEW k \in {"session", "system"}, NEW id \in Bits, NEW n, NEW s,
             IsMask(n), s \in SUBSET Bits, BitsOf(n) = s,
             mask' = [mask EXCEPT ![k] = n], bitset' = [bitset EXCEPT ![k] = s]
      PROVE  MaskInv'
  BY <1>2 DEF MaskInv, IsMask
<1>3. ASSUME NEW k \in {"session", "system"}, NEW id \in Bits, SetId(k, id) \/ ClearId(k, id)
      PROVE  MaskInv'
  <2>1. IsMask(mask[k]) /\ bitset[k] \in SUBSET Bits /\ BitsOf(mask[k]) = bitset[k]
    BY DEF MaskInv, IsMask
  <2>2. /\ IsMask(SetBit(mask[k], id)) /\ BitsOf(SetBit(mask[k], id)) = bitset[k] \cup {id}
        /\ IsMask(ClearBit(mask[k], id)) /\ BitsOf(ClearBit(mask[k], id)) = bitset[k] \ {id}
    BY <2>1, SetAndClear
  <2>3. bitset[k] \cup {id} \in SUBSET Bits /\ bitset[k] \ {id} \in SUBSET Bits
    BY <2>1
  <2> QED BY <1>2, <1>3, <2>2, <2>3 DEF SetId, ClearId
<1> QED BY <1>1, <1>3 DEF MaskNext

(* A mask is the set of the IDs put into it and not taken out, and its       *)
(* queries, with their short cut after the first word, are those of sets,    *)
(* for any number of words and bits.                                         *)
THEOREM MasksHoldSets == MaskSpec => []MasksAreSets
<1>1. MaskInv => MasksAreSets
  <2> SUFFICES ASSUME MaskInv PROVE MasksAreSets
    OBVIOUS
  <2>1. /\ IsMask(mask["session"]) /\ IsMask(mask["system"])
        /\ BitsOf(mask["session"]) = bitset["session"] /\ BitsOf(mask["system"]) = bitset["system"]
    BY DEF MaskInv, IsMask
  <2>2. /\ ContainsAll(mask["session"], mask["system"]) <=> bitset["system"] \subseteq bitset["session"]
        /\ ContainsAny(mask["session"], mask["system"]) <=> bitset["session"] \cap bitset["system"] # {}
        /\ IsZero(mask["session"]) <=> bitset["session"] = {}
    BY <2>1, AllIs, AnyIs, ZeroIs
  <2>3. IsDisjoint(mask["session"], mask["system"]) <=> bitset["session"] \cap bitset["system"] = {}
    BY <2>2 DEF IsDisjoint
  <2> QED BY <2>1, <2>2, <2>3, WordwiseIs DEF MasksAreSets
<1> QED BY MaskStarts, MaskSteps, <1>1, PTL DEF MaskSpec

-----------------------------------------------------------------------------
(* Batching.                                                                 *)

USE DEF Lists, Stages

(* What a sequence of batches must be.                                       *)
Sound(bs) == ConflictFree(bs) /\ Apart(bs) /\ FirstFitting(bs)

(* The batches that are stored; a list being rebuilt lacks the new loop.     *)
StoredOK ==
  \A x \in Lists :
     /\ Sound(batches[x]) /\ Members(batches[x]) \subseteq loops[x]
     /\ x # list => loops[x] \subseteq Members(batches[x])

(* The batches being built hold, with the loops still to be placed, all the  *)
(* loops of the list, and those loops could not be placed before.            *)
DraftOK ==
  list # NoList =>
    /\ Sound(draft)
    /\ loops[list] = todo \cup batch \cup later \cup Members(draft)
    /\ todo \cap batch = {} /\ todo \cap later = {} /\ batch \cap later = {}
    /\ (todo \cup batch \cup later) \cap Members(draft) = {}
    /\ \A l, m \in batch : l # m => ~Conflicts(l, m)
    /\ \A l \in todo \cup batch \cup later, j \in DOMAIN draft : Blocked(l, draft[j])
    /\ \A l \in later : Blocked(l, batch)
    /\ \A l \in todo, m \in batch : Name[m] <= Name[l]

BatchInv == TypeOK /\ StoredOK /\ DraftOK

LEMMA NoListApart == NoList \notin Lists
  BY StagesAssumption DEF NoList

(* Conflicts does not depend on the order of its arguments.                  *)
LEMMA ConflictsSymmetric ==
  ASSUME NEW l, NEW m
  PROVE  Conflicts(l, m) <=> Conflicts(m, l)
  BY Zenon DEF Conflicts

(* Where the fields of the loops concerned stay, so do the conflicts.        *)
LEMMA ConflictsStay ==
  ASSUME NEW l, NEW m, fields'[l] = fields[l], fields'[m] = fields[m]
  PROVE  Conflicts(l, m)' <=> Conflicts(l, m)
  BY DEF Conflicts, Reads, Writes, ResReads, ResWrites, Access

LEMMA MembersAppend ==
  ASSUME NEW q \in Seq(SUBSET Loops), NEW b \in SUBSET Loops
  PROVE  Members(Append(q, b)) = Members(q) \cup b
<1>1. Members(Append(q, b)) \subseteq Members(q) \cup b
  <2>1. \A k \in DOMAIN Append(q, b) : k \in DOMAIN q \/ k = Len(q) + 1
    BY AppendIs
  <2> QED
    BY <2>1, AppendIs DEF Members
<1>2. b \subseteq Members(Append(q, b))
  <2>1. Len(q) + 1 \in DOMAIN Append(q, b)
    BY AppendIs
  <2> QED
    BY <2>1, AppendIs DEF Members
<1>3. Members(q) \subseteq Members(Append(q, b))
  <2>1. \A k \in DOMAIN q : k \in DOMAIN Append(q, b) /\ Append(q, b)[k] = q[k]
    BY AppendIs
  <2> QED
    BY <2>1 DEF Members
<1> QED
  BY <1>1, <1>2, <1>3

(* A batch of loops that could not go earlier and do not conflict may follow *)
(* sound batches.                                                            *)
LEMMA SoundAppend ==
  ASSUME NEW q \in Seq(SUBSET Loops), NEW b \in SUBSET Loops,
         Sound(q), b # {}, b \cap Members(q) = {},
         \A l, m \in b : l # m => ~Conflicts(l, m),
         \A l \in b, j \in DOMAIN q : Blocked(l, q[j])
  PROVE  Sound(Append(q, b))
<1> DEFINE r == Append(q, b)
<1>1. \A k \in DOMAIN r : (k \in DOMAIN q /\ r[k] = q[k]) \/ (k = Len(q) + 1 /\ r[k] = b)
  BY AppendIs
<1>2. \A j \in DOMAIN q : j < Len(q) + 1
  BY AppendIs
<1>3. \A j, k \in DOMAIN r : j < k => j \in DOMAIN q /\ r[j] = q[j]
  BY AppendIs
<1>4. \A j \in DOMAIN q : q[j] \cap b = {}
  BY DEF Members
<1> HIDE DEF r
<1>5. ConflictFree(r)
  BY <1>1 DEF Sound, ConflictFree
<1>6. Apart(r)
  BY <1>1, <1>3, <1>4 DEF Sound, Apart
<1>7. FirstFitting(r)
  BY <1>1, <1>3 DEF Sound, FirstFitting
<1> QED
  BY <1>5, <1>6, <1>7 DEF Sound, r

(* Stored batches are sound if they were before the fields of other loops    *)
(* changed.                                                                  *)
LEMMA SoundStays ==
  ASSUME NEW x \in Lists, Sound(batches'[x]),
         \A l \in Members(batches'[x]) : fields'[l] = fields[l]
  PROVE  Sound(batches[x])'
<1>0. \A k \in DOMAIN batches'[x] : \A l \in batches'[x][k] : l \in Members(batches'[x])
  BY DEF Members
<1>1. \A l, m \in Members(batches'[x]) : Conflicts(l, m)' <=> Conflicts(l, m)
  BY ConflictsStay
<1>2. ConflictFree(batches[x])'
  BY <1>0, <1>1 DEF Sound, ConflictFree
<1>3. Apart(batches[x])'
  BY DEF Sound, Apart
<1>4. FirstFitting(batches[x])'
  BY <1>0, <1>1 DEF Sound, FirstFitting, Blocked
<1> QED
  BY <1>2, <1>3, <1>4 DEF Sound

LEMMA SoundEmpty == Sound(<<>>) /\ Members(<<>>) = {}
  BY DEF Sound, ConflictFree, Apart, FirstFitting, Members

LEMMA BatchTypeInit == Init => TypeOK
  BY DEF Init, TypeOK

LEMMA BatchTypeNext == TypeOK /\ [Next]_vars => TypeOK'
<1> SUFFICES ASSUME TypeOK, [Next]_vars PROVE TypeOK'
  OBVIOUS
<1> USE DEF TypeOK
<1>1. ASSUME NEW l \in Loops, NEW fs \in Fields, NEW st \in Stages, AddLoop(l, fs, st) PROVE TypeOK'
  <2>1. list' \in Lists
    BY <1>1 DEF AddLoop, ListOf, IsGlobal
  <2>2. fields' \in [Loops -> SUBSET Field]
    BY <1>1, FieldsAssumption DEF AddLoop
  <2>3. loops' \in [Lists -> SUBSET Loops] /\ todo' \in SUBSET Loops
    BY <1>1, <2>1 DEF AddLoop
  <2> QED
    BY <1>1, <2>1, <2>2, <2>3 DEF AddLoop
<1>2. ASSUME NEW l \in Loops, Consider(l) PROVE TypeOK'
  BY <1>2 DEF Consider, Deferred
<1>3. CASE CloseBatch
  BY <1>3 DEF CloseBatch
<1>4. CASE Publish
  BY <1>4 DEF Publish
<1>5. CASE UNCHANGED vars
  BY <1>5 DEF vars
<1> QED
  BY <1>1, <1>2, <1>3, <1>4, <1>5 DEF Next

LEMMA StoredInit == Init => StoredOK /\ DraftOK
  BY SoundEmpty DEF Init, StoredOK, DraftOK

LEMMA StoredNext == BatchInv /\ [Next]_vars => StoredOK'
<1> SUFFICES ASSUME BatchInv, [Next]_vars PROVE StoredOK'
  OBVIOUS
<1> USE DEF BatchInv, TypeOK
<1>1. ASSUME NEW l \in Loops, NEW fs \in Fields, NEW st \in Stages, AddLoop(l, fs, st)
      PROVE StoredOK'
  <2>1. list' \in Lists /\ list = NoList
    BY <1>1 DEF AddLoop, ListOf, IsGlobal
  <2>2. batches' = batches /\ \A m \in Loops : m # l => fields'[m] = fields[m]
    BY <1>1 DEF AddLoop
  <2>3. \A x \in Lists : l \notin Members(batches[x])
    BY <1>1 DEF AddLoop, Registered, StoredOK
  <2>4. \A x \in Lists : Members(batches[x]) \subseteq Loops
    BY DEF StoredOK
  <2>5. \A x \in Lists : Sound(batches[x])'
    <3> SUFFICES ASSUME NEW x \in Lists PROVE Sound(batches[x])'
      OBVIOUS
    <3> QED
      BY <2>2, <2>3, <2>4, SoundStays DEF StoredOK
  <2>6. \A x \in Lists : loops[x] \subseteq loops'[x] /\ (x # list' => loops'[x] = loops[x])
    BY <1>1, <2>1 DEF AddLoop
  <2>8. \A x \in Lists : Members(batches[x]) = loops[x]
    BY <2>1, NoListApart DEF StoredOK
  <2>9. \A x \in Lists : Members(batches[x])' = loops[x]
    BY <2>2, <2>8 DEF Members
  <2> QED
    BY <2>5, <2>6, <2>9 DEF StoredOK
<1>2. CASE UNCHANGED <<fields, loops, batches, list>>
  <2>1. \A x \in Lists : Sound(batches[x])'
    <3> SUFFICES ASSUME NEW x \in Lists PROVE Sound(batches[x])'
      OBVIOUS
    <3> QED
      BY <1>2, SoundStays DEF StoredOK
  <2> QED
    BY <1>2, <2>1 DEF StoredOK, Members
<1>3. CASE Publish
  <2>1. list \in Lists /\ list' = NoList /\ UNCHANGED <<fields, loops>>
    BY <1>3 DEF Publish
  <2>2. batches' = [batches EXCEPT ![list] = draft]
    BY <1>3 DEF Publish
  <2>3. Sound(draft) /\ loops[list] = Members(draft)
    <3>1. todo = {} /\ batch = {} /\ list # NoList
      BY <1>3 DEF Publish
    <3>2. later = {}
      BY <3>1 DEF DraftOK, Blocked
    <3> QED
      BY <3>1, <3>2 DEF DraftOK
  <2>4. \A x \in Lists : Sound(batches'[x]) /\ loops[x] = Members(batches'[x])
    <3> SUFFICES ASSUME NEW x \in Lists PROVE Sound(batches'[x]) /\ loops[x] = Members(batches'[x])
      OBVIOUS
    <3>1. CASE x = list
      BY <2>1, <2>2, <2>3, <3>1
    <3>2. CASE x # list
      <4>1. batches'[x] = batches[x]
        BY <2>2, <3>2
      <4> QED
        BY <3>2, <4>1 DEF StoredOK
    <3> QED
      BY <3>1, <3>2
  <2>5. \A x \in Lists : Sound(batches[x])'
    BY <2>1, <2>4, SoundStays
  <2> QED
    BY <2>1, <2>4, <2>5 DEF StoredOK, Members
<1>4. ASSUME NEW l \in Loops, Consider(l) PROVE StoredOK'
  BY <1>4, <1>2 DEF Consider
<1>5. CASE CloseBatch
  BY <1>5, <1>2 DEF CloseBatch
<1>6. CASE UNCHANGED vars
  BY <1>6, <1>2 DEF vars
<1> QED
  BY <1>1, <1>3, <1>4, <1>5, <1>6 DEF Next

LEMMA DraftNext == BatchInv /\ [Next]_vars => DraftOK'
<1> SUFFICES ASSUME BatchInv, [Next]_vars PROVE DraftOK'
  OBVIOUS
<1> USE DEF BatchInv, TypeOK
<1>1. ASSUME NEW l \in Loops, NEW fs \in Fields, NEW st \in Stages, AddLoop(l, fs, st)
      PROVE DraftOK'
  <2>1. list' \in Lists
    BY <1>1 DEF AddLoop, ListOf, IsGlobal
  <2>2. /\ batch' = {} /\ later' = {} /\ draft' = <<>> /\ todo' = loops'[list']
    BY <1>1 DEF AddLoop
  <2>3. Sound(draft)' /\ Members(draft)' = {}
    BY <2>2 DEF Sound, ConflictFree, Apart, FirstFitting, Members
  <2>4. DOMAIN draft' = {}
    BY <2>2
  <2> QED
    BY <2>2, <2>3, <2>4 DEF DraftOK
<1>2. ASSUME NEW l \in Loops, Consider(l) PROVE DraftOK'
  <2>1. /\ list # NoList /\ l \in todo /\ todo' = todo \ {l}
        /\ \A m \in todo : Name[l] <= Name[m]
        /\ UNCHANGED <<fields, loops, list, draft>>
    BY <1>2 DEF Consider
  <2>2. Sound(draft)' /\ Members(draft)' = Members(draft)
    <3>1. Sound(draft) /\ \A k, m : Conflicts(k, m)' <=> Conflicts(k, m)
      BY <2>1 DEF DraftOK, Conflicts, Reads, Writes, ResReads, ResWrites, Access
    <3>2. ConflictFree(draft)'
      BY <2>1, <3>1 DEF Sound, ConflictFree
    <3>3. Apart(draft)'
      BY <2>1, <3>1 DEF Sound, Apart
    <3>4. FirstFitting(draft)'
      BY <2>1, <3>1 DEF Sound, FirstFitting, Blocked
    <3>5. Members(draft)' = Members(draft)
      BY <2>1 DEF Members
    <3> QED
      BY <3>2, <3>3, <3>4, <3>5 DEF Sound
  <2>3. \A k, m : Conflicts(k, m)' <=> Conflicts(k, m)
    BY <2>1 DEF Conflicts, Reads, Writes, ResReads, ResWrites, Access
  <2>4. CASE InTheWay(l) /\ later' = Deferred(l) /\ batch' = batch
    <3>1. later' = later \cup {l} /\ Blocked(l, batch)
      BY <2>1, <2>4 DEF Deferred, InTheWay, Blocked, DraftOK
    <3>2. loops[list] = todo' \cup batch' \cup later' \cup Members(draft)
      BY <2>1, <2>4, <3>1 DEF DraftOK
    <3>3. /\ todo' \cap batch' = {} /\ todo' \cap later' = {} /\ batch' \cap later' = {}
          /\ (todo' \cup batch' \cup later') \cap Members(draft) = {}
      BY <2>1, <2>4, <3>1 DEF DraftOK
    <3>4. \A k \in todo' \cup batch' \cup later', j \in DOMAIN draft : Blocked(k, draft[j])
      BY <2>1, <2>4, <3>1 DEF DraftOK
    <3>5. \A k \in later' : Blocked(k, batch')
      BY <2>1, <2>4, <3>1 DEF DraftOK
    <3>6. /\ \A k, m \in batch' : k # m => ~Conflicts(k, m)
          /\ \A k \in todo', m \in batch' : Name[m] <= Name[k]
      BY <2>1, <2>4 DEF DraftOK
    <3> QED
      BY <2>1, <2>2, <2>3, <3>2, <3>3, <3>4, <3>5, <3>6 DEF DraftOK, Blocked
  <2>5. CASE ~InTheWay(l) /\ batch' = batch \cup {l} /\ later' = later
    <3>1. \A m \in batch : ~Conflicts(l, m) /\ ~Conflicts(m, l)
      BY <2>5, ConflictsSymmetric DEF InTheWay
    <3>2. loops[list] = todo' \cup batch' \cup later' \cup Members(draft)
      BY <2>1, <2>5 DEF DraftOK
    <3>3. /\ todo' \cap batch' = {} /\ todo' \cap later' = {} /\ batch' \cap later' = {}
          /\ (todo' \cup batch' \cup later') \cap Members(draft) = {}
      BY <2>1, <2>5 DEF DraftOK
    <3>4. \A k \in todo' \cup batch' \cup later', j \in DOMAIN draft : Blocked(k, draft[j])
      BY <2>1, <2>5 DEF DraftOK
    <3>5. \A k \in later' : Blocked(k, batch')
      BY <2>1, <2>5 DEF DraftOK, Blocked
    <3>6. \A k, m \in batch' : k # m => ~Conflicts(k, m)
      BY <2>1, <2>5, <3>1 DEF DraftOK
    <3>7. \A k \in todo', m \in batch' : Name[m] <= Name[k]
      BY <2>1, <2>5 DEF DraftOK
    <3> QED
      BY <2>1, <2>2, <2>3, <3>2, <3>3, <3>4, <3>5, <3>6, <3>7 DEF DraftOK, Blocked
  <2> QED
    BY <1>2, <2>4, <2>5 DEF Consider
<1>3. CASE CloseBatch
  <2>1. /\ list # NoList /\ todo = {} /\ batch # {} /\ draft' = Append(draft, batch)
        /\ todo' = later /\ batch' = {} /\ later' = {} /\ UNCHANGED <<fields, loops, list>>
    BY <1>3 DEF CloseBatch
  <2>2. Sound(Append(draft, batch)) /\ Members(Append(draft, batch)) = Members(draft) \cup batch
    BY <2>1, SoundAppend, MembersAppend DEF DraftOK
  <2>3. \A k, m : Conflicts(k, m)' <=> Conflicts(k, m)
    BY <2>1 DEF Conflicts, Reads, Writes, ResReads, ResWrites, Access
  <2>4. Sound(draft') /\ Members(draft') = Members(draft) \cup batch
    BY <2>1, <2>2
  <2>5. Sound(draft)' /\ Members(draft)' = Members(draft) \cup batch
    <3>1. ConflictFree(draft)'
      BY <2>3, <2>4 DEF Sound, ConflictFree
    <3>2. Apart(draft)'
      BY <2>4 DEF Sound, Apart
    <3>3. FirstFitting(draft)'
      BY <2>3, <2>4 DEF Sound, FirstFitting, Blocked
    <3>4. Members(draft)' = Members(draft) \cup batch
      BY <2>4 DEF Members
    <3> QED
      BY <3>1, <3>2, <3>3, <3>4 DEF Sound
  <2>6. \A k \in later, j \in DOMAIN draft' : Blocked(k, draft'[j])
    <3>1. \A j \in DOMAIN draft' : (j \in DOMAIN draft /\ draft'[j] = draft[j]) \/ draft'[j] = batch
      BY <2>1, AppendIs
    <3> QED
      BY <2>1, <3>1 DEF DraftOK
  <2> QED
    BY <2>1, <2>3, <2>5, <2>6 DEF DraftOK, Blocked
<1>4. CASE Publish
  BY <1>4 DEF Publish, DraftOK
<1>5. CASE UNCHANGED vars
  <2>1. \A k, m : Conflicts(k, m)' <=> Conflicts(k, m)
    BY <1>5 DEF vars, Conflicts, Reads, Writes, ResReads, ResWrites, Access
  <2>2. UNCHANGED <<loops, list, todo, batch, later, draft>>
    BY <1>5 DEF vars
  <2> QED
    BY <2>1, <2>2 DEF DraftOK, Sound, ConflictFree, Apart, FirstFitting, Blocked, Members
<1> QED
  BY <1>1, <1>2, <1>3, <1>4, <1>5 DEF Next

THEOREM BatchInductive == Spec => []BatchInv
<1>1. Init => BatchInv
  BY BatchTypeInit, StoredInit DEF BatchInv
<1>2. BatchInv /\ [Next]_vars => BatchInv'
  BY BatchTypeNext, StoredNext, DraftNext DEF BatchInv
<1> QED
  BY <1>1, <1>2, PTL DEF Spec

(* Every variable keeps to its type.                                         *)
THEOREM BatchTypes == Spec => []TypeOK
<1>1. BatchInv => TypeOK
  BY DEF BatchInv
<1> QED
  BY <1>1, BatchInductive, PTL

(* Loops of a batch never conflict.                                          *)
THEOREM BatchesNeverConflict == Spec => []NoConflictInBatch
<1>1. BatchInv => NoConflictInBatch
  BY DEF BatchInv, StoredOK, Sound, NoConflictInBatch
<1> QED
  BY <1>1, BatchInductive, PTL

(* Every registered loop is in exactly one batch.                            *)
THEOREM BatchesPartition == Spec => []EachLoopOnce
<1>1. BatchInv => EachLoopOnce
  BY NoListApart DEF BatchInv, StoredOK, Sound, EachLoopOnce
<1> QED
  BY <1>1, BatchInductive, PTL

(* No loop is put in a later batch than it has to be.                        *)
THEOREM BatchesFirstFit == Spec => []FirstFit
<1>1. BatchInv => FirstFit
  BY DEF BatchInv, StoredOK, Sound, FirstFit
<1> QED
  BY <1>1, BatchInductive, PTL

=============================================================================
