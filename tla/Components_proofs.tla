-------------------------- MODULE Components_proofs --------------------------
(****************************************************************************)
(* Proofs about Components for any types, objects, callers and times: the   *)
(* mask agrees with the slots, a component that has left its slot is        *)
(* detached once while the session is open, and pointers stay good.         *)
(****************************************************************************)
EXTENDS Components, FiniteSetTheorems, TLAPS

(* A slot holds an object of its type that has been placed, and every object *)
(* that was placed was added.                                                *)
SlotsOK ==
  /\ placed \subseteq added
  /\ \A c \in Types : slot[c] # NoInst => slot[c] \in placed /\ TypeOf[slot[c]] = c

(* Who is about to call Detach on an object.                                 *)
ByCaller(i) == {p \in Callers : pc[p] = "detach" /\ arg[p] = i}
ByTick(i)   == tpc = "detach" /\ targ = i

(* What DetachedOnce counts, told apart: an object was never removed, is     *)
(* about to be detached by one caller or by the scheduler, or was detached.  *)
Accounted(i) ==
  \/ ~Left(i) /\ Served(i) = 0 /\ ByCaller(i) = {} /\ ~ByTick(i)
  \/ Left(i) /\ Served(i) = 1 /\ ByCaller(i) = {} /\ ~ByTick(i)
  \/ Left(i) /\ Served(i) = 0 /\ ByCaller(i) = {} /\ ByTick(i)
  \/ Left(i) /\ Served(i) = 0 /\ ~ByTick(i) /\ \E p \in Callers : ByCaller(i) = {p}

BaseOK == TypeOK /\ MaskMatches /\ SlotsOK /\ (cpc = "open" => \A i \in Insts : Accounted(i))

(* What a provider has sent is on its way to a slot, once.                   *)
ProvidedOK ==
  \A p \in Callers : pc[p] = "provide" =>
    /\ arg[p] \in added /\ arg[p] \notin placed
    /\ \A q \in Callers \ {p} : pc[q] = "provide" => arg[q] # arg[p]

IInv == BaseOK /\ ProvidedOK

-----------------------------------------------------------------------------
LEMMA InitInv == Init => IInv
  BY TimeAssumption, InstAssumption
  DEF Init, IInv, BaseOK, ProvidedOK, TypeOK, Times, MaskMatches, SlotsOK, Accounted, Served, Left,
      ByCaller, ByTick

(* Steps that leave the slots and whoever detaches alone.                    *)
LEMMA AccountedKept ==
  ASSUME NEW i \in Insts, Accounted(i),
         slot' = slot, placed' = placed, detaches' = detaches, missed' = missed, targ' = targ,
         tpc' = "detach" <=> tpc = "detach",
         \A p \in Callers : pc'[p] = "detach" <=> pc[p] = "detach",
         \A p \in Callers : pc[p] = "detach" => arg'[p] = arg[p]
  PROVE  Accounted(i)'
<1>1. Left(i)' <=> Left(i)
  BY DEF Left
<1>2. ByCaller(i)' = ByCaller(i)
  BY DEF ByCaller
<1>3. ByTick(i)' <=> ByTick(i)
  BY DEF ByTick
<1> QED BY <1>1, <1>2, <1>3 DEF Accounted, Served

LEMMA AddKeeps ==
  ASSUME BaseOK, NEW p \in Callers, NEW i \in Insts, NEW e \in Untils \cup {NoTime}, Add(p, i, e)
  PROVE  BaseOK'
<1> DEFINE c == TypeOf[i]
<1>1. c \in Types /\ i \notin added /\ i # NoInst /\ pc[p] = "idle"
  BY InstAssumption DEF Add
<1>2. /\ slot' = [slot EXCEPT ![c] = IF slot[c] = NoInst THEN i ELSE slot[c]]
      /\ placed' = placed \cup {slot'[c]} /\ added' = added \cup {i}
  BY DEF Add, Stored
<1>3. TypeOK'
  <2>1. pc' \in [Callers -> {"idle", "attach", "expire", "detach", "provide"}]
    BY DEF BaseOK, TypeOK, Add, AfterCopy
  <2>2. slot' \in [Types -> Insts \cup {NoInst}] /\ placed' \in SUBSET Insts
    BY <1>1, <1>2 DEF BaseOK, TypeOK
  <2>3. arg' \in [Callers -> Insts \cup {NoInst}] /\ until' \in [Callers -> Times \cup {NoTime}]
    BY TimeAssumption DEF BaseOK, TypeOK, Times, Add
  <2> QED BY <1>1, <2>1, <2>2, <2>3 DEF BaseOK, TypeOK, Add, tickVars, closeVars
<1>4. MaskMatches'
  BY <1>1, <1>2 DEF BaseOK, TypeOK, MaskMatches, Add
<1>5. SlotsOK'
  BY <1>1, <1>2 DEF BaseOK, TypeOK, SlotsOK
<1>6. ASSUME cpc' = "open", NEW j \in Insts PROVE Accounted(j)'
  <2>1. Accounted(j) /\ Served(j)' = Served(j)
    BY <1>6 DEF BaseOK, Add, closeVars, Served
  <2>2. ByCaller(j)' = ByCaller(j) /\ (ByTick(j)' <=> ByTick(j))
    BY <1>1 DEF BaseOK, TypeOK, ByCaller, ByTick, Add, AfterCopy, tickVars
  <2>3. Left(j)' <=> Left(j)
    BY <1>1, <1>2, InstAssumption DEF BaseOK, TypeOK, SlotsOK, Left
  <2> QED BY <2>1, <2>2, <2>3 DEF Accounted
<1> QED BY <1>3, <1>4, <1>5, <1>6 DEF BaseOK

(* Taking an object out of its slot.                                         *)
LEMMA EmptiedIs ==
  ASSUME TypeOK, MaskMatches, SlotsOK, NEW c \in Types, NEW i, slot[c] = i, i # NoInst,
         slot' = Emptied(c), mask' = Unmasked(c), placed' = placed, added' = added
  PROVE  /\ slot' \in [Types -> Insts \cup {NoInst}] /\ mask' \in SUBSET Types
         /\ MaskMatches' /\ SlotsOK'
         /\ i \in Insts /\ ~Left(i) /\ Left(i)'
         /\ \A j \in Insts \ {i} : Left(j)' <=> Left(j)
<1>1. slot' = [slot EXCEPT ![c] = NoInst] /\ mask' = mask \ {c}
  BY DEF Emptied, Unmasked
<1>2. i \in Insts /\ i \in placed /\ TypeOf[i] = c
  BY DEF TypeOK, SlotsOK
<1>3. slot' \in [Types -> Insts \cup {NoInst}] /\ mask' \in SUBSET Types
  BY <1>1 DEF TypeOK
<1>4. MaskMatches'
  BY <1>1 DEF TypeOK, MaskMatches
<1>5. SlotsOK'
  BY <1>1 DEF TypeOK, SlotsOK
<1>6. ~Left(i) /\ Left(i)'
  BY <1>1, <1>2 DEF TypeOK, Left
<1>7. \A j \in Insts \ {i} : Left(j)' <=> Left(j)
  BY <1>1, <1>2, InstAssumption DEF TypeOK, Left
<1> QED BY <1>2, <1>3, <1>4, <1>5, <1>6, <1>7

(* Detach is called once more on an object.                                  *)
LEMMA OnceMore ==
  ASSUME NEW f \in [Insts -> Nat], NEW i
  PROVE  [f EXCEPT ![i] = @ + 1] \in [Insts -> Nat]
<1>1. CASE i \in Insts
  BY <1>1
<1>2. CASE i \notin Insts
  BY <1>2
<1> QED BY <1>1, <1>2

LEMMA RemoveKeeps ==
  ASSUME BaseOK, NEW p \in Callers, NEW c \in Types, Remove(p, c)
  PROVE  BaseOK'
<1>0. PICK i : i = slot[c]
  OBVIOUS
<1>1. /\ pc[p] = "idle" /\ pc' = [pc EXCEPT ![p] = "detach"] /\ arg' = [arg EXCEPT ![p] = i]
      /\ slot[c] # NoInst /\ slot' = Emptied(c) /\ mask' = Unmasked(c)
      /\ placed' = placed /\ added' = added
  BY <1>0 DEF Remove, histVars
<1>2. /\ slot' \in [Types -> Insts \cup {NoInst}] /\ mask' \in SUBSET Types
      /\ MaskMatches' /\ SlotsOK'
      /\ i \in Insts /\ ~Left(i) /\ Left(i)'
      /\ \A j \in Insts \ {i} : Left(j)' <=> Left(j)
  BY <1>0, <1>1, EmptiedIs DEF BaseOK
<1>3. TypeOK'
  BY <1>1, <1>2 DEF BaseOK, TypeOK, Remove, tickVars, closeVars, histVars
<1>4. ASSUME cpc' = "open", NEW j \in Insts PROVE Accounted(j)'
  <2>1. Accounted(j) /\ Served(j)' = Served(j) /\ (ByTick(j)' <=> ByTick(j))
    BY <1>4 DEF BaseOK, Remove, tickVars, closeVars, histVars, ByTick, Served
  <2>2. CASE j = i
    <3>1. ByCaller(j) = {} /\ Served(j) = 0 /\ ~ByTick(j)
      BY <1>2, <2>1, <2>2 DEF Accounted
    <3>2. \A q \in Callers \ {p} : ~(pc'[q] = "detach" /\ arg'[q] = j)
      BY <1>1, <3>1 DEF BaseOK, TypeOK, ByCaller
    <3>3. pc'[p] = "detach" /\ arg'[p] = j
      BY <1>1, <2>2 DEF BaseOK, TypeOK
    <3>4. ByCaller(j)' = {p}
      BY <3>2, <3>3 DEF ByCaller
    <3> QED BY <1>2, <2>1, <2>2, <3>1, <3>4 DEF Accounted
  <2>3. CASE j # i
    <3>1. ByCaller(j)' = ByCaller(j)
      BY <1>1, <2>3 DEF BaseOK, TypeOK, ByCaller
    <3> QED BY <1>2, <2>1, <2>3, <3>1 DEF Accounted
  <2> QED BY <2>2, <2>3
<1> QED BY <1>2, <1>3, <1>4 DEF BaseOK

LEMMA DetachKeeps ==
  ASSUME BaseOK, NEW p \in Callers, Detach(p)
  PROVE  BaseOK'
<1>1. /\ pc[p] = "detach" /\ pc' = [pc EXCEPT ![p] = "idle"]
      /\ detaches' = [detaches EXCEPT ![arg[p]] = @ + 1]
      /\ arg' = arg /\ slot' = slot /\ mask' = mask /\ placed' = placed /\ added' = added
      /\ tpc' = tpc /\ targ' = targ /\ cpc' = cpc /\ missed' = missed
  BY DEF Detach, tickVars, closeVars
<1>2. TypeOK'
  <2>1. detaches' \in [Insts -> Nat]
    BY <1>1, OnceMore DEF BaseOK, TypeOK
  <2> QED BY <2>1 DEF BaseOK, TypeOK, Detach, tickVars, closeVars
<1>3. MaskMatches' /\ SlotsOK'
  BY <1>1 DEF BaseOK, MaskMatches, SlotsOK
<1>4. ASSUME cpc' = "open", NEW j \in Insts PROVE Accounted(j)'
  <2>1. Accounted(j) /\ (ByTick(j)' <=> ByTick(j)) /\ (Left(j)' <=> Left(j))
    BY <1>1, <1>4 DEF BaseOK, ByTick, Left
  <2>2. CASE arg[p] = j
    <3>1. p \in ByCaller(j)
      BY <1>1, <2>2 DEF ByCaller
    <3>2. Left(j) /\ Served(j) = 0 /\ ~ByTick(j) /\ ByCaller(j) = {p}
      BY <2>1, <3>1 DEF Accounted
    <3>3. ByCaller(j)' = {}
      BY <1>1, <3>2 DEF BaseOK, TypeOK, ByCaller
    <3>4. Served(j)' = 1
      BY <1>1, <2>2, <3>2 DEF BaseOK, TypeOK, Served
    <3> QED BY <2>1, <3>2, <3>3, <3>4 DEF Accounted
  <2>3. CASE arg[p] # j
    <3>1. ByCaller(j)' = ByCaller(j)
      BY <1>1, <2>3 DEF BaseOK, TypeOK, ByCaller
    <3>2. Served(j)' = Served(j)
      BY <1>1, <2>3 DEF BaseOK, TypeOK, Served
    <3> QED BY <2>1, <3>1, <3>2 DEF Accounted
  <2> QED BY <2>2, <2>3
<1> QED BY <1>2, <1>3, <1>4 DEF BaseOK

LEMMA RemoveExpiredKeeps ==
  ASSUME BaseOK, NEW c \in Types, RemoveExpired(c)
  PROVE  BaseOK'
<1>0. /\ tpc = "removing" /\ expired' = expired \ {c} /\ placed' = placed /\ added' = added
      /\ pc' = pc /\ arg' = arg /\ detaches' = detaches /\ missed' = missed /\ cpc' = cpc
  BY DEF RemoveExpired, callVars, closeVars, histVars
<1>1. CASE slot[c] = NoInst
  <2>1. slot' = slot /\ mask' = mask /\ tpc' = tpc /\ targ' = targ
    BY <1>1 DEF RemoveExpired
  <2>2. TypeOK' /\ MaskMatches' /\ SlotsOK'
    BY <2>1 DEF BaseOK, TypeOK, MaskMatches, SlotsOK, RemoveExpired, callVars, closeVars, histVars
  <2> QED BY <1>0, <2>1, <2>2, AccountedKept DEF BaseOK
<1>2. CASE slot[c] # NoInst
  <2>0. PICK i : i = slot[c]
    OBVIOUS
  <2>1. slot' = Emptied(c) /\ mask' = Unmasked(c) /\ tpc' = "detach" /\ targ' = i
    BY <1>2, <2>0 DEF RemoveExpired
  <2>2. /\ slot' \in [Types -> Insts \cup {NoInst}] /\ mask' \in SUBSET Types
        /\ MaskMatches' /\ SlotsOK'
        /\ i \in Insts /\ ~Left(i) /\ Left(i)'
        /\ \A j \in Insts \ {i} : Left(j)' <=> Left(j)
    BY <1>0, <1>2, <2>0, <2>1, EmptiedIs DEF BaseOK
  <2>3. TypeOK'
    BY <2>1, <2>2 DEF BaseOK, TypeOK, RemoveExpired, callVars, closeVars, histVars
  <2>4. ASSUME cpc' = "open", NEW j \in Insts PROVE Accounted(j)'
    <3>1. Accounted(j) /\ ByCaller(j)' = ByCaller(j) /\ ~ByTick(j)
      BY <1>0, <2>4 DEF BaseOK, ByCaller, ByTick
    <3>2. ByTick(j)' <=> j = i
      BY <2>1 DEF ByTick
    <3> QED BY <1>0, <2>2, <3>1, <3>2 DEF Accounted, Served
  <2> QED BY <2>2, <2>3, <2>4 DEF BaseOK
<1> QED BY <1>1, <1>2

LEMMA DetachExpiredKeeps ==
  ASSUME BaseOK, DetachExpired
  PROVE  BaseOK'
<1>1. /\ tpc = "detach" /\ tpc' = "removing"
      /\ pc' = pc /\ arg' = arg /\ slot' = slot /\ mask' = mask /\ placed' = placed
      /\ added' = added /\ cpc' = cpc
  BY DEF DetachExpired, callVars, closeVars
<1>2. \/ detaches' = [detaches EXCEPT ![targ] = @ + 1] /\ missed' = missed
      \/ detaches' = detaches /\ missed' = missed \cup {targ}
  BY DEF DetachExpired
<1>3. TypeOK'
  <2>1. detaches' \in [Insts -> Nat]
    BY <1>2, OnceMore DEF BaseOK, TypeOK
  <2>2. missed' \subseteq Insts
    BY <1>1, <1>2 DEF BaseOK, TypeOK
  <2> QED BY <2>1, <2>2 DEF BaseOK, TypeOK, DetachExpired, callVars, closeVars
<1>4. MaskMatches' /\ SlotsOK'
  BY <1>1 DEF BaseOK, MaskMatches, SlotsOK
<1>5. ASSUME cpc' = "open", NEW j \in Insts PROVE Accounted(j)'
  <2>1. Accounted(j) /\ ByCaller(j)' = ByCaller(j) /\ (Left(j)' <=> Left(j)) /\ ~ByTick(j)'
    BY <1>1, <1>5 DEF BaseOK, ByCaller, ByTick, Left
  <2>2. ByTick(j) <=> targ = j
    BY <1>1 DEF ByTick
  <2>3. CASE targ = j
    <3>1. Left(j) /\ Served(j) = 0 /\ ByCaller(j) = {}
      BY <2>1, <2>2, <2>3 DEF Accounted
    <3>2. j \notin missed /\ detaches[j] = 0
      BY <3>1 DEF BaseOK, TypeOK, Served
    <3>3. Served(j)' = 1
      BY <1>2, <2>3, <3>2 DEF BaseOK, TypeOK, Served
    <3> QED BY <2>1, <3>1, <3>3 DEF Accounted
  <2>4. CASE targ # j
    <3>1. Served(j)' = Served(j)
      BY <1>2, <2>4 DEF BaseOK, TypeOK, Served
    <3> QED BY <2>1, <2>2, <2>4, <3>1 DEF Accounted
  <2> QED BY <2>3, <2>4
<1> QED BY <1>3, <1>4, <1>5 DEF BaseOK

(* close counts a second time what others detach meanwhile; DetachedOnce is  *)
(* about open sessions only.                                                 *)
LEMMA CloseKeeps ==
  ASSUME BaseOK, CloseSwap \/ CloseStep
  PROVE  BaseOK'
<1>1. TypeOK' /\ cpc' # "open"
  <2>1. CASE CloseSwap
    BY <2>1 DEF BaseOK, TypeOK, CloseSwap, callVars, tickVars, histVars
  <2>2. CASE CloseCollect
    BY <2>2 DEF BaseOK, TypeOK, CloseCollect, callVars, tickVars, histVars
  <2>3. ASSUME NEW i \in Insts, CloseDetach(i) PROVE TypeOK' /\ cpc' # "open"
    BY <2>3 DEF BaseOK, TypeOK, CloseDetach, callVars, tickVars
  <2>4. CASE CloseClear
    BY <2>4 DEF BaseOK, TypeOK, CloseClear, callVars, tickVars, histVars
  <2>5. CASE CloseDone
    BY <2>5 DEF BaseOK, TypeOK, CloseDone, callVars, tickVars, histVars
  <2> QED BY <2>1, <2>2, <2>3, <2>4, <2>5 DEF CloseStep
<1>2. \/ slot' = slot /\ mask' = mask
      \/ slot' = [c \in Types |-> NoInst] /\ mask' = {}
  BY DEF CloseSwap, CloseStep, CloseCollect, CloseDetach, CloseClear, CloseDone
<1>3. placed' = placed /\ added' = added
  BY DEF CloseSwap, CloseStep, CloseCollect, CloseDetach, CloseClear, CloseDone, histVars
<1>4. MaskMatches' /\ SlotsOK'
  BY <1>2, <1>3 DEF BaseOK, MaskMatches, SlotsOK
<1> QED BY <1>1, <1>4 DEF BaseOK

(* Steps that touch neither slots nor detaching.                             *)
LEMMA OtherKeeps ==
  ASSUME BaseOK,
         \/ Tick \/ (\E c \in Types : NameType(c)) \/ CollectExpired \/ ExpirationsDone \/ UNCHANGED vars
         \/ \E p \in Callers : Attach(p) \/ SetExpiry(p)
  PROVE  BaseOK'
<1>1. TypeOK'
  <2>1. CASE Tick
    BY <2>1, TimeAssumption
    DEF BaseOK, TypeOK, Times, Tick, callVars, tickVars, closeVars, histVars
  <2>2. CASE CollectExpired
    BY <2>2 DEF BaseOK, TypeOK, CollectExpired, Due, callVars, closeVars, histVars
  <2>3. CASE ExpirationsDone
    BY <2>3 DEF BaseOK, TypeOK, ExpirationsDone, callVars, closeVars, histVars
  <2>4. CASE UNCHANGED vars
    BY <2>4 DEF BaseOK, TypeOK, vars, callVars, tickVars, closeVars, histVars
  <2>5. ASSUME NEW p \in Callers, Attach(p) PROVE TypeOK'
    BY <2>5 DEF BaseOK, TypeOK, Attach, AfterCopy, tickVars, closeVars, histVars
  <2>6. ASSUME NEW p \in Callers, SetExpiry(p) PROVE TypeOK'
    BY <2>6 DEF BaseOK, TypeOK, SetExpiry, tickVars, closeVars, histVars
  <2>7. ASSUME NEW c \in Types, NameType(c) PROVE TypeOK'
    BY <2>7 DEF BaseOK, TypeOK, NameType, callVars, tickVars, closeVars, histVars
  <2> QED BY <2>1, <2>2, <2>3, <2>4, <2>5, <2>6, <2>7
<1>2. /\ slot' = slot /\ mask' = mask /\ placed' = placed /\ added' = added
      /\ detaches' = detaches /\ missed' = missed /\ targ' = targ /\ cpc' = cpc /\ arg' = arg
      /\ tpc' = "detach" <=> tpc = "detach"
  BY DEF Tick, NameType, CollectExpired, ExpirationsDone, Attach, SetExpiry,
         vars, callVars, tickVars, closeVars, histVars
<1>3. \A q \in Callers : pc'[q] = "detach" <=> pc[q] = "detach"
  BY DEF BaseOK, TypeOK, Tick, NameType, CollectExpired, ExpirationsDone, Attach, SetExpiry, AfterCopy,
         vars, callVars
<1>4. MaskMatches' /\ SlotsOK'
  BY <1>2 DEF BaseOK, MaskMatches, SlotsOK
<1> QED BY <1>1, <1>2, <1>3, <1>4, AccountedKept DEF BaseOK

LEMMA ReceiveKeeps ==
  ASSUME BaseOK, NEW p \in Callers, NEW i \in Insts, ReceiveUpdate(p, i)
  PROVE  BaseOK'
<1>1. TypeOK'
  <2>1. pc' \in [Callers -> {"idle", "attach", "expire", "detach", "provide"}]
    BY DEF BaseOK, TypeOK, ReceiveUpdate
  <2>2. arg' \in [Callers -> Insts \cup {NoInst}] /\ until' \in [Callers -> Times \cup {NoTime}]
    BY DEF BaseOK, TypeOK, ReceiveUpdate
  <2> QED BY <2>1, <2>2 DEF BaseOK, TypeOK, ReceiveUpdate, tickVars, closeVars
<1>2. MaskMatches' /\ SlotsOK'
  BY DEF BaseOK, MaskMatches, SlotsOK, ReceiveUpdate
<1>3. \A q \in Callers : /\ pc'[q] = "detach" <=> pc[q] = "detach"
                        /\ pc[q] = "detach" => arg'[q] = arg[q]
  BY DEF BaseOK, TypeOK, ReceiveUpdate
<1>4. ASSUME cpc' = "open", NEW j \in Insts PROVE Accounted(j)'
  BY <1>3, <1>4, AccountedKept DEF BaseOK, ReceiveUpdate, tickVars, closeVars
<1> QED BY <1>1, <1>2, <1>4 DEF BaseOK

LEMMA ProvideKeeps ==
  ASSUME BaseOK, ProvidedOK, NEW p \in Callers, AddProvided(p)
  PROVE  BaseOK'
<1>0. PICK i : i = arg[p]
  OBVIOUS
<1> DEFINE c == TypeOf[i]
<1>1. i \in added /\ i \in Insts /\ i \notin placed /\ c \in Types /\ i # NoInst /\ pc[p] = "provide"
  BY <1>0, InstAssumption DEF AddProvided, ProvidedOK, BaseOK, TypeOK
<1>2. /\ slot' = [slot EXCEPT ![c] = IF slot[c] = NoInst THEN i ELSE slot[c]]
      /\ content' = [content EXCEPT ![c] = i] /\ mask' = mask \cup {c}
      /\ placed' = placed \cup {slot'[c]} /\ pc' = [pc EXCEPT ![p] = "idle"]
      /\ added' = added /\ arg' = arg
  BY <1>0 DEF AddProvided, Stored
<1>3. TypeOK'
  <2>1. slot' \in [Types -> Insts \cup {NoInst}] /\ placed' \in SUBSET Insts
    BY <1>1, <1>2 DEF BaseOK, TypeOK
  <2>2. content' \in [Types -> Insts \cup {NoInst}] /\ mask' \in SUBSET Types
    BY <1>1, <1>2 DEF BaseOK, TypeOK
  <2> QED BY <1>2, <2>1, <2>2 DEF BaseOK, TypeOK, AddProvided, tickVars, closeVars
<1>4. MaskMatches'
  BY <1>1, <1>2 DEF BaseOK, TypeOK, MaskMatches
<1>5. SlotsOK'
  BY <1>1, <1>2 DEF BaseOK, TypeOK, SlotsOK
<1>6. ASSUME cpc' = "open", NEW j \in Insts PROVE Accounted(j)'
  <2>1. Accounted(j) /\ Served(j)' = Served(j)
    BY <1>6 DEF BaseOK, AddProvided, closeVars, Served
  <2>2. ByCaller(j)' = ByCaller(j) /\ (ByTick(j)' <=> ByTick(j))
    BY <1>1, <1>2 DEF BaseOK, TypeOK, ByCaller, ByTick, AddProvided, tickVars
  <2>3. Left(j)' <=> Left(j)
    BY <1>1, <1>2, InstAssumption DEF BaseOK, TypeOK, SlotsOK, Left
  <2> QED BY <2>1, <2>2, <2>3 DEF Accounted
<1> QED BY <1>3, <1>4, <1>5, <1>6 DEF BaseOK

(* Only an Add that finds its slot empty, or an update, places an object,    *)
(* and no object is given out twice.                                         *)
LEMMA ProvidedKept ==
  ASSUME IInv, [Next]_vars
  PROVE  ProvidedOK'
<1> USE DEF IInv, BaseOK
<1>1. ASSUME NEW p \in Callers, NEW i \in Insts, NEW e, Add(p, i, e) PROVE ProvidedOK'
  <2>1. /\ i \notin added /\ added' = added \cup {i} /\ pc[p] = "idle"
        /\ \A q \in Callers : pc'[q] = "provide" => pc[q] = "provide" /\ q # p /\ arg'[q] = arg[q]
    BY <1>1 DEF Add, AfterCopy, TypeOK
  <2>2. placed' \subseteq placed \cup {i}
    BY <1>1, InstAssumption DEF Add, Stored, TypeOK, SlotsOK
  <2> QED BY <2>1, <2>2 DEF ProvidedOK
<1>2. ASSUME NEW p \in Callers, NEW i \in Insts, ReceiveUpdate(p, i) PROVE ProvidedOK'
  <2>1. /\ i \notin added /\ added' = added \cup {i} /\ placed' = placed /\ placed \subseteq added
        /\ pc'[p] = "provide" /\ arg'[p] = i
        /\ \A q \in Callers \ {p} : pc'[q] = pc[q] /\ arg'[q] = arg[q]
    BY <1>2 DEF ReceiveUpdate, TypeOK, SlotsOK
  <2> QED BY <2>1 DEF ProvidedOK
<1>3. ASSUME NEW p \in Callers, AddProvided(p) PROVE ProvidedOK'
  <2>0. PICK i : i = arg[p]
    OBVIOUS
  <2>1. /\ pc'[p] = "idle" /\ \A q \in Callers \ {p} : pc'[q] = pc[q]
        /\ arg' = arg /\ added' = added /\ pc[p] = "provide"
    BY <1>3 DEF AddProvided, TypeOK
  <2>2. placed' \subseteq placed \cup {i}
    <3>1. i \in Insts /\ TypeOf[i] \in Types
      BY <2>0, <2>1, InstAssumption DEF ProvidedOK, TypeOK
    <3> QED BY <1>3, <2>0, <3>1 DEF AddProvided, Stored, TypeOK, SlotsOK
  <2> QED BY <2>0, <2>1, <2>2 DEF ProvidedOK
<1>4. ASSUME NEW p \in Callers, CallerStep(p), ~AddProvided(p) PROVE ProvidedOK'
  <2>1. /\ arg' = arg /\ added' = added /\ placed' = placed
        /\ \A q \in Callers : pc'[q] = "provide" => pc[q] = "provide"
    BY <1>4 DEF CallerStep, Attach, SetExpiry, Detach, AfterCopy, histVars, TypeOK
  <2> QED BY <2>1 DEF ProvidedOK
<1>5. ASSUME NEW p \in Callers, NEW c \in Types, Remove(p, c) PROVE ProvidedOK'
  <2>1. /\ added' = added /\ placed' = placed
        /\ \A q \in Callers : pc'[q] = "provide" => pc[q] = "provide" /\ arg'[q] = arg[q]
    BY <1>5 DEF Remove, histVars, TypeOK
  <2> QED BY <2>1 DEF ProvidedOK
<1>6. CASE Tick \/ (\E c \in Types : NameType(c)) \/ SchedulerStep \/ CloseSwap \/ CloseStep
           \/ UNCHANGED vars
  <2>1. pc' = pc /\ arg' = arg /\ added' = added /\ placed' = placed
    BY <1>6 DEF Tick, NameType, SchedulerStep, CollectExpired, RemoveExpired, DetachExpired, ExpirationsDone,
                CloseSwap, CloseStep, CloseCollect, CloseDetach, CloseClear, CloseDone,
                vars, callVars, histVars
  <2> QED BY <2>1 DEF ProvidedOK
<1> QED BY <1>1, <1>2, <1>3, <1>4, <1>5, <1>6 DEF Next, Call, GetOrAdd

LEMMA NextInv == IInv /\ [Next]_vars => IInv'
<1> SUFFICES ASSUME IInv, [Next]_vars PROVE IInv'
  OBVIOUS
<1>1. ASSUME NEW p \in Callers, Call(p) PROVE BaseOK'
  <2>1. ASSUME NEW i \in Insts, GetOrAdd(p, i) PROVE BaseOK'
    BY <2>1, AddKeeps DEF IInv, GetOrAdd
  <2>2. ASSUME NEW i \in Insts, NEW e \in Untils \cup {NoTime}, Add(p, i, e) PROVE BaseOK'
    BY <2>2, AddKeeps DEF IInv
  <2>3. ASSUME NEW c \in Types, Remove(p, c) PROVE BaseOK'
    BY <2>3, RemoveKeeps DEF IInv
  <2>4. ASSUME NEW i \in Insts, ReceiveUpdate(p, i) PROVE BaseOK'
    BY <2>4, ReceiveKeeps DEF IInv
  <2> QED BY <1>1, <2>1, <2>2, <2>3, <2>4 DEF Call
<1>2. ASSUME NEW p \in Callers, CallerStep(p) PROVE BaseOK'
  BY <1>2, OtherKeeps, DetachKeeps, ProvideKeeps DEF IInv, CallerStep
<1>3. ASSUME SchedulerStep PROVE BaseOK'
  BY <1>3, OtherKeeps, RemoveExpiredKeeps, DetachExpiredKeeps DEF IInv, SchedulerStep
<1>4. ASSUME CloseSwap \/ CloseStep PROVE BaseOK'
  BY <1>4, CloseKeeps DEF IInv
<1>5. ASSUME Tick \/ (\E c \in Types : NameType(c)) \/ UNCHANGED vars PROVE BaseOK'
  BY <1>5, OtherKeeps DEF IInv
<1>6. BaseOK'
  BY <1>1, <1>2, <1>3, <1>4, <1>5 DEF Next
<1> QED BY <1>6, ProvidedKept DEF IInv

(* Every state satisfies the invariant.                                      *)
THEOREM Inductive == Spec => []IInv
<1> QED BY InitInv, NextInv, PTL DEF Spec

(* Every state is type correct.                                              *)
THEOREM TypeCorrect == Spec => []TypeOK
<1>1. IInv => TypeOK
  BY DEF IInv, BaseOK
<1> QED BY <1>1, Inductive, PTL

(* What canRun tests on the mask is what injectSystem finds in the slots.    *)
THEOREM MaskIsSlots == Spec => []MaskMatches
<1>1. IInv => MaskMatches
  BY DEF IInv, BaseOK
<1> QED BY <1>1, Inductive, PTL

(* The count of DetachedOnce, from what is known of an object.               *)
LEMMA CountIs ==
  ASSUME IInv, cpc = "open", NEW i \in Insts
  PROVE  Served(i) + Detaching(i) = IF Left(i) THEN 1 ELSE 0
<1>1. Accounted(i)
  BY DEF IInv, BaseOK
<1>2. Detaching(i) = Cardinality(ByCaller(i)) + (IF ByTick(i) THEN 1 ELSE 0)
  BY DEF Detaching, ByCaller, ByTick
<1>3. ByCaller(i) = {} => Cardinality(ByCaller(i)) = 0
  BY FS_EmptySet
<1>4. \A p \in Callers : ByCaller(i) = {p} => Cardinality(ByCaller(i)) = 1
  BY FS_Singleton
<1> QED BY <1>1, <1>2, <1>3, <1>4 DEF Accounted

(* While the session is open, a component that has left its slot is detached *)
(* once, by Remove or by its expiry, and none that is in its slot; one that  *)
(* expired before its type was stored is not.                                *)
THEOREM DetachesOnce == Spec => []DetachedOnce
<1>1. IInv => DetachedOnce
  BY CountIs DEF DetachedOnce
<1> QED BY <1>1, Inductive, PTL

-----------------------------------------------------------------------------
(* No step puts another object into a slot that is taken.                    *)
LEMMA StepStable ==
  ASSUME TypeOK, [Next]_vars, NEW c \in Types, slot[c] # NoInst
  PROVE  slot'[c] \in {slot[c], NoInst}
<1>1. ASSUME NEW p \in Callers, NEW i \in Insts, NEW e, Add(p, i, e)
      PROVE  slot'[c] = slot[c]
  BY <1>1 DEF TypeOK, Add, Stored
<1>2. ASSUME NEW p \in Callers, NEW d \in Types, Remove(p, d) \/ RemoveExpired(d)
      PROVE  slot'[c] \in {slot[c], NoInst}
  BY <1>2 DEF TypeOK, Remove, RemoveExpired, Emptied
<1>3. ASSUME NEW d \in Types, RemoveExpired(d)
      PROVE  slot'[c] \in {slot[c], NoInst}
  BY <1>3 DEF TypeOK, RemoveExpired, Emptied
<1>4. CASE CloseSwap \/ CloseStep
  BY <1>4 DEF CloseSwap, CloseStep, CloseCollect, CloseDetach, CloseClear, CloseDone
<1>5. ASSUME NEW p \in Callers, CallerStep(p) PROVE slot'[c] = slot[c]
  BY <1>5 DEF CallerStep, Attach, SetExpiry, Detach, AddProvided, Stored, TypeOK
<1>7. ASSUME NEW p \in Callers, NEW i \in Insts, ReceiveUpdate(p, i) PROVE slot' = slot
  BY <1>7 DEF ReceiveUpdate
<1>6. CASE Tick \/ (\E d \in Types : NameType(d)) \/ CollectExpired \/ DetachExpired \/ ExpirationsDone \/ UNCHANGED vars
  BY <1>6 DEF Tick, NameType, CollectExpired, DetachExpired, ExpirationsDone, vars
<1> QED BY <1>1, <1>2, <1>3, <1>4, <1>5, <1>6, <1>7
    DEF Next, Call, GetOrAdd, SchedulerStep

(* A pointer handed out before stays the component's own until it is removed.*)
THEOREM PointersStayGood == Spec => PointerStable
<1>1. IInv /\ [Next]_vars =>
        [\A c \in Types : slot[c] # NoInst => slot'[c] \in {slot[c], NoInst}]_vars
  BY StepStable DEF IInv, BaseOK
<1> QED BY <1>1, Inductive, PTL DEF Spec, PointerStable

=============================================================================
