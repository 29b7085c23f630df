------------------------------ MODULE Batching -------------------------------
(****************************************************************************)
(* How PECS decides which loops may run in parallel: analyzeSystem and      *)
(* Conflicts of meta.go, addLoop and rebuildBatches of scheduler.go.        *)
(*                                                                          *)
(* Every list of loops (a stage, session or global) has a sequence of       *)
(* batches; the loops of a batch run at the same time. A loop is analysed   *)
(* from the fields of its struct. A batch is a set: its order is of no      *)
(* consequence. rebuildBatches goes through the loops by name; sort.Slice   *)
(* leaves loops of equal names in any order.                                *)
(****************************************************************************)
EXTENDS Integers, Sequences

CONSTANTS
  Loops,     \* loops a bundle may register
  Types,     \* Go types of components and resources
  Name,      \* SystemMeta.Name, as a number: only the order counts
  Fields,    \* bound: the field lists a loop may have
  NumStages  \* stageCount

Kinds == {"session", "component", "relation", "peer", "shared", "phantom", "resource", "payload"}
Field == [kind : Kinds, type : Types, mut : BOOLEAN]

ASSUME StagesAssumption == NumStages \in Nat
ASSUME NameAssumption   == Name \in [Loops -> Int]
ASSUME FieldsAssumption == Fields \subseteq SUBSET Field

VARIABLES
  fields,    \* the fields of a registered loop's struct
  loops,     \* scheduler.loops and scheduler.globalLoops
  batches,   \* scheduler.batches and scheduler.globalBatches
  list,      \* the list addLoop is rebuilding, NoList when it has returned
  todo,      \* loops of remaining the pass has yet to look at
  batch,     \* the batch of this pass
  later,     \* nextRemaining
  draft      \* the batches of the passes before

vars == <<fields, loops, batches, list, todo, batch, later, draft>>

Stages == 1 .. NumStages
Lists  == Stages \X BOOLEAN
NoList == <<0, FALSE>>

TypeOK ==
  /\ fields \in [Loops -> SUBSET Field]
  /\ loops \in [Lists -> SUBSET Loops]
  /\ batches \in [Lists -> Seq(SUBSET Loops)]
  /\ list \in Lists \cup {NoList}
  /\ todo \in SUBSET Loops /\ batch \in SUBSET Loops /\ later \in SUBSET Loops
  /\ draft \in Seq(SUBSET Loops)

Init ==
  /\ fields = [l \in Loops |-> {}]
  /\ loops = [x \in Lists |-> {}]
  /\ batches = [x \in Lists |-> <<>>]
  /\ list = NoList
  /\ todo = {} /\ batch = {} /\ later = {} /\ draft = <<>>

-----------------------------------------------------------------------------
(* analyzeSystem, meta.go: what a system accesses. Fields of peers and of    *)
(* shared data leave no trace in AccessMeta.                                 *)
Access(l, kinds, mut) == {f.type : f \in {g \in fields[l] : g.kind \in kinds /\ g.mut = mut}}

Reads(l)     == Access(l, {"component", "relation"}, FALSE)
Writes(l)    == Access(l, {"component", "relation"}, TRUE)
ResReads(l)  == Access(l, {"resource"}, FALSE)
ResWrites(l) == Access(l, {"resource"}, TRUE)

(* A system is global when none of its fields needs a session.               *)
IsGlobal(fs) == \A f \in fs : f.kind \in {"resource", "payload"}

(* Mutant: what the candidate reads and the other writes is forgotten.       *)
ConflictsOneWay(l, m) ==
  \/ Writes(l) \cap (Reads(m) \cup Writes(m)) # {}
  \/ ResWrites(l) \cap (ResReads(m) \cup ResWrites(m)) # {}

Conflicts(l, m) ==
  \/ Writes(l) \cap (Reads(m) \cup Writes(m)) # {} \/ Reads(l) \cap Writes(m) # {}
  \/ ResWrites(l) \cap (ResReads(m) \cup ResWrites(m)) # {} \/ ResReads(l) \cap ResWrites(m) # {}

-----------------------------------------------------------------------------
(* addLoop, scheduler.go. The loopsMu is held until the batches are stored.  *)

Registered(l) == \E x \in Lists : l \in loops[x]

ListOf(fs, st) == <<st, IsGlobal(fs)>>

AddLoop(l, fs, st) ==
  /\ list = NoList /\ ~Registered(l)
  /\ fields' = [fields EXCEPT ![l] = fs]
  /\ list' = ListOf(fs, st)
  /\ loops' = [loops EXCEPT ![list'] = @ \cup {l}]
  /\ todo' = loops'[list']
  /\ batch' = {} /\ later' = {} /\ draft' = <<>>
  /\ UNCHANGED batches

(* Mutant: the conflict of one candidate is held against those after it.     *)
InTheWaySticky(l) == later # {} \/ \E m \in batch : Conflicts(l, m)

InTheWay(l) == \E m \in batch : Conflicts(l, m)

(* Mutant: a loop that has to wait is not kept for the next pass.            *)
DeferredNot(l) == later

Deferred(l) == later \cup {l}

(* The next loop by name joins the batch of this pass or waits for the next. *)
Consider(l) ==
  /\ list # NoList
  /\ l \in todo /\ \A m \in todo : Name[l] <= Name[m]
  /\ todo' = todo \ {l}
  /\ \/ InTheWay(l) /\ later' = Deferred(l) /\ UNCHANGED batch
     \/ ~InTheWay(l) /\ batch' = batch \cup {l} /\ UNCHANGED later
  /\ UNCHANGED <<fields, loops, batches, list, draft>>

CloseBatch ==
  /\ list # NoList /\ todo = {} /\ batch # {}
  /\ draft' = Append(draft, batch)
  /\ todo' = later /\ batch' = {} /\ later' = {}
  /\ UNCHANGED <<fields, loops, batches, list>>

Publish ==
  /\ list # NoList /\ todo = {} /\ batch = {}
  /\ batches' = [batches EXCEPT ![list] = draft]
  /\ list' = NoList
  /\ UNCHANGED <<fields, loops, todo, batch, later, draft>>

Next ==
  \/ \E l \in Loops, fs \in Fields, st \in Stages : AddLoop(l, fs, st)
  \/ \E l \in Loops : Consider(l)
  \/ CloseBatch
  \/ Publish

Spec == Init /\ [][Next]_vars

-----------------------------------------------------------------------------
(* Properties.                                                               *)

(* Loops that run at the same time never conflict, in either direction.      *)
ConflictFree(bs) == \A k \in DOMAIN bs : \A l, m \in bs[k] : l # m => ~Conflicts(l, m)

NoConflictInBatch == \A x \in Lists : ConflictFree(batches[x])

(* When addLoop has returned, every registered loop is in exactly one batch  *)
(* of its own list, so it runs once a tick, not twice and not never.         *)
Apart(bs) ==
  \A k \in DOMAIN bs : bs[k] # {} /\ \A j \in DOMAIN bs : j < k => bs[j] \cap bs[k] = {}

Members(bs) == UNION {bs[k] : k \in DOMAIN bs}

EachLoopOnce ==
  list = NoList => \A x \in Lists : Apart(batches[x]) /\ Members(batches[x]) = loops[x]

(* A loop is kept out of an earlier batch only by a loop of that batch that  *)
(* comes before it by name: the batches are those of first fit, whatever the *)
(* order of registration, and no loop is serialised without need.            *)
Blocked(l, b) == \E m \in b : Name[m] <= Name[l] /\ Conflicts(l, m)

FirstFitting(bs) ==
  \A k \in DOMAIN bs : \A l \in bs[k], j \in DOMAIN bs : j < k => Blocked(l, bs[j])

FirstFit == \A x \in Lists : FirstFitting(batches[x])

=============================================================================
