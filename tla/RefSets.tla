------------------------------- MODULE RefSets -------------------------------
(****************************************************************************)
(* PeerSet (peer.go) and SharedSet (shared.go): the same code over IDs of   *)
(* players and of shared entities. The IDs are a list that is never changed *)
(* but replaced: Add and Remove load the pointer, make a new list and try   *)
(* to swap it in, again and again; Set and Clear store. Systems of several  *)
(* worlds call them without a lock.                                         *)
(*                                                                          *)
(* A pointer is a number and the list it leads to; every new list has a new *)
(* number, the nil pointer is number zero. Numbers are compared, not lists. *)
(****************************************************************************)
EXTENDS Integers, Sequences

CONSTANTS
  RefIds,      \* IDs of players or entities
  RefUsers,    \* goroutines that change the set
  RefLists,    \* lists given to Set
  MaxRefs,     \* bound on the lists ever stored
  NoCall

Distinct(s) == \A i, j \in DOMAIN s : s[i] = s[j] => i = j

(* Set copies its list without looking for duplicates; what is shown here is *)
(* for lists without any.                                                    *)
ASSUME RefListsAssumption == RefLists \subseteq {s \in Seq(RefIds) : Distinct(s)}
ASSUME MaxRefsAssumption  == MaxRefs \in Nat
ASSUME NoCallAssumption   ==
  NoCall \notin [op : {"add", "remove"}, id : RefIds] \cup [op : {"set"}, ids : RefLists]
                  \cup [op : {"clear"}]

VARIABLES
  ids,     \* the atomic pointer
  stored,  \* how many lists have been allocated and stored
  asked,   \* the call of each user
  old,     \* the pointer it has loaded
  at       \* where it is: "idle", "load" or "swap"

refVars == <<ids, stored, asked, old, at>>

Nil == [num |-> 0, list |-> <<>>]

RefInit ==
  /\ ids = Nil /\ stored = 0
  /\ asked = [u \in RefUsers |-> NoCall]
  /\ old = [u \in RefUsers |-> Nil]
  /\ at = [u \in RefUsers |-> "idle"]

-----------------------------------------------------------------------------
Contains(s, x) == \E i \in DOMAIN s : s[i] = x

FirstAt(s, x) == CHOOSE i \in DOMAIN s : s[i] = x /\ \A j \in DOMAIN s : j < i => s[j] # x

(* The list without its first x.                                             *)
Without(s, x) ==
  [j \in 1 .. Len(s) - 1 |-> IF j < FirstAt(s, x) THEN s[j] ELSE s[j + 1]]

CallRef(u, c) ==
  /\ at[u] = "idle"
  /\ asked' = [asked EXCEPT ![u] = c]
  /\ at' = [at EXCEPT ![u] = IF c.op \in {"add", "remove"} THEN "load" ELSE "swap"]
  /\ UNCHANGED <<ids, stored, old>>

Return(u) ==
  asked' = [asked EXCEPT ![u] = NoCall] /\ at' = [at EXCEPT ![u] = "idle"]

Store(s) ==
  /\ stored < MaxRefs /\ stored' = stored + 1
  /\ ids' = [num |-> stored', list |-> s]

(* Set and Clear.                                                            *)
StoreRef(u) ==
  /\ at[u] = "swap" /\ asked[u].op = "set"
  /\ Store(asked[u].ids) /\ Return(u)
  /\ UNCHANGED old

ClearRef(u) ==
  /\ at[u] = "swap" /\ asked[u].op = "clear"
  /\ ids' = Nil /\ Return(u)
  /\ UNCHANGED <<old, stored>>

(* Add of what is there and Remove of what is not return at once.            *)
NothingToDo(c, s) == (c.op = "add") <=> Contains(s, c.id)

Load(u) ==
  /\ at[u] = "load"
  /\ IF NothingToDo(asked[u], ids.list)
     THEN Return(u) /\ UNCHANGED old
     ELSE /\ old' = [old EXCEPT ![u] = ids]
          /\ at' = [at EXCEPT ![u] = "swap"] /\ UNCHANGED asked
  /\ UNCHANGED <<ids, stored>>

NewList(c, s) == IF c.op = "add" THEN Append(s, c.id) ELSE Without(s, c.id)

(* Mutant: the new list is stored whatever was stored meanwhile.             *)
UnchangedAlways(u) == TRUE

StillThere(u) == ids.num = old[u].num

CompareAndSwap(u) ==
  /\ at[u] = "swap" /\ asked[u].op \in {"add", "remove"}
  /\ IF StillThere(u)
     THEN Store(NewList(asked[u], old[u].list)) /\ Return(u) /\ UNCHANGED old
     ELSE /\ at' = [at EXCEPT ![u] = "load"]
          /\ UNCHANGED <<ids, stored, asked, old>>

Calls ==
  [op : {"add", "remove"}, id : RefIds] \cup [op : {"set"}, ids : RefLists] \cup [op : {"clear"}]

RefNext ==
  \E u \in RefUsers :
    (\E c \in Calls : CallRef(u, c)) \/ StoreRef(u) \/ ClearRef(u) \/ Load(u) \/ CompareAndSwap(u)

RefSpec == RefInit /\ [][RefNext]_refVars

-----------------------------------------------------------------------------
(* Properties.                                                               *)

RefTypeOK ==
  /\ ids \in [num : Nat, list : Seq(RefIds)] /\ stored \in Nat
  /\ asked \in [RefUsers -> Calls \cup {NoCall}]
  /\ old \in [RefUsers -> [num : Nat, list : Seq(RefIds)]]
  /\ at \in [RefUsers -> {"idle", "load", "swap"}]

(* No ID is in the list twice, so that Remove, which takes out the first it  *)
(* finds, leaves none: users that add the same ID at once do not both.       *)
NoDuplicates == Distinct(ids.list)

IdsIn(s) == {s[i] : i \in DOMAIN s}

AtomicSet == INSTANCE IdSet WITH
  Ids <- RefIds, Users <- RefUsers, Lists <- RefLists,
  members <- IdsIn(ids.list), call <- asked

(* Each call takes effect on the set at one moment: no Add or Remove of one  *)
(* user undoes that of another, and a swap does not succeed over a list that *)
(* is not the one it was made from.                                          *)
SetImplemented == AtomicSet!Spec

=============================================================================
