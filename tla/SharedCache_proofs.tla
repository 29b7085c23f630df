------------------------- MODULE SharedCache_proofs --------------------------
(****************************************************************************)
(* Proofs about SharedCache for any entities, callers, providers and        *)
(* entries: an entry has one subscription more than it had deletions, and   *)
(* what an entry has is kept. Both rest on the lock of an entry, whose      *)
(* holder alone stores a fetch, and on counting: who fetches for an entry,  *)
(* who subscribes it, its subscriptions and a deletion that is under way    *)
(* are together one more than its deletions at most.                        *)
(****************************************************************************)
EXTENDS SharedCache, FiniteSetTheorems, SequenceTheorems, TLAPS

EntryFields == {"id", "status", "mu", "accessed", "fetched", "errorAt", "data", "live", "held",
                "queue", "closes", "proc", "dying", "deletions"}
JobFields   == {"pc", "ids", "many", "es", "fetch", "k", "v", "got"}
Statuses    == {"pending", "ready", "error", "closing"}

(* Entries not yet allocated are neither locked nor ready.                   *)
EntriesOK ==
  /\ DOMAIN ent = Entries
  /\ \A e \in Entries :
       /\ DOMAIN ent[e] = EntryFields
       /\ ent[e].status \in Statuses /\ ent[e].mu \in Callers \cup {NoCaller}
       /\ ent[e].id = NoId => ent[e].mu = NoCaller /\ ent[e].status # "ready"

Allocated(e) == e \in Entries /\ ent[e].id # NoId

MapOK ==
  /\ DOMAIN entryOf = SharedIds
  /\ \A id \in SharedIds : entryOf[id] # NoEntry => Allocated(entryOf[id])

(* The local variables of a caller.                                          *)
Locking == {"ask", "apply", "ready", "subscribing"}

VarsOK(j) ==
  /\ DOMAIN j = JobFields
  /\ j.ids \in Seq(SharedIds) /\ j.es \in Seq(Entries) /\ j.fetch \in Seq(Nat) /\ j.k \in Nat
  /\ \A i \in 1 .. Len(j.fetch) : j.fetch[i] \in 1 .. Len(j.es)
  /\ j.pc = "entry" => j.k \in 1 .. Len(j.ids) /\ Len(j.es) = j.k - 1
  /\ j.pc \in {"processing", "status"} => j.k \in 1 .. Len(j.ids) /\ Len(j.es) = j.k
  /\ j.pc \in {"retry", "check"} => j.k \in 1 .. Len(j.es)
  /\ j.pc \in {"retry", "lock"} \cup Locking => j.k \in 1 .. Len(j.fetch)
  /\ j.pc = "retry" => ~j.many
  /\ ~j.many => j.k = 1 /\ (j.pc \in {"retry", "lock"} \cup Locking => Len(j.fetch) = 1)

(* It has come so far with what it fetches that only it may change that.     *)
Storing(j) == j.pc = "ready" \/ (~j.many /\ j.pc \in {"ask", "apply"})

(* Its entries are allocated, and the locks it has taken are its own. What   *)
(* it is to store goes into an entry that is not ready.                      *)
LocksOK(p, j) ==
  /\ \A i \in 1 .. Len(j.es) : Allocated(j.es[i])
  /\ j.pc = "lock" => \A i \in 1 .. Len(j.fetch) : i < j.k => ent[j.es[j.fetch[i]]].mu = p
  /\ j.pc \in Locking => \A i \in 1 .. Len(j.fetch) : ent[j.es[j.fetch[i]]].mu = p
  /\ Storing(j) => ent[j.es[j.fetch[j.k]]].status # "ready"

CallerOK(p) == VarsOK(job[p]) /\ LocksOK(p, job[p])

Inv ==
  /\ EntriesOK /\ MapOK
  /\ DOMAIN job = Callers /\ \A p \in Callers : CallerOK(p)

-----------------------------------------------------------------------------
(* An entry, its subscribers and the callers that store into it.             *)

UpTo(n) == {NoData} \cup 0 .. n

(* Two versions of an entity, one after the other.                           *)
InOrder(old, new) == old = NoData \/ new = NoData \/ old <= new

Sorted(data, queue) ==
  /\ \A i \in 1 .. Len(queue) : InOrder(data, queue[i])
  /\ \A i, j \in 1 .. Len(queue) : i < j => InOrder(queue[i], queue[j])

Open == {"pending", "error"}

(* It is or may be fetched.                                                  *)
Fetched(r, F) == r.status \in Open \/ F # {}

Waiting(T) == {k \in T : k.at = "subscribe"}

(* How many subscriptions an entry may come to have.                         *)
Claims(r, T, F) ==
  r.live + Cardinality(Waiting(T)) + (IF Fetched(r, F) THEN 1 ELSE 0) + (IF r.dying THEN 1 ELSE 0)

(* Before its first deletion an entry that may be fetched has heard nothing. *)
Blank(r, T) == r.live = 0 /\ ~r.held /\ r.queue = <<>> /\ T = {}

EntryOK(r, T, F, S, n) ==
  /\ r.live \in Int /\ r.deletions \in Nat /\ IsFiniteSet(T)
  /\ r.data \in UpTo(n) /\ r.queue \in Seq(UpTo(n))
  /\ Claims(r, T, F) <= r.deletions + 1
  /\ r.dying => r.deletions > 0
  /\ r.deletions = 0 =>
       /\ Sorted(r.data, r.queue)
       /\ Fetched(r, F) => Blank(r, T) /\ (r.data # NoData => S # {})

TasksOf(e)    == {k \in tasks : k.e = e}
StorersOf(e)  == {p \in Callers : Storing(job[p]) /\ BatchAt(p) = e}
ReadiersOf(e) == {p \in Callers : job[p].pc = "ready" /\ BatchAt(p) = e}

(* What a caller has been told.                                              *)
AnswersOK(j) ==
  j.pc \in {"apply", "ready", "subscribing"} => \A i \in 1 .. Len(j.fetch) :
    j.got[ent[j.es[j.fetch[i]]].id] \in UpTo(changes) \cup {Failed}

FeedInv ==
  /\ changes \in Nat /\ truth \in [SharedIds -> UpTo(changes)]
  /\ \A e \in Entries : ent[e].id \in SharedIds \cup {NoId}
  /\ \A k \in tasks : DOMAIN k = {"e", "by", "at"} /\ Allocated(k.e)
  /\ \A p \in Callers : AnswersOK(job[p])
  /\ \A e \in Entries : EntryOK(ent[e], TasksOf(e), StorersOf(e), ReadiersOf(e), changes)

-----------------------------------------------------------------------------
(* What a step of p may do to the entries: it takes and releases locks of    *)
(* its own, and makes ready only what it has locked.                         *)
Gentle(p) ==
  /\ DOMAIN ent' = Entries
  /\ \A e \in Entries :
       /\ DOMAIN ent'[e] = EntryFields
       /\ ent'[e].status \in Statuses /\ ent'[e].mu \in Callers \cup {NoCaller}
       /\ ent[e].id # NoId => ent'[e].id = ent[e].id
       /\ \/ ent'[e].mu = ent[e].mu
          \/ {ent[e].mu, ent'[e].mu} = {p, NoCaller} /\ ent[e].id # NoId
       /\ \/ ent'[e].status # "ready" \/ ent[e].status = "ready"
          \/ ent[e].mu = p /\ ent[e].id # NoId
       /\ ent[e].status = "ready" => ent'[e].status \in {"ready", "closing"} \/ ent[e].dying

(* A step that touches neither owner nor status nor lock of an entry.        *)
Calm ==
  /\ DOMAIN ent' = Entries
  /\ \A e \in Entries :
       /\ DOMAIN ent'[e] = EntryFields
       /\ ent'[e].status = ent[e].status /\ ent'[e].mu = ent[e].mu /\ ent'[e].id = ent[e].id

LEMMA CalmIsGentle == ASSUME EntriesOK, Calm, NEW p PROVE Gentle(p)
  BY DEF EntriesOK, Calm, Gentle

LEMMA StayAllocated == ASSUME NEW p, Gentle(p) PROVE \A e : Allocated(e) => Allocated(e)'
  BY DEF Allocated, Gentle

(* What is known of a step: it is gentle, and only p moves.                  *)
Stepped(p) ==
  /\ Gentle(p) /\ MapOK'
  /\ DOMAIN job' = Callers /\ (\A q \in Callers : q # p => job'[q] = job[q])
  /\ p \in Callers => CallerOK(p)'

LEMMA SteppedKeeps ==
  ASSUME Inv, NEW p \in Callers \cup {NoCaller}, Stepped(p) PROVE Inv'
<1>1. EntriesOK'
  BY SharedNames DEF Stepped, Inv, EntriesOK, Gentle
<1>2. ASSUME NEW q \in Callers, q # p PROVE CallerOK(q)'
  <2>1. PICK j : job[q] = j /\ job'[q] = j /\ VarsOK(j) /\ LocksOK(q, j)
    BY <1>2 DEF Stepped, Inv, CallerOK
  <2>2. \A e \in Entries : ent[e].mu = q =>
          ent'[e].mu = q /\ (ent'[e].status = "ready" => ent[e].status = "ready")
    BY <1>2, SharedNames DEF Stepped, Gentle
  <2>3. \A e : Allocated(e) => Allocated(e)'
    BY StayAllocated DEF Stepped
  <2>4. \A i \in 1 .. Len(j.fetch) : j.es[j.fetch[i]] \in Entries
    BY <2>1 DEF VarsOK, LocksOK, Allocated
  <2>5. Storing(j) => j.k \in 1 .. Len(j.fetch) /\ j.pc \in Locking
    BY <2>1 DEF VarsOK, Storing, Locking
  <2>6. LocksOK(q, j)'
    BY <2>1, <2>2, <2>3, <2>4, <2>5 DEF LocksOK
  <2> QED BY <2>1, <2>6 DEF CallerOK
<1> QED BY <1>1, <1>2 DEF Inv, Stepped

(* What a caller's step needs, for the local variables n after it.           *)
LEMMA CallerSteps ==
  ASSUME Inv, NEW p \in Callers, Gentle(p), entryOf' = entryOf \/ MapOK', NEW n,
         job' = [job EXCEPT ![p] = n], VarsOK(n), LocksOK(p, n)'
  PROVE  Stepped(p)
<1>1. MapOK'
  BY DEF Inv, MapOK, Allocated, Gentle
<1>2. DOMAIN job' = Callers /\ job'[p] = n /\ \A q \in Callers : q # p => job'[q] = job[q]
  BY DEF Inv
<1> QED BY <1>1, <1>2 DEF Stepped, CallerOK

(* Steps that take no lock and keep none: what is known of the entries of j  *)
(* before the step is known of them after it.                                *)
LEMMA Unlocking ==
  ASSUME NEW p, Gentle(p), NEW q, NEW j, LocksOK(q, j), NEW n, n.es = j.es,
         n.pc \notin Locking \cup {"lock"} \/ (n.pc = "lock" /\ n.k = 1)
  PROVE  LocksOK(q, n)'
<1>1. \A i \in 1 .. Len(n.es) : Allocated(n.es[i])'
  BY StayAllocated DEF LocksOK
<1> QED BY <1>1 DEF LocksOK, Storing, Locking

-----------------------------------------------------------------------------
(* A caller finds or makes its entries.                                      *)

LEMMA CallKeeps ==
  ASSUME Inv, NEW p \in Callers, CallAny(p) PROVE Stepped(p)
<1>0. \A id \in Ones[p] : <<id>> \in Seq(SharedIds) /\ Len(<<id>>) = 1
  BY SharedAsks
<1>1. PICK ids, many : Call(p, ids, many) /\ ids \in Seq(SharedIds) /\ ids # <<>>
  BY <1>0, SharedAsks DEF CallAny
<1>2. Gentle(p) /\ entryOf' = entryOf
  BY <1>1, CalmIsGentle DEF Inv, Call, Calm, EntriesOK
<1>3. PICK n : n = [NoJob EXCEPT !.pc = "entry", !.ids = ids, !.many = many] /\ job' = [job EXCEPT ![p] = n]
  BY <1>1 DEF Call
<1>4. VarsOK(n) /\ LocksOK(p, n)'
  BY <1>1, <1>3 DEF NoJob, VarsOK, LocksOK, JobFields, Locking, Storing
<1> QED BY <1>2, <1>3, <1>4, CallerSteps

LEMMA Appended ==
  ASSUME NEW S, NEW s \in Seq(S), NEW x \in S
  PROVE  /\ Append(s, x) \in Seq(S) /\ Len(Append(s, x)) = Len(s) + 1
         /\ \A i \in 1 .. Len(s) + 1 : (i \in 1 .. Len(s) /\ Append(s, x)[i] = s[i]) \/ Append(s, x)[i] = x
<1> PICK m : m = Len(s) /\ m \in Nat
  OBVIOUS
<1>1. \A i \in 1 .. m + 1 : i \in 1 .. m \/ i = m + 1
  OBVIOUS
<1> QED BY <1>1, AppendProperties

(* The entry is added to those of the caller.                                *)
LEMMA EntryAdded ==
  ASSUME Inv, NEW p \in Callers, job[p].pc = "entry", Gentle(p), entryOf' = entryOf \/ MapOK',
         NEW e, Allocated(e)', NEW l \in {"processing", "status"},
         job' = [job EXCEPT ![p] = [job[p] EXCEPT !.es = Append(@, e), !.pc = l]]
  PROVE  Stepped(p)
<1>1. PICK j : j = job[p] /\ VarsOK(j) /\ LocksOK(p, j) /\ j.pc = "entry"
  BY DEF Inv, CallerOK
<1>2. PICK n : n = [j EXCEPT !.es = Append(@, e), !.pc = l] /\ job' = [job EXCEPT ![p] = n]
  BY <1>1
<1>3. /\ DOMAIN n = JobFields /\ n.ids = j.ids /\ n.fetch = j.fetch /\ n.k = j.k /\ n.many = j.many
      /\ n.es = Append(j.es, e) /\ n.pc = l
  BY <1>1, <1>2 DEF VarsOK, JobFields
<1>4. /\ n.es \in Seq(Entries) /\ Len(n.es) = Len(j.es) + 1 /\ Len(j.es) \in Nat
      /\ \A i \in 1 .. Len(n.es) : (i \in 1 .. Len(j.es) /\ n.es[i] = j.es[i]) \/ n.es[i] = e
  <2>1. j.es \in Seq(Entries) /\ e \in Entries
    BY <1>1 DEF VarsOK, Allocated
  <2> QED BY <1>3, <2>1, Appended
<1>5. VarsOK(n)
  <2>1. \A i \in 1 .. Len(n.fetch) : n.fetch[i] \in 1 .. Len(n.es)
    <3>1. \A i \in 1 .. Len(j.fetch) : j.fetch[i] \in 1 .. Len(j.es)
      BY <1>1 DEF VarsOK
    <3> QED BY <1>3, <1>4, <3>1
  <2>2. n.ids \in Seq(SharedIds) /\ n.fetch \in Seq(Nat) /\ n.k \in 1 .. Len(n.ids) /\ Len(n.es) = n.k
    BY <1>1, <1>3, <1>4 DEF VarsOK
  <2>3. ~n.many => n.k = 1
    BY <1>1, <1>3 DEF VarsOK
  <2> QED BY <1>3, <1>4, <2>1, <2>2, <2>3 DEF VarsOK, Locking
<1>6. \A i \in 1 .. Len(n.es) : Allocated(n.es[i])'
  BY <1>1, <1>4, StayAllocated DEF LocksOK
<1>7. LocksOK(p, n)'
  BY <1>3, <1>6 DEF LocksOK, Storing, Locking
<1> QED BY <1>2, <1>5, <1>7, CallerSteps

LEMMA FoundEntryKeeps ==
  ASSUME Inv, NEW p \in Callers, FoundEntry(p) PROVE Stepped(p)
<1>1. Gentle(p) /\ entryOf' = entryOf
  BY CalmIsGentle DEF Inv, FoundEntry, Calm, EntriesOK
<1>2. PICK e : e = entryOf[job[p].ids[job[p].k]]
  OBVIOUS
<1>3. job[p].pc = "entry" /\ Allocated(e)
  BY <1>2 DEF Inv, MapOK, FoundEntry, CallerOK, VarsOK
<1>4. job' = [job EXCEPT ![p] = [job[p] EXCEPT !.es = Append(@, e), !.pc = "status"]]
  BY <1>2 DEF FoundEntry, Inv
<1> QED BY <1>1, <1>3, <1>4, StayAllocated, EntryAdded

(* The entry a caller makes.                                                 *)
Creates(p, e, id, new, l) ==
  /\ e \in Entries /\ ent[e].id = NoId /\ id \in SharedIds /\ l \in {"processing", "status"}
  /\ ent' = [ent EXCEPT ![e] = new] /\ entryOf' = [entryOf EXCEPT ![id] = e]
  /\ \E proc : new = [NewEntry(id) EXCEPT !.proc = proc]
  /\ job' = [job EXCEPT ![p] = [job[p] EXCEPT !.es = Append(@, e), !.pc = l]]

LEMMA Created ==
  ASSUME Inv, NEW p \in Callers, CreateEntry(p)
  PROVE  \E e, id, new, l : Creates(p, e, id, new, l)
<1>1. PICK e, id : e = (CHOOSE x \in Free : TRUE) /\ id = job[p].ids[job[p].k]
  OBVIOUS
<1>2. e \in Entries /\ ent[e].id = NoId
  <2>1. e \in Free
    BY <1>1 DEF CreateEntry
  <2> QED BY <2>1 DEF Free
<1>3. id \in SharedIds
  BY <1>1 DEF CreateEntry, Inv, CallerOK, VarsOK
<1>4. PICK proc : ent' = [ent EXCEPT ![e] = [NewEntry(id) EXCEPT !.proc = proc]]
  BY <1>1 DEF CreateEntry
<1>5. PICK l \in {"processing", "status"} : job' = [job EXCEPT ![p].es = Append(@, e), ![p].pc = l]
  BY <1>1 DEF CreateEntry
<1>6. DOMAIN job = Callers
  BY DEF Inv
<1>7. job' = [job EXCEPT ![p] = [job[p] EXCEPT !.es = Append(@, e), !.pc = l]]
  BY <1>5, <1>6
<1>8. entryOf' = [entryOf EXCEPT ![id] = e]
  BY <1>1 DEF CreateEntry
<1>9. PICK new : new = [NewEntry(id) EXCEPT !.proc = proc] /\ ent' = [ent EXCEPT ![e] = new]
  BY <1>4
<1>10. \E x : new = [NewEntry(id) EXCEPT !.proc = x]
  BY <1>9
<1> QED BY <1>2, <1>3, <1>7, <1>8, <1>9, <1>10 DEF Creates

LEMMA CreateEntryKeeps ==
  ASSUME Inv, NEW p \in Callers, CreateEntry(p) PROVE Stepped(p)
<1>1. PICK e, id, new, l : Creates(p, e, id, new, l)
  BY Created
<1>2. DOMAIN new = EntryFields /\ new.id = id /\ new.status = "pending" /\ new.mu = NoCaller
  BY <1>1 DEF Creates, NewEntry, EntryFields
<1>3. Gentle(p) /\ Allocated(e)'
  BY <1>1, <1>2, SharedNames DEF Creates, Inv, EntriesOK, Gentle, Statuses, Allocated
<1>4. MapOK'
  BY <1>1, <1>3, StayAllocated DEF Creates, Inv, MapOK
<1>5. job[p].pc = "entry"
  BY DEF CreateEntry
<1> QED BY <1>1, <1>3, <1>4, <1>5, EntryAdded DEF Creates

(* A step that takes a caller on with the entries it has, without their locks. *)
LEMMA Moves ==
  ASSUME Inv, NEW p \in Callers, Gentle(p), entryOf' = entryOf, NEW n, n.es = job[p].es, VarsOK(n),
         job' = [job EXCEPT ![p] = n], n.pc \notin Locking \cup {"lock"} \/ (n.pc = "lock" /\ n.k = 1)
  PROVE  Stepped(p)
<1>1. PICK j : j = job[p] /\ LocksOK(p, j)
  BY DEF Inv, CallerOK
<1>2. LocksOK(p, n)'
  BY <1>1, Unlocking
<1> QED BY <1>2, CallerSteps

(* A call that returns.                                                      *)
LEMMA ReturnKeeps ==
  ASSUME Inv, NEW p \in Callers, Gentle(p), entryOf' = entryOf, job' = [job EXCEPT ![p] = NoJob]
  PROVE  Stepped(p)
<1>1. PICK n : n = NoJob
  OBVIOUS
<1>2. VarsOK(n) /\ LocksOK(p, n)'
  BY <1>1 DEF NoJob, VarsOK, LocksOK, JobFields, Locking, Storing
<1> QED BY <1>1, <1>2, CallerSteps

LEMMA ReadStatusKeeps ==
  ASSUME Inv, NEW p \in Callers, ReadStatus(p) PROVE Stepped(p)
<1>1. Gentle(p) /\ entryOf' = entryOf
  BY CalmIsGentle DEF Inv, ReadStatus, Calm, EntriesOK
<1>2. PICK j : j = job[p] /\ VarsOK(j) /\ j.pc = "status" /\ ~j.many /\ DOMAIN job = Callers
  BY DEF Inv, CallerOK, ReadStatus
<1>3. PICK l \in {"retry", "lock", "check"} : job' = [job EXCEPT ![p].fetch = <<1>>, ![p].pc = l]
  BY DEF ReadStatus
<1>4. PICK n : n = [j EXCEPT !.fetch = <<1>>, !.pc = l] /\ job' = [job EXCEPT ![p] = n]
  BY <1>2, <1>3
<1>5. /\ DOMAIN n = JobFields /\ n.ids = j.ids /\ n.k = j.k /\ n.many = j.many
      /\ n.es = j.es /\ n.pc = l /\ n.fetch = <<1>>
  BY <1>2, <1>4 DEF VarsOK, JobFields
<1>6. VarsOK(n) /\ n.k = 1
  BY <1>2, <1>5 DEF VarsOK, Locking
<1> QED BY <1>1, <1>2, <1>4, <1>5, <1>6, Moves DEF Locking

(* The same entry, further on.                                               *)
LEMMA GotoKeeps ==
  ASSUME Inv, NEW p \in Callers, Gentle(p), entryOf' = entryOf, NEW l, Goto(p, l),
         \/ job[p].pc = "processing" /\ l = "status"
         \/ job[p].pc = "retry" /\ l \in {"lock", "check"}
         \/ job[p].pc \in Locking \cup {"lock"} /\ ~job[p].many /\ l = "check"
  PROVE  Stepped(p)
<1>1. PICK j : j = job[p] /\ VarsOK(j) /\ DOMAIN job = Callers
  BY DEF Inv, CallerOK
<1>2. PICK n : n = [j EXCEPT !.pc = l] /\ job' = [job EXCEPT ![p] = n]
  BY <1>1 DEF Goto
<1>3. /\ DOMAIN n = JobFields /\ n.ids = j.ids /\ n.k = j.k /\ n.many = j.many
      /\ n.es = j.es /\ n.pc = l /\ n.fetch = j.fetch
  BY <1>1, <1>2 DEF VarsOK, JobFields
<1>4. ~j.many /\ Len(j.fetch) = 1 /\ j.es \in Seq(Entries) => 1 \in 1 .. Len(j.es)
  <2>1. Len(j.fetch) = 1 => j.fetch[1] \in 1 .. Len(j.es)
    BY <1>1 DEF VarsOK
  <2> QED BY <2>1
<1>5. VarsOK(n) /\ (l = "lock" => n.k = 1)
  BY <1>1, <1>3, <1>4 DEF VarsOK, Locking
<1> QED BY <1>1, <1>2, <1>3, <1>5, Moves DEF Locking

LEMMA ProcessedKeeps ==
  ASSUME Inv, NEW p \in Callers, ProcessedInline(p) PROVE Stepped(p)
<1>1. Gentle(p) /\ entryOf' = entryOf
  BY CalmIsGentle DEF Inv, ProcessedInline, Calm, EntriesOK
<1> QED BY <1>1, GotoKeeps DEF ProcessedInline

LEMMA ResetErrorKeeps ==
  ASSUME Inv, NEW p \in Callers, ResetError(p) PROVE Stepped(p)
<1>1. Gentle(p)
  BY DEF Inv, ResetError, EntriesOK, Gentle, EntryFields, Statuses
<1> QED BY <1>1, GotoKeeps DEF ResetError

LEMMA CheckKeeps ==
  ASSUME Inv, NEW p \in Callers, Check(p) PROVE Stepped(p)
<1>1. Calm
  BY DEF Inv, Check, EntriesOK, Calm, EntryFields
<1> QED BY <1>1, CalmIsGentle, ReturnKeeps DEF Check, Inv

LEMMA ReadStatusManyKeeps ==
  ASSUME Inv, NEW p \in Callers, ReadStatusMany(p) PROVE Stepped(p)
<1>1. Calm
  BY DEF Inv, ReadStatusMany, EntriesOK, Calm, EntryFields
<1>2. Gentle(p) /\ entryOf' = entryOf
  BY <1>1, CalmIsGentle DEF Inv, ReadStatusMany
<1>3. PICK j : j = job[p] /\ VarsOK(j) /\ j.pc = "status" /\ j.many
  BY DEF Inv, CallerOK, ReadStatusMany
<1>4. PICK k : /\ k = j \/ k = [j EXCEPT !.fetch = Append(@, j.k)]
               /\ job' = [job EXCEPT ![p] = AfterPass(k)]
  BY <1>3 DEF ReadStatusMany
<1>5. /\ DOMAIN k = JobFields /\ k.pc = "status" /\ k.ids = j.ids /\ k.es = j.es /\ k.k = j.k /\ k.many
      /\ k.fetch \in {j.fetch, Append(j.fetch, j.k)}
  BY <1>3, <1>4 DEF VarsOK, JobFields
<1>6. VarsOK(k)
  <2>1. j.fetch \in Seq(Nat) /\ j.k \in Nat /\ j.k \in 1 .. Len(j.es)
    BY <1>3 DEF VarsOK
  <2>2. k.fetch \in Seq(Nat) /\ \A i \in 1 .. Len(k.fetch) :
          (i \in 1 .. Len(j.fetch) /\ k.fetch[i] = j.fetch[i]) \/ k.fetch[i] = j.k
    <3>1. CASE k.fetch = j.fetch
      BY <2>1, <3>1
    <3>2. CASE k.fetch = Append(j.fetch, j.k)
      <4>1. PICK a, x : a = j.fetch /\ x = j.k /\ a \in Seq(Nat) /\ x \in Nat /\ k.fetch = Append(a, x)
        BY <2>1, <3>2
      <4>2. Append(a, x) \in Seq(Nat) /\ \A i \in 1 .. Len(Append(a, x)) :
              (i \in 1 .. Len(a) /\ Append(a, x)[i] = a[i]) \/ Append(a, x)[i] = x
        BY <4>1, Appended
      <4> QED BY <4>1, <4>2
    <3> QED BY <1>5, <3>1, <3>2
  <2>3. \A i \in 1 .. Len(k.fetch) : k.fetch[i] \in 1 .. Len(k.es)
    <3>1. \A i \in 1 .. Len(j.fetch) : j.fetch[i] \in 1 .. Len(j.es)
      BY <1>3 DEF VarsOK
    <3> QED BY <1>5, <2>1, <2>2, <3>1
  <2> QED BY <1>3, <1>5, <2>2, <2>3 DEF VarsOK, Locking
<1>7. PICK n : n = AfterPass(k) /\ job' = [job EXCEPT ![p] = n]
  BY <1>4
<1>8. CASE n = NoJob
  BY <1>2, <1>7, <1>8, ReturnKeeps
<1>9. CASE k.k < Len(k.ids) /\ n = [k EXCEPT !.k = @ + 1, !.pc = "entry"]
  <2>1. /\ DOMAIN n = JobFields /\ n.fetch = k.fetch /\ n.pc = "entry" /\ n.ids = k.ids
        /\ n.es = k.es /\ n.k = k.k + 1 /\ n.many
    BY <1>5, <1>9 DEF JobFields
  <2>2. VarsOK(n)
    BY <1>6, <1>9, <1>5, <2>1 DEF VarsOK, Locking
  <2> QED BY <1>2, <1>3, <1>5, <1>7, <2>1, <2>2, Moves DEF Locking
<1>10. CASE k.fetch # <<>> /\ n = [k EXCEPT !.k = 1, !.pc = "lock"]
  <2>1. /\ DOMAIN n = JobFields /\ n.fetch = k.fetch /\ n.pc = "lock" /\ n.ids = k.ids
        /\ n.es = k.es /\ n.k = 1 /\ n.many
    BY <1>5, <1>10 DEF JobFields
  <2>2. VarsOK(n)
    BY <1>6, <1>10, <2>1 DEF VarsOK, Locking
  <2> QED BY <1>2, <1>3, <1>5, <1>7, <2>1, <2>2, Moves
<1> QED BY <1>7, <1>8, <1>9, <1>10 DEF AfterPass

-----------------------------------------------------------------------------
(* It locks, asks, stores and goes on.                                       *)

(* The entry that a caller fetches for.                                      *)
LEMMA AtHand ==
  ASSUME Inv, NEW p \in Callers, job[p].pc \in Locking
  PROVE  Allocated(BatchAt(p)) /\ ent[BatchAt(p)].mu = p
<1>1. PICK j : j = job[p] /\ VarsOK(j) /\ LocksOK(p, j) /\ j.pc \in Locking
  BY DEF Inv, CallerOK
<1>2. j.k \in 1 .. Len(j.fetch) /\ j.fetch[j.k] \in 1 .. Len(j.es)
  BY <1>1 DEF VarsOK
<1> QED BY <1>1, <1>2 DEF LocksOK, BatchAt

LEMMA LockKeeps ==
  ASSUME Inv, NEW p \in Callers, Lock(p) PROVE Stepped(p)
<1>1. PICK j : j = job[p] /\ VarsOK(j) /\ LocksOK(p, j) /\ j.pc = "lock" /\ DOMAIN job = Callers
  BY DEF Inv, CallerOK, Lock
<1>2. PICK e : e = BatchAt(p) /\ e = j.es[j.fetch[j.k]] /\ ent[e].mu = NoCaller /\ entryOf' = entryOf
  BY <1>1 DEF Lock, BatchAt
<1>3. Allocated(e) /\ \A i \in 1 .. Len(j.fetch) : j.es[j.fetch[i]] \in Entries
  BY <1>1, <1>2 DEF VarsOK, LocksOK, Allocated
<1>4. CASE ~j.many /\ ~StillPending(e)
  <2>1. ent' = ent /\ Goto(p, "check")
    BY <1>1, <1>2, <1>4 DEF Lock
  <2>2. Gentle(p)
    BY <2>1, CalmIsGentle DEF Inv, Calm, EntriesOK
  <2> QED BY <1>1, <1>2, <1>4, <2>1, <2>2, GotoKeeps
<1>5. CASE j.many \/ StillPending(e)
  <2>1. ent' = [ent EXCEPT ![e].mu = p]
    BY <1>1, <1>2, <1>5 DEF Lock
  <2>2. Gentle(p)
    BY <1>2, <1>3, <2>1 DEF Inv, EntriesOK, Gentle, EntryFields, Allocated
  <2>3. PICK n : /\ n = IF j.k < Len(j.fetch) THEN [j EXCEPT !.k = @ + 1] ELSE [j EXCEPT !.k = 1, !.pc = "ask"]
                 /\ job' = [job EXCEPT ![p] = n]
    BY <1>1, <1>2, <1>5 DEF Lock
  <2>4. /\ DOMAIN n = JobFields /\ n.ids = j.ids /\ n.many = j.many /\ n.es = j.es /\ n.fetch = j.fetch
        /\ \/ j.k < Len(j.fetch) /\ n.k = j.k + 1 /\ n.pc = "lock"
           \/ ~(j.k < Len(j.fetch)) /\ n.k = 1 /\ n.pc = "ask"
    BY <1>1, <2>3 DEF VarsOK, JobFields
  <2>5. VarsOK(n)
    BY <1>1, <2>4 DEF VarsOK, Locking
  <2>6. /\ \A x \in Entries : ent[x].mu = p => ent'[x].mu = p
        /\ ent'[e].mu = p
    BY <1>3, <2>1 DEF Inv, EntriesOK, EntryFields, Allocated
  <2>7. \A i \in 1 .. Len(j.fetch) : i < j.k => ent'[j.es[j.fetch[i]]].mu = p
    BY <1>1, <1>3, <2>6 DEF LocksOK
  <2>8. \A i \in 1 .. Len(j.fetch) : i = j.k => ent'[j.es[j.fetch[i]]].mu = p
    BY <1>2, <2>6
  <2>9. \A i \in 1 .. Len(n.fetch) : i < n.k \/ n.pc = "ask" => ent'[n.es[n.fetch[i]]].mu = p
    <3>1. j.k \in 1 .. Len(j.fetch) /\ Len(j.fetch) \in Nat
      BY <1>1 DEF VarsOK
    <3>2. \A i \in 1 .. Len(j.fetch) : i < n.k \/ n.pc = "ask" => i < j.k \/ i = j.k
      BY <2>4, <3>1
    <3> QED BY <2>4, <2>7, <2>8, <3>2
  <2>10. Storing(n) => ent'[n.es[n.fetch[n.k]]].status # "ready"
    <3>1. SUFFICES ASSUME Storing(n) PROVE ent'[n.es[n.fetch[n.k]]].status # "ready"
      OBVIOUS
    <3>2. ~j.many /\ j.k = 1 /\ n.k = 1
      BY <1>1, <2>4, <3>1 DEF VarsOK, Storing
    <3>3. ent[e].status = "pending" /\ ent'[e].status = "pending"
      BY <1>3, <1>5, <2>1, <3>2 DEF StillPending, Inv, EntriesOK, EntryFields, Allocated
    <3> QED BY <1>2, <2>4, <3>2, <3>3
  <2>11. LocksOK(p, n)'
    <3>1. \A i \in 1 .. Len(n.es) : Allocated(n.es[i])'
      BY <1>1, <2>2, <2>4, StayAllocated DEF LocksOK
    <3> QED BY <2>4, <2>9, <2>10, <3>1 DEF LocksOK, Locking
  <2> QED BY <1>2, <2>2, <2>3, <2>5, <2>11, CallerSteps
<1> QED BY <1>4, <1>5

(* While a caller has its locks, a step of its own leaves it with them.      *)
LEMMA StillLocked ==
  ASSUME Inv, NEW p \in Callers, job[p].pc \in Locking, Gentle(p),
         \A e \in Entries : ent[e].mu = p => ent'[e].mu = p,
         NEW n, DOMAIN n = JobFields, n.ids = job[p].ids, n.many = job[p].many, n.es = job[p].es,
         n.fetch = job[p].fetch, n.pc \in Locking, n.k \in 1 .. Len(n.fetch),
         n.k = job[p].k \/ n.many,
         Storing(n) => ent'[n.es[n.fetch[n.k]]].status # "ready"
  PROVE  VarsOK(n) /\ LocksOK(p, n)'
<1>1. PICK j : j = job[p] /\ VarsOK(j) /\ LocksOK(p, j) /\ j.pc \in Locking
  BY DEF Inv, CallerOK
<1>2. VarsOK(n)
  BY <1>1 DEF VarsOK, Locking
<1>3. \A i \in 1 .. Len(n.es) : Allocated(n.es[i])'
  BY <1>1, StayAllocated DEF LocksOK
<1>4. \A i \in 1 .. Len(n.fetch) : ent'[n.es[n.fetch[i]]].mu = p
  BY <1>1 DEF LocksOK, VarsOK, Allocated
<1>5. LocksOK(p, n)'
  BY <1>3, <1>4 DEF LocksOK, Locking
<1> QED BY <1>2, <1>5

LEMMA AskKeeps ==
  ASSUME Inv, NEW p \in Callers, Ask(p) PROVE Stepped(p)
<1>1. PICK j : j = job[p] /\ VarsOK(j) /\ LocksOK(p, j) /\ j.pc = "ask"
  BY DEF Inv, CallerOK, Ask
<1>2. Gentle(p) /\ entryOf' = entryOf /\ ent' = ent
  BY CalmIsGentle DEF Inv, Ask, Calm, EntriesOK
<1>3. PICK n, got : /\ n = [j EXCEPT !.v = @ + 1] \/ n = [j EXCEPT !.pc = "apply", !.got = got]
                    /\ job' = [job EXCEPT ![p] = n]
  BY <1>1 DEF Ask
<1>4. /\ DOMAIN n = JobFields /\ n.ids = j.ids /\ n.k = j.k /\ n.many = j.many
      /\ n.es = j.es /\ n.pc \in {"ask", "apply"} /\ n.fetch = j.fetch
  BY <1>1, <1>3 DEF VarsOK, JobFields
<1>5. Storing(n) => ent'[n.es[n.fetch[n.k]]].status # "ready"
  BY <1>1, <1>2, <1>4 DEF Storing, LocksOK
<1>6. n.k \in 1 .. Len(n.fetch)
  BY <1>1, <1>4 DEF VarsOK, Locking
<1>7. VarsOK(n) /\ LocksOK(p, n)'
  BY <1>1, <1>2, <1>4, <1>5, <1>6, StillLocked DEF Locking
<1> QED BY <1>2, <1>3, <1>7, CallerSteps

(* What becomes of the entries before a caller goes on or gives back its     *)
(* locks.                                                                    *)
Stored(p, en) ==
  /\ DOMAIN en = Entries
  /\ \A e \in Entries :
       /\ DOMAIN en[e] = EntryFields /\ en[e].mu = ent[e].mu /\ en[e].id = ent[e].id
       /\ en[e].status \in Statuses
       /\ en[e].status = "ready" => ent[e].status = "ready" \/ (ent[e].mu = p /\ ent[e].id # NoId)
       /\ ent[e].status = "ready" => en[e].status = "ready"

LEMMA StoredGentle ==
  ASSUME Inv, NEW p \in Callers, NEW en, Stored(p, en), ent' = en \/ ent' = Unlocked(p, en)
  PROVE  Gentle(p)
<1>1. CASE ent' = en
  BY <1>1 DEF Inv, EntriesOK, Stored, Gentle
<1>2. CASE ent' = Unlocked(p, en)
  <2>1. DOMAIN ent' = Entries /\ \A e \in Entries :
          \/ ent'[e] = en[e]
          \/ en[e].mu = p /\ ent'[e] = [en[e] EXCEPT !.mu = NoCaller]
    BY <1>2 DEF Unlocked
  <2>2. ASSUME NEW e \in Entries, en[e].mu = p, ent'[e] = [en[e] EXCEPT !.mu = NoCaller]
        PROVE  /\ DOMAIN ent'[e] = EntryFields /\ ent'[e].mu = NoCaller /\ ent'[e].id = ent[e].id
               /\ ent'[e].status = en[e].status /\ ent[e].mu = p /\ ent[e].id # NoId
    BY <2>2, SharedNames DEF Inv, EntriesOK, Stored, EntryFields
  <2> QED BY <2>1, <2>2 DEF Inv, EntriesOK, Stored, Gentle
<1> QED BY <1>1, <1>2

LEMMA AdvanceKeeps ==
  ASSUME Inv, NEW p \in Callers, job[p].pc \in Locking, NEW en, Stored(p, en), Advance(p, en),
         entryOf' = entryOf
  PROVE  Stepped(p)
<1>1. PICK j : j = job[p] /\ VarsOK(j) /\ LocksOK(p, j) /\ j.pc \in Locking /\ DOMAIN job = Callers
  BY DEF Inv, CallerOK
<1>2. Gentle(p)
  BY StoredGentle DEF Advance
<1>3. CASE ~j.many
  BY <1>1, <1>2, <1>3, GotoKeeps DEF Advance
<1>4. CASE j.many /\ ~(j.k < Len(j.fetch))
  BY <1>1, <1>2, <1>4, ReturnKeeps DEF Advance
<1>5. CASE j.many /\ j.k < Len(j.fetch)
  <2>1. PICK n : n = [j EXCEPT !.k = @ + 1, !.pc = "apply"] /\ job' = [job EXCEPT ![p] = n]
    BY <1>1, <1>5 DEF Advance
  <2>2. /\ DOMAIN n = JobFields /\ n.ids = j.ids /\ n.many = j.many /\ n.es = j.es /\ n.pc = "apply"
        /\ n.fetch = j.fetch /\ n.k = j.k + 1
    BY <1>1, <2>1 DEF VarsOK, JobFields
  <2>3. n.k \in 1 .. Len(n.fetch)
    BY <1>1, <1>5, <2>2 DEF VarsOK
  <2>4. ent' = en
    BY <1>1, <1>5 DEF Advance
  <2>5. VarsOK(n) /\ LocksOK(p, n)'
    BY <1>1, <1>2, <1>5, <2>2, <2>3, <2>4, StillLocked DEF Storing, Locking, Stored
  <2> QED BY <1>2, <2>1, <2>5, CallerSteps
<1> QED BY <1>3, <1>4, <1>5

(* It goes on with the entry it has.                                         *)
LEMMA NextKeeps ==
  ASSUME Inv, NEW p \in Callers, job[p].pc \in Locking, NEW en, Stored(p, en), ent' = en,
         NEW l \in {"ready", "subscribing"}, Goto(p, l), entryOf' = entryOf,
         l = "ready" => ent'[BatchAt(p)].status # "ready"
  PROVE  Stepped(p)
<1>1. PICK j : j = job[p] /\ VarsOK(j) /\ LocksOK(p, j) /\ j.pc \in Locking /\ DOMAIN job = Callers
  BY DEF Inv, CallerOK
<1>2. Gentle(p)
  BY StoredGentle
<1>3. PICK n : n = [j EXCEPT !.pc = l] /\ job' = [job EXCEPT ![p] = n]
  BY <1>1 DEF Goto
<1>4. /\ DOMAIN n = JobFields /\ n.ids = j.ids /\ n.k = j.k /\ n.many = j.many
      /\ n.es = j.es /\ n.pc = l /\ n.fetch = j.fetch
  BY <1>1, <1>3 DEF VarsOK, JobFields
<1>5. n.k \in 1 .. Len(n.fetch)
  BY <1>1, <1>4 DEF VarsOK, Locking
<1>6. Storing(n) => ent'[n.es[n.fetch[n.k]]].status # "ready"
  BY <1>1, <1>4 DEF Storing, BatchAt
<1>7. VarsOK(n) /\ LocksOK(p, n)'
  BY <1>1, <1>2, <1>4, <1>5, <1>6, StillLocked DEF Stored, Locking
<1> QED BY <1>2, <1>3, <1>7, CallerSteps

LEMMA SameStored == ASSUME Inv, NEW p PROVE Stored(p, ent)
  BY DEF Inv, EntriesOK, Stored

(* What is stored goes into an entry that is not ready.                      *)
LEMMA NotReady ==
  ASSUME Inv, NEW p \in Callers, job[p].pc \in Locking,
         Storing(job[p]) \/ ent[BatchAt(p)].status = "pending"
  PROVE  ent[BatchAt(p)].status # "ready"
  BY DEF Inv, CallerOK, LocksOK, BatchAt

LEMMA ApplyKeeps ==
  ASSUME Inv, NEW p \in Callers, Apply(p) PROVE Stepped(p)
<1>1. PICK e, got : e = BatchAt(p) /\ got = job[p].got[ent[e].id]
  OBVIOUS
<1>2. job[p].pc = "apply" /\ job[p].pc \in Locking /\ entryOf' = entryOf /\ Allocated(e)
  BY <1>1, AtHand DEF Apply, Locking
<1>3. CASE job[p].many /\ ~StillPending(e)
  BY <1>1, <1>2, <1>3, SameStored, AdvanceKeeps DEF Apply
<1>4. CASE ~(job[p].many /\ ~StillPending(e))
  <2>1. ent[e].status # "ready"
    BY <1>1, <1>2, <1>4, NotReady DEF Storing, StillPending
  <2>2. CASE got \in {NoData, Failed}
    <3>1. PICK t, en : en = [ent EXCEPT ![e].status = "error", ![e].errorAt = t] /\ Advance(p, en)
      BY <1>1, <1>4, <2>2 DEF Apply
    <3>2. Stored(p, en)
      BY <1>2, <2>1, <3>1 DEF Inv, EntriesOK, Stored, Statuses, EntryFields, Allocated
    <3> QED BY <1>2, <3>1, <3>2, AdvanceKeeps
  <2>3. CASE got \notin {NoData, Failed}
    <3>1. PICK en : en = [ent EXCEPT ![e].data = got, ![e].fetched = now] /\ ent' = en /\ Goto(p, "ready")
      BY <1>1, <1>4, <2>3 DEF Apply
    <3>2. Stored(p, en) /\ en[e].status # "ready"
      BY <1>2, <2>1, <3>1 DEF Inv, EntriesOK, Stored, Statuses, EntryFields, Allocated
    <3> QED BY <1>1, <1>2, <3>1, <3>2, NextKeeps
  <2> QED BY <2>2, <2>3
<1> QED BY <1>3, <1>4

LEMMA SetReadyKeeps ==
  ASSUME Inv, NEW p \in Callers, SetReady(p) PROVE Stepped(p)
<1>1. PICK e, en : e = BatchAt(p) /\ en = [ent EXCEPT ![e].status = "ready"]
  OBVIOUS
<1>2. job[p].pc \in Locking /\ entryOf' = entryOf /\ Allocated(e) /\ ent[e].mu = p
  BY <1>1, AtHand DEF SetReady, Locking
<1>3. Stored(p, en)
  BY <1>1, <1>2 DEF Inv, EntriesOK, Stored, Statuses, EntryFields, Allocated
<1>4. (ent' = en /\ Goto(p, "subscribing")) \/ Advance(p, en)
  BY <1>1 DEF SetReady
<1> QED BY <1>1, <1>2, <1>3, <1>4, NextKeeps, AdvanceKeeps

LEMMA SubscribedKeeps ==
  ASSUME Inv, NEW p \in Callers, SubscribedInline(p) PROVE Stepped(p)
<1>1. job[p].pc \in Locking /\ Advance(p, ent) /\ entryOf' = entryOf
  BY DEF SubscribedInline, Locking
<1> QED BY <1>1, SameStored, AdvanceKeeps

-----------------------------------------------------------------------------
(* The other steps.                                                          *)

(* Nobody's locks are touched and nothing is made ready.                     *)
Quiet ==
  /\ DOMAIN ent' = Entries
  /\ \A e \in Entries :
       /\ DOMAIN ent'[e] = EntryFields /\ ent'[e].mu = ent[e].mu /\ ent'[e].id = ent[e].id
       /\ ent'[e].status \in Statuses
       /\ ent'[e].status = "ready" => ent[e].status = "ready"
       /\ ent[e].status = "ready" => ent'[e].status \in {"ready", "closing"} \/ ent[e].dying

LEMMA QuietSteps ==
  ASSUME Inv, Quiet, job' = job, entryOf' = entryOf \/ MapOK' PROVE Stepped(NoCaller)
<1>1. Gentle(NoCaller)
  BY DEF Inv, EntriesOK, Quiet, Gentle
<1>2. MapOK'
  BY <1>1, StayAllocated DEF Inv, MapOK
<1> QED BY <1>1, <1>2, SharedNames DEF Stepped, Inv

LEMMA TickKeeps == ASSUME Inv, Tick \/ StartCleanup \/ Stop PROVE Stepped(NoCaller)
<1>1. ent' = ent /\ job' = job /\ entryOf' = entryOf
  BY DEF Tick, StartCleanup, Stop, ByCloser
<1> QED BY <1>1, QuietSteps DEF Inv, EntriesOK, Quiet

LEMMA TaskKeeps == ASSUME Inv, NEW k \in tasks, TaskStep(k) PROVE Stepped(NoCaller)
<1>1. job' = job /\ entryOf' = entryOf
  BY DEF TaskStep, Subscribe, StoreSubscription
<1>2. \/ ent' = ent
      \/ ent' = [ent EXCEPT ![k.e].live = @ + 1]
      \/ ent' = [ent EXCEPT ![k.e].held = TRUE]
  BY DEF TaskStep, Subscribe, StoreSubscription
<1>3. Quiet
  BY <1>2 DEF Inv, EntriesOK, Quiet, EntryFields
<1> QED BY <1>1, <1>3, QuietSteps

(* What happens to an entry whose updates are processed.                     *)
Shut(r)     == [r EXCEPT !.queue = Tail(r.queue), !.proc = "ended"]
Deleted(r)  == [r EXCEPT !.queue = Tail(r.queue), !.data = NoData, !.dying = TRUE,
                         !.deletions = r.deletions + 1]
Updated(r)  == [r EXCEPT !.queue = Tail(r.queue), !.data = Head(r.queue), !.fetched = now]
Erring(r)   == [r EXCEPT !.dying = FALSE, !.status = "error"]
Finished(r) == [r EXCEPT !.proc = "ended"]

LEMMA UpdatingIs ==
  ASSUME Inv, NEW e \in Entries, NEW r, r = ent[e], Updating(e)
  PROVE  /\ job' = job /\ entryOf' = entryOf /\ tasks' = tasks /\ truth' = truth /\ changes' = changes
         /\ \/ ent' = [ent EXCEPT ![e] = Shut(r)] /\ r.queue # <<>>
            \/ ent' = [ent EXCEPT ![e] = Deleted(r)] /\ r.queue # <<>> /\ ~r.dying
            \/ ent' = [ent EXCEPT ![e] = Updated(r)] /\ r.queue # <<>> /\ Head(r.queue) # NoData
            \/ ent' = [ent EXCEPT ![e] = Erring(r)] /\ r.dying
            \/ ent' = [ent EXCEPT ![e] = Finished(r)]
<1>1. CASE ProcessUpdate(e)
  <2>1. CASE r.status = "closing"
    <3>1. ent' = [ent EXCEPT ![e] = Shut(r)]
      BY <1>1, <2>1 DEF ProcessUpdate, Shut
    <3> QED BY <1>1, <3>1 DEF ProcessUpdate
  <2>2. CASE r.status # "closing" /\ Head(r.queue) = NoData
    <3>1. ent' = [ent EXCEPT ![e] = Deleted(r)]
      BY <1>1, <2>2 DEF ProcessUpdate, Deleted
    <3> QED BY <1>1, <3>1, Zenon DEF ProcessUpdate
  <2>3. CASE r.status # "closing" /\ Head(r.queue) # NoData
    <3>1. ent' = [ent EXCEPT ![e] = Updated(r)]
      BY <1>1, <2>3 DEF ProcessUpdate, Updated
    <3> QED BY <1>1, <2>3, <3>1 DEF ProcessUpdate
  <2> QED BY <2>1, <2>2, <2>3
<1>2. CASE DeletedStatus(e)
  <2>1. DOMAIN ent = Entries
    BY DEF Inv, EntriesOK
  <2>2. ent' = [ent EXCEPT ![e] = Erring(r)]
    BY <1>2, <2>1 DEF DeletedStatus, Erring
  <2> QED BY <1>2, <2>2, Zenon DEF DeletedStatus
<1>3. CASE ProcessorEnds(e)
  <2>1. ent' = [ent EXCEPT ![e] = Finished(r)]
    BY <1>3 DEF ProcessorEnds, Finished
  <2> QED BY <1>3, <2>1 DEF ProcessorEnds
<1> QED BY <1>1, <1>2, <1>3 DEF Updating

LEMMA UpdatingKeeps == ASSUME Inv, NEW e \in Entries, Updating(e) PROVE Stepped(NoCaller)
<1>1. PICK r : r = ent[e] /\ DOMAIN r = EntryFields /\ r.status \in Statuses
  BY DEF Inv, EntriesOK
<1>2. PICK s : /\ ent' = [ent EXCEPT ![e] = s]
               /\ s \in {Shut(r), Deleted(r), Updated(r), Finished(r)} \/ (s = Erring(r) /\ r.dying)
  BY <1>1, UpdatingIs
<1>3. \A s1 \in {Shut(r), Deleted(r), Updated(r), Finished(r)} :
        DOMAIN s1 = EntryFields /\ s1.mu = r.mu /\ s1.id = r.id /\ s1.status = r.status
  <2> DEFINE Same(s1) == DOMAIN s1 = EntryFields /\ s1.mu = r.mu /\ s1.id = r.id /\ s1.status = r.status
  <2>1. Same(Shut(r))
    BY <1>1 DEF Shut, EntryFields
  <2>2. Same(Deleted(r))
    BY <1>1 DEF Deleted, EntryFields
  <2>3. Same(Updated(r))
    BY <1>1 DEF Updated, EntryFields
  <2>4. Same(Finished(r))
    BY <1>1 DEF Finished, EntryFields
  <2> HIDE DEF Same
  <2>5. \A s1 \in {Shut(r), Deleted(r), Updated(r), Finished(r)} : Same(s1)
    BY <2>1, <2>2, <2>3, <2>4, Zenon
  <2> QED BY <2>5 DEF Same
<1>4. DOMAIN Erring(r) = EntryFields /\ Erring(r).mu = r.mu /\ Erring(r).id = r.id /\ Erring(r).status = "error"
  BY <1>1 DEF Erring, EntryFields
<1>5. ent'[e] = s /\ DOMAIN ent' = Entries /\ \A x \in Entries : x # e => ent'[x] = ent[x]
  BY <1>2 DEF Inv, EntriesOK
<1>6. /\ DOMAIN s = EntryFields /\ s.mu = r.mu /\ s.id = r.id
      /\ s.status = r.status \/ (s.status = "error" /\ r.dying)
  BY <1>2, <1>3, <1>4
<1>7. Quiet
  BY <1>1, <1>5, <1>6 DEF Inv, EntriesOK, Quiet, Statuses
<1>8. job' = job /\ entryOf' = entryOf
  BY UpdatingIs
<1> QED BY <1>7, <1>8, QuietSteps

LEMMA ChangeKeeps == ASSUME Inv, NEW id, NEW n, Change(id, n) PROVE Stepped(NoCaller)
<1>1. job' = job /\ entryOf' = entryOf
  BY DEF Change
<1>2. DOMAIN ent' = Entries /\ \A e \in Entries :
        ent'[e] = ent[e] \/ \E q : ent'[e] = [ent[e] EXCEPT !.queue = q]
  BY DEF Change
<1>3. Quiet
  BY <1>2 DEF Inv, EntriesOK, Quiet, EntryFields
<1> QED BY <1>1, <1>3, QuietSteps

LEMMA CloserKeeps ==
  ASSUME Inv, NEW c \in {"cleanup", "stop"}, CloserStep(c) PROVE Stepped(NoCaller)
<1>1. job' = job
  BY DEF CloserStep, Visit, AllVisited, SwapStatus, CloseSubscription, CloseChannel, Delete, ByCloser
<1>2. PICK e : e = closer[c].e
  OBVIOUS
<1>3. \/ ent' = ent
      \/ ent' = [ent EXCEPT ![e].status = "closing"]
      \/ \E l : ent' = [ent EXCEPT ![e].live = l, ![e].held = FALSE]
      \/ ent' = [ent EXCEPT ![e].closes = @ + 1]
  BY <1>2 DEF CloserStep, Visit, AllVisited, SwapStatus, CloseSubscription, CloseChannel, Delete
<1>4. Quiet
  <2>1. CASE ent' = ent
    BY <2>1 DEF Inv, EntriesOK, Quiet
  <2>2. CASE ent' = [ent EXCEPT ![e].status = "closing"]
    BY <2>2 DEF Inv, EntriesOK, Quiet, EntryFields, Statuses
  <2>3. ASSUME NEW l, ent' = [ent EXCEPT ![e].live = l, ![e].held = FALSE] PROVE Quiet
    <3>1. DOMAIN ent = Entries
      BY DEF Inv, EntriesOK
    <3>2. ent' = [ent EXCEPT ![e] = [[ent[e] EXCEPT !.live = l] EXCEPT !.held = FALSE]]
      BY <2>3, <3>1
    <3> QED BY <3>2 DEF Inv, EntriesOK, Quiet, EntryFields
  <2>4. CASE ent' = [ent EXCEPT ![e].closes = @ + 1]
    BY <2>4 DEF Inv, EntriesOK, Quiet, EntryFields
  <2> QED BY <1>3, <2>1, <2>2, <2>3, <2>4
<1>5. entryOf' = entryOf \/ MapOK'
  <2>1. entryOf' = entryOf \/ (ent' = ent /\ \E id : entryOf' = [entryOf EXCEPT ![id] = NoEntry])
    BY DEF CloserStep, Visit, AllVisited, SwapStatus, CloseSubscription, CloseChannel, Delete, Without
  <2> QED BY <2>1 DEF Inv, MapOK, Allocated
<1> QED BY <1>1, <1>4, <1>5, QuietSteps

-----------------------------------------------------------------------------
(* The locks are kept.                                                       *)

LEMMA InitInv == Init => Inv
<1> SUFFICES ASSUME Init PROVE Inv
  OBVIOUS
<1>1. \A e \in Entries : ent[e] = NewEntry(NoId)
  BY DEF Init
<1>2. EntriesOK
  BY <1>1 DEF Init, EntriesOK, NewEntry, EntryFields, Statuses
<1>3. MapOK
  BY DEF Init, MapOK
<1>4. DOMAIN job = Callers /\ \A p \in Callers : job[p] = NoJob
  BY DEF Init
<1>5. VarsOK(NoJob) /\ \A p : LocksOK(p, NoJob)
  BY DEF NoJob, VarsOK, LocksOK, JobFields, Locking, Storing
<1> QED BY <1>2, <1>3, <1>4, <1>5 DEF Inv, CallerOK

LEMMA CallerKeeps ==
  ASSUME Inv, NEW p \in Callers, CallAny(p) \/ CallerStep(p) \/ Lock(p) PROVE Stepped(p)
<1>1. CASE CallerStep(p)
  BY <1>1, FoundEntryKeeps, CreateEntryKeeps, ProcessedKeeps, ReadStatusKeeps, ResetErrorKeeps,
     ReadStatusManyKeeps, AskKeeps, ApplyKeeps, SetReadyKeeps, SubscribedKeeps, CheckKeeps
  DEF CallerStep
<1> QED BY <1>1, CallKeeps, LockKeeps

LEMMA StepsAreGentle ==
  ASSUME Inv, Next PROVE \E p \in Callers \cup {NoCaller} : Stepped(p)
<1>1. ASSUME NEW p \in Callers, CallAny(p) \/ CallerStep(p) \/ Lock(p)
      PROVE  \E q \in Callers \cup {NoCaller} : Stepped(q)
  BY <1>1, CallerKeeps
<1>2. ASSUME Stepped(NoCaller) PROVE \E q \in Callers \cup {NoCaller} : Stepped(q)
  BY <1>2
<1>3. Tick \/ StartCleanup \/ Stop => Stepped(NoCaller)
  BY TickKeeps
<1>4. (\E k \in tasks : TaskStep(k)) => Stepped(NoCaller)
  BY TaskKeeps
<1>5. (\E e \in Entries : Updating(e)) => Stepped(NoCaller)
  BY UpdatingKeeps
<1>6. (\E id \in SharedIds, n \in Versions : Change(id, n)) => Stepped(NoCaller)
  BY ChangeKeeps
<1>7. (\E c \in {"cleanup", "stop"} : CloserStep(c)) => Stepped(NoCaller)
  BY CloserKeeps
<1> QED BY <1>1, <1>2, <1>3, <1>4, <1>5, <1>6, <1>7 DEF Next

LEMMA NextInv == Inv /\ [Next]_vars => Inv'
<1>1. ASSUME Inv, Next PROVE Inv'
  BY <1>1, StepsAreGentle, SteppedKeeps
<1>2. ASSUME Inv, UNCHANGED vars PROVE Inv'
  BY <1>2 DEF vars, Inv, EntriesOK, MapOK, Allocated, CallerOK, LocksOK
<1> QED BY <1>1, <1>2

-----------------------------------------------------------------------------
(* What happens to one entry.                                                *)

LEMMA WaitingCounts ==
  ASSUME NEW T, IsFiniteSet(T)
  PROVE  IsFiniteSet(Waiting(T)) /\ Cardinality(Waiting(T)) \in Nat
<1>1. Waiting(T) \in SUBSET T
  BY DEF Waiting
<1> QED BY <1>1, FS_Subset, FS_CardinalityType

LEMMA UpToGrows ==
  ASSUME NEW m \in Nat, NEW n \in Nat, m <= n
  PROVE  UpTo(m) \subseteq UpTo(n) /\ \A q \in Seq(UpTo(m)) : q \in Seq(UpTo(n))
<1>1. UpTo(m) \subseteq UpTo(n)
  BY DEF UpTo
<1> QED BY <1>1

(* Nothing is heard, deleted or stored, and no claim is added.               *)
LEMMA MoveKeeps ==
  ASSUME NEW r, NEW T, NEW F, NEW S, NEW n \in Nat, EntryOK(r, T, F, S, n),
         NEW r2, NEW T2, NEW F2, NEW S2, NEW n2 \in Nat, n <= n2,
         r2.live \in Int, r2.deletions = r.deletions, r2.dying = r.dying, r2.data = r.data,
         r2.queue = r.queue, IsFiniteSet(T2), Claims(r2, T2, F2) <= Claims(r, T, F),
         r.deletions = 0 /\ Fetched(r2, F2) =>
           Fetched(r, F) /\ (Blank(r, T) => Blank(r2, T2)) /\ (S # {} => S2 # {})
  PROVE  EntryOK(r2, T2, F2, S2, n2)
<1>1. Claims(r, T, F) \in Int /\ Claims(r2, T2, F2) \in Int
  <2>1. Cardinality(Waiting(T)) \in Nat /\ Cardinality(Waiting(T2)) \in Nat
    BY WaitingCounts DEF EntryOK
  <2>2. r.live \in Int /\ r2.live \in Int
    BY DEF EntryOK
  <2> QED BY <2>1, <2>2 DEF Claims
<1>2. Claims(r2, T2, F2) <= r2.deletions + 1
  BY <1>1 DEF EntryOK
<1>3. r2.data \in UpTo(n2) /\ r2.queue \in Seq(UpTo(n2))
  BY UpToGrows DEF EntryOK
<1> QED BY <1>2, <1>3 DEF EntryOK

(* Only who holds it, its status and its times change.                       *)
Like(r, r2) ==
  /\ r2.live = r.live /\ r2.held = r.held /\ r2.deletions = r.deletions /\ r2.dying = r.dying
  /\ r2.data = r.data /\ r2.queue = r.queue

LEMMA LikeKeeps ==
  ASSUME NEW r, NEW T, NEW F, NEW S, NEW n \in Nat, EntryOK(r, T, F, S, n),
         NEW r2, NEW F2, NEW S2, NEW n2 \in Nat, n <= n2, Like(r, r2),
         Fetched(r2, F2) => Fetched(r, F), S # {} => S2 # {}
  PROVE  EntryOK(r2, T, F2, S2, n2)
<1>1. Claims(r2, T, F2) <= Claims(r, T, F)
  BY WaitingCounts DEF EntryOK, Claims, Like
<1>2. Blank(r, T) => Blank(r2, T)
  BY DEF Blank, Like
<1>3. /\ r2.live \in Int /\ IsFiniteSet(T) /\ r2.deletions = r.deletions /\ r2.dying = r.dying
      /\ r2.data = r.data /\ r2.queue = r.queue
  BY DEF Like, EntryOK
<1> QED BY <1>1, <1>2, <1>3, MoveKeeps

(* A fetch is stored in an entry that nobody else stores into.               *)
LEMMA StoreKeeps ==
  ASSUME NEW r, NEW T, NEW F, NEW n \in Nat, EntryOK(r, T, F, {}, n), Fetched(r, F),
         NEW r2, NEW F2, NEW S2, S2 # {}, NEW got \in 0 .. n,
         r2.live = r.live, r2.held = r.held, r2.deletions = r.deletions, r2.dying = r.dying,
         r2.queue = r.queue, r2.data = got
  PROVE  EntryOK(r2, T, F2, S2, n) /\ (r.deletions = 0 => r.data = NoData)
<1>1. Claims(r2, T, F2) <= Claims(r, T, F) /\ Claims(r, T, F) \in Int /\ Claims(r2, T, F2) \in Int
  BY WaitingCounts DEF EntryOK, Claims
<1>2. r2.data \in UpTo(n)
  BY DEF UpTo
<1>3. r.deletions = 0 => r.data = NoData /\ Blank(r2, T) /\ Sorted(r2.data, r2.queue)
  BY DEF EntryOK, Blank, Sorted
<1>4. Claims(r2, T, F2) <= r2.deletions + 1
  BY <1>1 DEF EntryOK
<1> QED BY <1>2, <1>3, <1>4 DEF EntryOK

(* It becomes ready, and may get a subscriber.                               *)
WithOneMore(T, T2, k) == T2 = T \/ T2 = T \cup {k}

LEMMA ReadyKeeps ==
  ASSUME NEW r, NEW T, NEW F, NEW S, NEW n \in Nat, EntryOK(r, T, F, S, n), Fetched(r, F),
         NEW r2, NEW F2, NEW S2, ~Fetched(r2, F2), Like(r, r2), NEW k, NEW T2, WithOneMore(T, T2, k)
  PROVE  EntryOK(r2, T2, F2, S2, n)
<1>1. /\ IsFiniteSet(T2) /\ Cardinality(Waiting(T2)) <= Cardinality(Waiting(T)) + 1
      /\ Cardinality(Waiting(T)) \in Nat /\ Cardinality(Waiting(T2)) \in Nat
  <2>1. IsFiniteSet(T) /\ IsFiniteSet(T2)
    BY FS_AddElement DEF EntryOK, WithOneMore
  <2>2. Waiting(T2) = Waiting(T) \/ Waiting(T2) = Waiting(T) \cup {k}
    BY DEF Waiting, WithOneMore
  <2>3. IsFiniteSet(Waiting(T)) /\ Cardinality(Waiting(T)) \in Nat /\ Cardinality(Waiting(T2)) \in Nat
    BY <2>1, WaitingCounts
  <2> QED BY <2>1, <2>2, <2>3, FS_AddElement
<1>2. Claims(r2, T2, F2) <= Claims(r, T, F)
  BY <1>1 DEF EntryOK, Claims, Like
<1>3. /\ r2.live \in Int /\ r2.deletions = r.deletions /\ r2.dying = r.dying /\ r2.data = r.data
      /\ r2.queue = r.queue
  BY DEF Like, EntryOK
<1> QED BY <1>1, <1>2, <1>3, MoveKeeps

(* A subscriber is done, or has a subscription to store.                     *)
LEMMA SubscriberKeeps ==
  ASSUME NEW r, NEW T, NEW F, NEW S, NEW n \in Nat, EntryOK(r, T, F, S, n), NEW k \in T, NEW k2,
         NEW r2, r2.deletions = r.deletions, r2.dying = r.dying, r2.data = r.data, r2.queue = r.queue,
         r2.status = r.status, NEW T2,
         \/ T2 = T \ {k} /\ r2.live = r.live
         \/ T2 = (T \ {k}) \cup {k2} /\ k.at = "subscribe" /\ k2.at # "subscribe" /\ r2.live = r.live + 1
  PROVE  EntryOK(r2, T2, F, S, n)
<1>1. IsFiniteSet(T) /\ IsFiniteSet(T \ {k}) /\ IsFiniteSet(T2)
  BY FS_AddElement, FS_RemoveElement DEF EntryOK
<1>2. IsFiniteSet(Waiting(T)) /\ Cardinality(Waiting(T)) \in Nat /\ Cardinality(Waiting(T2)) \in Nat
  BY <1>1, WaitingCounts
<1>3. Claims(r2, T2, F) <= Claims(r, T, F)
  <2>1. CASE T2 = T \ {k} /\ r2.live = r.live
    <3>1. Waiting(T2) \in SUBSET Waiting(T)
      BY <2>1 DEF Waiting
    <3>2. Cardinality(Waiting(T2)) <= Cardinality(Waiting(T))
      BY <1>2, <3>1, FS_Subset
    <3> QED BY <1>2, <2>1, <3>2 DEF EntryOK, Claims, Fetched
  <2>2. CASE T2 = (T \ {k}) \cup {k2} /\ k.at = "subscribe" /\ k2.at # "subscribe" /\ r2.live = r.live + 1
    <3>1. Waiting(T2) = Waiting(T) \ {k} /\ k \in Waiting(T)
      BY <2>2 DEF Waiting
    <3>2. Cardinality(Waiting(T2)) = Cardinality(Waiting(T)) - 1
      BY <1>2, <3>1, FS_RemoveElement
    <3> QED BY <1>2, <2>2, <3>2 DEF EntryOK, Claims, Fetched
  <2> QED BY <2>1, <2>2
<1>4. r2.live \in Int /\ ~Blank(r, T) /\ (Fetched(r2, F) => Fetched(r, F))
  BY DEF EntryOK, Blank, Fetched
<1> QED BY <1>1, <1>3, <1>4, MoveKeeps

Copies(x, l) == [i \in 1 .. l |-> x]

Longer(q, c, x, l) ==
  /\ Len(c) = Len(q) + l
  /\ \A i \in 1 .. Len(q) + l : (i \in 1 .. Len(q) /\ c[i] = q[i]) \/ (i > Len(q) /\ c[i] = x)

LEMMA Copied ==
  ASSUME NEW U, NEW q \in Seq(U), NEW x \in U, NEW l \in Nat
  PROVE  q \o Copies(x, l) \in Seq(U) /\ Longer(q, q \o Copies(x, l), x, l)
<1>0. Copies(x, l) \in [1 .. l -> U] /\ \A i \in 1 .. l : Copies(x, l)[i] = x
  BY DEF Copies
<1>1. PICK s \in [1 .. l -> U] : s = Copies(x, l) /\ \A i \in 1 .. l : s[i] = x
  BY <1>0
<1>2. s \in Seq(U)
  BY SeqDef
<1>3. Len(s) = l
  BY <1>2, LenProperties
<1>4. /\ q \o s \in Seq(U) /\ Len(q \o s) = Len(q) + Len(s) /\ Len(q) \in Nat
      /\ \A i \in 1 .. Len(q) + Len(s) : (q \o s)[i] = IF i <= Len(q) THEN q[i] ELSE s[i - Len(q)]
  BY <1>2, ConcatProperties, LenProperties
<1>5. \A i \in 1 .. Len(q) + l : i \in 1 .. Len(q) \/ (i > Len(q) /\ s[i - Len(q)] = x)
  BY <1>1, <1>4
<1>6. Longer(q, q \o s, x, l)
  BY <1>3, <1>4, <1>5 DEF Longer
<1> QED BY <1>1, <1>4, <1>6

(* A version that is newer than all there are comes to each subscription.    *)
LEMMA HearKeeps ==
  ASSUME NEW r, NEW T, NEW F, NEW S, NEW n \in Nat, EntryOK(r, T, F, S, n), r.live > 0,
         NEW version \in {n + 1, NoData}, NEW r2,
         r2 = [r EXCEPT !.queue = r.queue \o Copies(version, r.live)],
         DOMAIN r = EntryFields
  PROVE  EntryOK(r2, T, F, S, n + 1)
<1>1. PICK q, l : q = r.queue /\ l = r.live /\ q \in Seq(UpTo(n)) /\ l \in Nat /\ l > 0
  BY DEF EntryOK
<1>2. PICK U : U = UpTo(n + 1) /\ q \in Seq(U) /\ version \in U /\ UpTo(n) \subseteq U
  <2>1. n + 1 \in Nat /\ n <= n + 1
    OBVIOUS
  <2>2. q \in Seq(UpTo(n + 1)) /\ UpTo(n) \subseteq UpTo(n + 1)
    BY <1>1, <2>1, UpToGrows
  <2>3. version \in UpTo(n + 1)
    BY DEF UpTo
  <2> QED BY <2>2, <2>3
<1>3. PICK c : c = q \o Copies(version, l)
  OBVIOUS
<1>4. c \in Seq(U) /\ Longer(q, c, version, l)
  BY <1>1, <1>2, <1>3, Copied
<1>5. /\ Len(c) = Len(q) + l
      /\ \A i \in 1 .. Len(q) + l : (i \in 1 .. Len(q) /\ c[i] = q[i]) \/ (i > Len(q) /\ c[i] = version)
  BY <1>4 DEF Longer
<1>6. /\ r2.live = r.live /\ r2.held = r.held /\ r2.deletions = r.deletions /\ r2.dying = r.dying
      /\ r2.data = r.data /\ r2.status = r.status /\ r2.queue = c
  BY <1>1, <1>3 DEF EntryFields
<1>7. Sorted(r.data, q) => Sorted(r2.data, c)
  <2>1. \A x \in UpTo(n) : InOrder(x, version)
    BY SharedValues DEF UpTo, InOrder
  <2>2. \A i \in 1 .. Len(q) : q[i] \in UpTo(n)
    BY <1>1
  <2>3. InOrder(version, version)
    BY SharedValues DEF InOrder
  <2>4. r.data \in UpTo(n)
    BY DEF EntryOK
  <2>5. ASSUME Sorted(r.data, q), NEW i \in 1 .. Len(c) PROVE InOrder(r.data, c[i])
    BY <1>5, <2>1, <2>4, <2>5 DEF Sorted
  <2>6. ASSUME Sorted(r.data, q), NEW i \in 1 .. Len(c), NEW k \in 1 .. Len(c), i < k
        PROVE  InOrder(c[i], c[k])
    <3>1. CASE k \in 1 .. Len(q)
      <4>1. i \in 1 .. Len(q)
        BY <1>1, <1>5, <2>6, <3>1
      <4> QED BY <1>5, <2>6, <3>1, <4>1 DEF Sorted
    <3>2. CASE k > Len(q)
      <4>1. c[k] = version
        BY <1>5, <3>2
      <4>2. c[i] \in UpTo(n) \cup {version}
        BY <1>5, <2>2
      <4> QED BY <2>1, <2>3, <4>1, <4>2
    <3> QED BY <1>1, <1>5, <3>1, <3>2
  <2> QED BY <1>6, <2>5, <2>6 DEF Sorted
<1>8. Claims(r2, T, F) = Claims(r, T, F) /\ (Fetched(r2, F) => Fetched(r, F)) /\ ~Blank(r, T)
  BY <1>1, <1>6 DEF Claims, Fetched, Blank
<1>9. r2.data \in UpTo(n + 1) /\ r2.queue \in Seq(UpTo(n + 1))
  BY <1>2, <1>4, <1>6 DEF EntryOK
<1> QED BY <1>1, <1>6, <1>7, <1>8, <1>9 DEF EntryOK

LEMMA TailSorted ==
  ASSUME NEW A, NEW q \in Seq(A), q # <<>>, NEW data, Sorted(data, q)
  PROVE  Sorted(data, Tail(q)) /\ Sorted(Head(q), Tail(q)) /\ InOrder(data, Head(q))
<1>1. PICK m : m = Len(q) /\ m \in Nat /\ m > 0
  OBVIOUS
<1>2. Len(Tail(q)) = m - 1 /\ \A i \in 1 .. m - 1 : Tail(q)[i] = q[i + 1]
  BY <1>1, HeadTailProperties
<1>3. Head(q) = q[1] /\ 1 \in 1 .. m
  BY <1>1
<1>4. \A i \in 1 .. m - 1 : i + 1 \in 1 .. m /\ 1 < i + 1
  BY <1>1
<1>5. \A i, k \in 1 .. m - 1 : i < k => i + 1 < k + 1
  BY <1>1
<1> QED BY <1>1, <1>2, <1>3, <1>4, <1>5 DEF Sorted

(* An update is processed.                                                   *)
LEMMA ProcessKeeps ==
  ASSUME NEW r, NEW T, NEW F, NEW S, NEW n \in Nat, EntryOK(r, T, F, S, n), DOMAIN r = EntryFields,
         NEW r2,
         \/ r2 = Shut(r) /\ r.queue # <<>>
         \/ r2 = Deleted(r) /\ r.queue # <<>> /\ ~r.dying
         \/ r2 = Updated(r) /\ r.queue # <<>> /\ Head(r.queue) # NoData
         \/ r2 = Erring(r) /\ r.dying
         \/ r2 = Finished(r)
  PROVE  /\ EntryOK(r2, T, F, S, n)
         /\ r.deletions = 0 /\ r.data # NoData /\ r2.data # NoData => r2.data >= r.data
<1>0. Claims(r, T, F) \in Int /\ Cardinality(Waiting(T)) \in Nat /\ r.data \in UpTo(n)
  BY WaitingCounts DEF EntryOK, Claims
<1>1. r.queue # <<>> => Head(r.queue) \in UpTo(n) /\ Tail(r.queue) \in Seq(UpTo(n))
  BY HeadTailProperties DEF EntryOK
<1>2. r.queue # <<>> /\ r.deletions = 0 =>
        /\ ~Fetched(r, F) /\ Sorted(r.data, Tail(r.queue)) /\ Sorted(Head(r.queue), Tail(r.queue))
        /\ InOrder(r.data, Head(r.queue))
  BY TailSorted DEF EntryOK, Blank
<1>3. CASE r2 = Shut(r) /\ r.queue # <<>>
  <2>1. /\ r2.live = r.live /\ r2.deletions = r.deletions /\ r2.dying = r.dying /\ r2.data = r.data
        /\ r2.queue = Tail(r.queue) /\ r2.status = r.status
    BY <1>3 DEF Shut, EntryFields
  <2>2. Claims(r2, T, F) = Claims(r, T, F) /\ (Fetched(r2, F) => Fetched(r, F))
    BY <2>1 DEF Claims, Fetched
  <2> QED BY <1>0, <1>1, <1>2, <1>3, <2>1, <2>2, SharedValues DEF EntryOK, UpTo
<1>4. CASE r2 = Deleted(r) /\ r.queue # <<>> /\ ~r.dying
  <2>1. /\ r2.live = r.live /\ r2.deletions = r.deletions + 1 /\ r2.dying = TRUE /\ r2.data = NoData
        /\ r2.queue = Tail(r.queue) /\ r2.status = r.status
    BY <1>4 DEF Deleted, EntryFields
  <2>2. Claims(r2, T, F) = Claims(r, T, F) + 1
    BY <1>0, <1>4, <2>1 DEF Claims, Fetched, EntryOK
  <2>3. r2.deletions \in Nat /\ r2.deletions # 0 /\ r2.deletions > 0 /\ r2.data \in UpTo(n)
    BY <2>1 DEF EntryOK, UpTo
  <2>4. Claims(r2, T, F) <= r2.deletions + 1
    BY <1>0, <2>1, <2>2 DEF EntryOK
  <2> QED BY <1>1, <1>4, <2>1, <2>3, <2>4 DEF EntryOK
<1>5. CASE r2 = Updated(r) /\ r.queue # <<>> /\ Head(r.queue) # NoData
  <2>1. /\ r2.live = r.live /\ r2.deletions = r.deletions /\ r2.dying = r.dying /\ r2.data = Head(r.queue)
        /\ r2.queue = Tail(r.queue) /\ r2.status = r.status
    BY <1>5 DEF Updated, EntryFields
  <2>2. Claims(r2, T, F) = Claims(r, T, F) /\ (Fetched(r2, F) => Fetched(r, F))
    BY <2>1 DEF Claims, Fetched
  <2>3. r.deletions = 0 /\ r.data # NoData => r2.data >= r.data
    BY <1>0, <1>1, <1>2, <1>5, <2>1, SharedValues DEF InOrder, UpTo
  <2>4. EntryOK(r2, T, F, S, n)
    BY <1>1, <1>2, <1>5, <2>1, <2>2 DEF EntryOK
  <2> QED BY <2>3, <2>4
<1>6. CASE r2 = Erring(r) /\ r.dying
  <2>1. /\ r2.live = r.live /\ r2.deletions = r.deletions /\ r2.dying = FALSE /\ r2.data = r.data
        /\ r2.queue = r.queue
    BY <1>6 DEF Erring, EntryFields
  <2>2. r.deletions \in Nat /\ r.deletions > 0 /\ r.deletions # 0
    BY <1>6 DEF EntryOK
  <2>3. Claims(r2, T, F) <= Claims(r, T, F) /\ Claims(r2, T, F) \in Int
    BY <1>0, <1>6, <2>1 DEF Claims, EntryOK
  <2>4. Claims(r2, T, F) <= r2.deletions + 1
    BY <1>0, <2>1, <2>3 DEF EntryOK
  <2> QED BY <2>1, <2>2, <2>4 DEF EntryOK
<1>7. CASE r2 = Finished(r)
  <2>1. /\ r2.live = r.live /\ r2.held = r.held /\ r2.deletions = r.deletions /\ r2.dying = r.dying
        /\ r2.data = r.data /\ r2.queue = r.queue /\ r2.status = r.status
    BY <1>7 DEF Finished, EntryFields
  <2>2. EntryOK(r2, T, F, S, n)
    BY <2>1, LikeKeeps DEF Like, Fetched
  <2> QED BY <1>0, <2>1, <2>2, SharedValues DEF UpTo
<1> QED BY <1>3, <1>4, <1>5, <1>6, <1>7

-----------------------------------------------------------------------------
(* The steps of everybody but callers.                                       *)

FeedVars ==
  /\ changes \in Nat /\ truth \in [SharedIds -> UpTo(changes)]
  /\ \A e \in Entries : ent[e].id \in SharedIds \cup {NoId}
  /\ \A k \in tasks : DOMAIN k = {"e", "by", "at"} /\ Allocated(k.e)
  /\ \A p \in Callers : AnswersOK(job[p])

EntryFed(e) == EntryOK(ent[e], TasksOf(e), StorersOf(e), ReadiersOf(e), changes)

KeptAt(e) ==
  ent[e].deletions = 0 /\ ent[e].data # NoData /\ ent'[e].data # NoData => ent'[e].data >= ent[e].data

(* The feeding of all entries is kept.                                       *)
Fed == FeedInv' /\ \A e \in Entries : KeptAt(e)

LEMMA Feeding == FeedInv <=> FeedVars /\ \A e \in Entries : EntryFed(e)
  BY DEF FeedInv, FeedVars, EntryFed

LEMMA SameDataKept ==
  ASSUME NEW e, EntryFed(e), changes \in Nat, ent'[e].data \in {ent[e].data, NoData} PROVE KeptAt(e)
<1>1. PICK d, n : d = ent[e].data /\ n = changes /\ d \in UpTo(n) /\ n \in Nat
  BY DEF EntryFed, EntryOK
<1>2. d # NoData => d >= d
  BY <1>1 DEF UpTo
<1> QED BY <1>1, <1>2 DEF KeptAt

(* The answers a caller has are about entries that keep their entity.        *)
LEMMA AnswersKept ==
  ASSUME Inv, NEW p, Gentle(p), changes \in Nat, changes' \in Nat, changes <= changes',
         NEW q \in Callers, AnswersOK(job[q]), NEW n,
         n.es = job[q].es, n.fetch = job[q].fetch, n.got = job[q].got,
         n.pc \in {"apply", "ready", "subscribing"} => job[q].pc \in {"apply", "ready", "subscribing"}
  PROVE  AnswersOK(n)'
<1>1. PICK j : j = job[q] /\ VarsOK(j) /\ LocksOK(q, j) /\ AnswersOK(j)
  BY DEF Inv, CallerOK
<1>2. \A i \in 1 .. Len(j.fetch) : Allocated(j.es[j.fetch[i]])
  BY <1>1 DEF VarsOK, LocksOK
<1>3. \A i \in 1 .. Len(j.fetch) : ent'[j.es[j.fetch[i]]].id = ent[j.es[j.fetch[i]]].id
  BY <1>2 DEF Gentle, Allocated
<1>4. UpTo(changes) \subseteq UpTo(changes')
  BY UpToGrows
<1>5. n.pc \in {"apply", "ready", "subscribing"} => \A i \in 1 .. Len(n.fetch) :
        n.got[ent'[n.es[n.fetch[i]]].id] \in UpTo(changes') \cup {Failed}
  <2>1. SUFFICES ASSUME n.pc \in {"apply", "ready", "subscribing"}, NEW i \in 1 .. Len(n.fetch)
                 PROVE  n.got[ent'[n.es[n.fetch[i]]].id] \in UpTo(changes') \cup {Failed}
    OBVIOUS
  <2>2. i \in 1 .. Len(j.fetch) /\ n.got = j.got /\ n.es[n.fetch[i]] = j.es[j.fetch[i]]
    BY <1>1, <2>1
  <2>3. j.got[ent[j.es[j.fetch[i]]].id] \in UpTo(changes) \cup {Failed}
    BY <1>1, <2>1, <2>2 DEF AnswersOK
  <2> QED BY <1>3, <1>4, <2>2, <2>3
<1> QED BY <1>5 DEF AnswersOK, UpTo

(* When no caller moves.                                                     *)
LEMMA VarsKept ==
  ASSUME Inv, FeedVars, Stepped(NoCaller), job' = job, changes' \in Nat, changes <= changes',
         truth' \in [SharedIds -> UpTo(changes')],
         \A e \in Entries : ent'[e].id = ent[e].id,
         \A k \in tasks' : DOMAIN k = {"e", "by", "at"} /\ Allocated(k.e)
  PROVE  FeedVars'
<1>1. Gentle(NoCaller)
  BY DEF Stepped
<1>2. \A p \in Callers : AnswersOK(job[p])'
  BY <1>1, AnswersKept DEF FeedVars
<1>3. \A k \in tasks' : Allocated(k.e)'
  BY <1>1, StayAllocated
<1> QED BY <1>2, <1>3 DEF FeedVars, UpTo

LEMMA SameCallers ==
  ASSUME job' = job, NEW e PROVE StorersOf(e)' = StorersOf(e) /\ ReadiersOf(e)' = ReadiersOf(e)
  BY DEF StorersOf, ReadiersOf, BatchAt

LEMMA TickFeeds ==
  ASSUME Inv, FeedInv, Tick \/ StartCleanup \/ Stop PROVE Fed
<1>1. FeedVars /\ \A e \in Entries : EntryFed(e)
  BY Feeding
<1>2. ent' = ent /\ job' = job /\ tasks' = tasks /\ changes' = changes /\ truth' = truth
  BY DEF Tick, StartCleanup, Stop, ByCloser
<1>3. changes \in Nat
  BY <1>1 DEF FeedVars
<1>4. FeedVars'
  BY <1>1, <1>2, <1>3, TickKeeps, VarsKept DEF FeedVars
<1>5. \A e \in Entries : EntryFed(e)'
  BY <1>1, <1>2, SameCallers DEF EntryFed, TasksOf
<1>6. \A e \in Entries : KeptAt(e)
  BY <1>1, <1>2, <1>3, SameDataKept
<1> QED BY <1>4, <1>5, <1>6 DEF Fed, FeedVars, EntryFed, FeedInv

LEMMA UpdatingFeeds ==
  ASSUME Inv, FeedInv, NEW e \in Entries, Updating(e) PROVE Fed
<1>1. FeedVars /\ \A x \in Entries : EntryFed(x)
  BY Feeding
<1>2. PICK r : r = ent[e] /\ DOMAIN r = EntryFields
  BY DEF Inv, EntriesOK
<1>3. PICK s : /\ ent' = [ent EXCEPT ![e] = s]
               /\ \/ s = Shut(r) /\ r.queue # <<>>
                  \/ s = Deleted(r) /\ r.queue # <<>> /\ ~r.dying
                  \/ s = Updated(r) /\ r.queue # <<>> /\ Head(r.queue) # NoData
                  \/ s = Erring(r) /\ r.dying
                  \/ s = Finished(r)
  BY <1>2, UpdatingIs
<1>4. job' = job /\ tasks' = tasks /\ truth' = truth /\ changes' = changes
  BY UpdatingIs
<1>5. ent'[e] = s /\ \A x \in Entries : x # e => ent'[x] = ent[x]
  BY <1>3 DEF Inv, EntriesOK
<1>6. Stepped(NoCaller) /\ changes \in Nat
  BY <1>1, UpdatingKeeps DEF FeedVars
<1>7. \A x \in Entries : ent'[x].id = ent[x].id
  <2>1. s.id = r.id
    BY <1>2, <1>3 DEF Shut, Deleted, Updated, Erring, Finished, EntryFields
  <2> QED BY <1>2, <1>5, <2>1
<1>8. FeedVars'
  BY <1>1, <1>4, <1>6, <1>7, VarsKept DEF FeedVars
<1>9. ASSUME NEW x \in Entries, x # e PROVE EntryFed(x)' /\ KeptAt(x)
  <2>1. ent'[x] = ent[x]
    BY <1>5, <1>9
  <2>2. EntryFed(x)'
    BY <1>1, <1>4, <2>1, SameCallers DEF EntryFed, TasksOf
  <2> QED BY <1>1, <1>6, <2>1, <2>2, SameDataKept
<1>10. EntryFed(e)' /\ KeptAt(e)
  <2>1. EntryOK(r, TasksOf(e), StorersOf(e), ReadiersOf(e), changes)
    BY <1>1, <1>2 DEF EntryFed
  <2>2. /\ EntryOK(s, TasksOf(e), StorersOf(e), ReadiersOf(e), changes)
        /\ r.deletions = 0 /\ r.data # NoData /\ s.data # NoData => s.data >= r.data
    BY <1>2, <1>3, <1>6, <2>1, ProcessKeeps
  <2>3. EntryFed(e)'
    BY <1>4, <1>5, <2>2, SameCallers DEF EntryFed, TasksOf
  <2> QED BY <1>2, <1>5, <2>2, <2>3 DEF KeptAt
<1> QED BY <1>8, <1>9, <1>10 DEF Fed, FeedVars, EntryFed, FeedInv

LEMMA TaskFeeds ==
  ASSUME Inv, FeedInv, NEW k \in tasks, TaskStep(k) PROVE Fed
<1>1. FeedVars /\ \A x \in Entries : EntryFed(x)
  BY Feeding
<1>2. PICK e : e = k.e /\ Allocated(e) /\ DOMAIN k = {"e", "by", "at"}
  BY <1>1 DEF FeedVars
<1>3. PICK r : r = ent[e] /\ DOMAIN r = EntryFields
  BY <1>2 DEF Inv, EntriesOK, Allocated
<1>4. PICK k2 : k2 = [k EXCEPT !.at = "store"] /\ k2.at = "store" /\ k2.e = e /\ DOMAIN k2 = {"e", "by", "at"}
  <2>1. PICK l : l = [k EXCEPT !.at = "store"]
    OBVIOUS
  <2>2. l.at = "store" /\ l.e = e /\ DOMAIN l = {"e", "by", "at"}
    BY <1>2, <2>1
  <2> QED BY <2>1, <2>2
<1>5. job' = job /\ truth' = truth /\ changes' = changes
  BY DEF TaskStep, Subscribe, StoreSubscription
<1>6. PICK s : /\ \A x \in Entries : x # e => ent'[x] = ent[x]
               /\ ent'[e] = s /\ s.id = r.id /\ s.deletions = r.deletions /\ s.dying = r.dying
               /\ s.data = r.data /\ s.queue = r.queue /\ s.status = r.status
               /\ \/ tasks' = tasks \ {k} /\ s.live = r.live
                  \/ tasks' = (tasks \ {k}) \cup {k2} /\ k.at = "subscribe" /\ s.live = r.live + 1
  <2>1. CASE ent' = ent /\ tasks' = tasks \ {k}
    BY <1>3, <2>1
  <2>2. CASE /\ ent' = [ent EXCEPT ![e].live = @ + 1] /\ tasks' = (tasks \ {k}) \cup {k2}
             /\ k.at = "subscribe"
    BY <1>2, <1>3, <2>2 DEF Inv, EntriesOK, EntryFields, Allocated
  <2>3. CASE ent' = [ent EXCEPT ![e].held = TRUE] /\ tasks' = tasks \ {k}
    BY <1>2, <1>3, <2>3 DEF Inv, EntriesOK, EntryFields, Allocated
  <2> QED BY <1>2, <1>4, <2>1, <2>2, <2>3 DEF TaskStep, Subscribe, StoreSubscription
<1>7. Stepped(NoCaller) /\ changes \in Nat
  BY <1>1, TaskKeeps DEF FeedVars
<1>8. FeedVars'
  <2>1. \A x \in Entries : ent'[x].id = ent[x].id
    BY <1>3, <1>6
  <2>2. \A l \in tasks' : DOMAIN l = {"e", "by", "at"} /\ Allocated(l.e)
    BY <1>1, <1>2, <1>4, <1>6 DEF FeedVars
  <2> QED BY <1>1, <1>5, <1>7, <2>1, <2>2, VarsKept DEF FeedVars
<1>9. ASSUME NEW x \in Entries, x # e PROVE EntryFed(x)' /\ KeptAt(x)
  <2>1. ent'[x] = ent[x] /\ TasksOf(x)' = TasksOf(x)
    BY <1>2, <1>4, <1>6, <1>9 DEF TasksOf
  <2>2. EntryFed(x)'
    BY <1>1, <1>5, <2>1, SameCallers DEF EntryFed
  <2> QED BY <1>1, <1>7, <2>1, <2>2, SameDataKept
<1>10. EntryFed(e)' /\ KeptAt(e)
  <2>1. EntryOK(r, TasksOf(e), StorersOf(e), ReadiersOf(e), changes) /\ k \in TasksOf(e)
    BY <1>1, <1>2, <1>3 DEF EntryFed, TasksOf, Allocated
  <2>2. \/ TasksOf(e)' = TasksOf(e) \ {k} /\ s.live = r.live
        \/ TasksOf(e)' = (TasksOf(e) \ {k}) \cup {k2} /\ k.at = "subscribe" /\ s.live = r.live + 1
    BY <1>4, <1>6 DEF TasksOf
  <2>3. EntryOK(s, TasksOf(e)', StorersOf(e), ReadiersOf(e), changes)
    BY <1>4, <1>6, <1>7, <2>1, <2>2, SubscriberKeeps
  <2>4. EntryFed(e)'
    BY <1>5, <1>6, <2>3, SameCallers DEF EntryFed
  <2>5. KeptAt(e)
    BY <1>1, <1>2, <1>3, <1>6, <1>7, SameDataKept DEF Allocated
  <2> QED BY <2>4, <2>5
<1> QED BY <1>8, <1>9, <1>10 DEF Fed, FeedVars, EntryFed, FeedInv

LEMMA ChangeFeeds ==
  ASSUME Inv, FeedInv, NEW id \in SharedIds, NEW version, Change(id, version) PROVE Fed
<1>1. FeedVars /\ \A x \in Entries : EntryFed(x)
  BY Feeding
<1>2. PICK n : n = changes /\ n \in Nat /\ changes' = n + 1 /\ version \in {n + 1, NoData}
  BY <1>1 DEF FeedVars, Change
<1>3. job' = job /\ tasks' = tasks /\ truth' = [truth EXCEPT ![id] = version]
  BY DEF Change
<1>4. \A x \in Entries :
        ent'[x] = IF ent[x].id = id /\ ent[x].live > 0
                  THEN [ent[x] EXCEPT !.queue = ent[x].queue \o Copies(version, ent[x].live)] ELSE ent[x]
  BY DEF Change, Copies
<1>5. \A x \in Entries : DOMAIN ent[x] = EntryFields
  BY DEF Inv, EntriesOK
<1>6. \A x \in Entries : ent'[x].id = ent[x].id /\ ent'[x].data = ent[x].data
  BY <1>4, <1>5 DEF EntryFields
<1>7. FeedVars'
  <2>1. truth' \in [SharedIds -> UpTo(n + 1)]
    <3>1. truth \in [SharedIds -> UpTo(n)] /\ UpTo(n) \subseteq UpTo(n + 1) /\ version \in UpTo(n + 1)
      BY <1>1, <1>2, UpToGrows DEF FeedVars, UpTo
    <3> QED BY <1>3, <3>1
  <2>2. changes' \in Nat /\ changes <= changes'
    BY <1>2
  <2>3. Stepped(NoCaller)
    BY ChangeKeeps
  <2> QED BY <1>1, <1>2, <1>3, <1>6, <2>1, <2>2, <2>3, VarsKept DEF FeedVars
<1>8. ASSUME NEW x \in Entries PROVE EntryFed(x)' /\ KeptAt(x)
  <2>1. PICK r, s : r = ent[x] /\ s = ent'[x] /\ EntryOK(r, TasksOf(x), StorersOf(x), ReadiersOf(x), n)
    BY <1>1, <1>2 DEF EntryFed
  <2>2. EntryOK(s, TasksOf(x), StorersOf(x), ReadiersOf(x), n + 1)
    <3>1. CASE r.id = id /\ r.live > 0
      <4>1. s = [r EXCEPT !.queue = r.queue \o Copies(version, r.live)] /\ DOMAIN r = EntryFields
        BY <1>4, <1>5, <2>1, <3>1
      <4> QED BY <1>2, <2>1, <3>1, <4>1, HearKeeps
    <3>2. CASE ~(r.id = id /\ r.live > 0)
      <4>1. s = r
        BY <1>4, <2>1, <3>2
      <4>2. n + 1 \in Nat /\ n <= n + 1
        BY <1>2
      <4> QED BY <1>2, <2>1, <4>1, <4>2, LikeKeeps DEF Like
    <3> QED BY <3>1, <3>2
  <2>3. EntryFed(x)'
    BY <1>2, <1>3, <2>1, <2>2, SameCallers DEF EntryFed, TasksOf
  <2>4. KeptAt(x)
    BY <1>1, <1>2, <1>6, SameDataKept
  <2> QED BY <2>3, <2>4
<1> QED BY <1>7, <1>8 DEF Fed, FeedVars, EntryFed, FeedInv

LEMMA CloserFeeds ==
  ASSUME Inv, FeedInv, NEW c \in {"cleanup", "stop"}, CloserStep(c) PROVE Fed
<1>1. FeedVars /\ \A x \in Entries : EntryFed(x)
  BY Feeding
<1>2. job' = job /\ tasks' = tasks /\ truth' = truth /\ changes' = changes
  BY DEF CloserStep, Visit, AllVisited, SwapStatus, CloseSubscription, CloseChannel, Delete, ByCloser
<1>3. PICK e : e = closer[c].e
  OBVIOUS
<1>4. \/ ent' = ent
      \/ ent' = [ent EXCEPT ![e].status = "closing"]
      \/ ent' = [ent EXCEPT ![e].live = IF ent[e].held THEN @ - 1 ELSE @, ![e].held = FALSE]
      \/ ent' = [ent EXCEPT ![e].closes = @ + 1]
  BY <1>3 DEF CloserStep, Visit, AllVisited, SwapStatus, CloseSubscription, CloseChannel, Delete
<1>5. DOMAIN ent = Entries /\ \A x \in Entries : DOMAIN ent[x] = EntryFields
  BY DEF Inv, EntriesOK
<1>6. ASSUME NEW x \in Entries
      PROVE  LET r == ent[x]
                 s == ent'[x]
             IN  /\ s.id = r.id /\ s.deletions = r.deletions /\ s.dying = r.dying /\ s.data = r.data
                 /\ s.queue = r.queue /\ s.status \in {r.status, "closing"}
                 /\ \/ s.live = r.live /\ s.held = r.held
                    \/ s.live = r.live /\ ~s.held
                    \/ s.live = r.live - 1 /\ r.held
  <2>1. CASE ent' = ent
    BY <2>1
  <2>2. CASE ent' = [ent EXCEPT ![e].status = "closing"]
    BY <1>5, <2>2 DEF EntryFields
  <2>3. CASE ent' = [ent EXCEPT ![e].live = IF ent[e].held THEN @ - 1 ELSE @, ![e].held = FALSE]
    <3>1. x # e => ent'[x] = ent[x]
      BY <1>5, <2>3
    <3>2. CASE x = e
      <4>1. PICK l : l = IF ent[e].held THEN ent[e].live - 1 ELSE ent[e].live
        OBVIOUS
      <4>2. ent'[x] = [[ent[x] EXCEPT !.live = l] EXCEPT !.held = FALSE]
        BY <1>5, <2>3, <3>2, <4>1
      <4> QED BY <1>5, <3>2, <4>1, <4>2 DEF EntryFields
    <3> QED BY <3>1, <3>2
  <2>4. CASE ent' = [ent EXCEPT ![e].closes = @ + 1]
    BY <1>5, <2>4 DEF EntryFields
  <2> QED BY <1>4, <2>1, <2>2, <2>3, <2>4
<1>7. FeedVars'
  <2>1. Stepped(NoCaller)
    BY CloserKeeps
  <2>2. changes \in Nat /\ changes <= changes
    BY <1>1 DEF FeedVars
  <2>3. \A x \in Entries : ent'[x].id = ent[x].id
    BY <1>6
  <2> QED BY <1>1, <1>2, <2>1, <2>2, <2>3, VarsKept DEF FeedVars
<1>8. ASSUME NEW x \in Entries PROVE EntryFed(x)' /\ KeptAt(x)
  <2>1. PICK r, s, T, F, S, n :
          /\ r = ent[x] /\ s = ent'[x] /\ T = TasksOf(x) /\ F = StorersOf(x) /\ S = ReadiersOf(x)
          /\ n = changes /\ n \in Nat /\ EntryOK(r, T, F, S, n)
    BY <1>1 DEF EntryFed, FeedVars
  <2>2. /\ s.deletions = r.deletions /\ s.dying = r.dying /\ s.data = r.data
        /\ s.queue = r.queue /\ s.status \in {r.status, "closing"} /\ s.live \in Int /\ s.live <= r.live
        /\ Blank(r, T) => Blank(s, T)
    BY <1>6, <2>1 DEF EntryOK, Blank
  <2>3. (Fetched(s, F) => Fetched(r, F)) /\ IsFiniteSet(T)
    BY <2>1, <2>2 DEF Fetched, Open, EntryOK
  <2>4. Claims(s, T, F) <= Claims(r, T, F)
    <3>1. Cardinality(Waiting(T)) \in Nat /\ r.live \in Int
      BY <2>1, <2>3, WaitingCounts DEF EntryOK
    <3>2. (IF s.dying THEN 1 ELSE 0) = (IF r.dying THEN 1 ELSE 0)
      BY <2>2
    <3>3. (IF Fetched(s, F) THEN 1 ELSE 0) <= (IF Fetched(r, F) THEN 1 ELSE 0)
      BY <2>3
    <3> QED BY <2>2, <3>1, <3>2, <3>3 DEF Claims
  <2>5. EntryOK(s, T, F, S, n)
    BY <2>1, <2>2, <2>3, <2>4, MoveKeeps
  <2>6. EntryFed(x)'
    BY <1>2, <2>1, <2>5, SameCallers DEF EntryFed, TasksOf
  <2>7. KeptAt(x)
    BY <1>1, <2>1, <2>2, SameDataKept
  <2> QED BY <2>6, <2>7
<1> QED BY <1>7, <1>8 DEF Fed, FeedVars, EntryFed, FeedInv

-----------------------------------------------------------------------------
(* The steps of a caller.                                                    *)

Told == {"apply", "ready", "subscribing"}

LEMMA CallerVars ==
  ASSUME Inv, FeedVars, NEW p \in Callers, Stepped(p), changes' = changes, truth' = truth,
         \A e \in Entries : ent'[e].id = ent[e].id \/ ent'[e].id \in SharedIds,
         \A k \in tasks' : DOMAIN k = {"e", "by", "at"} /\ Allocated(k.e), AnswersOK(job[p])'
  PROVE  FeedVars'
<1>1. Gentle(p) /\ changes \in Nat /\ changes <= changes
  BY DEF Stepped, FeedVars
<1>2. \A q \in Callers : AnswersOK(job[q])'
  <2>1. \A q \in Callers : q # p => job'[q] = job[q]
    BY DEF Stepped
  <2>2. \A q \in Callers : AnswersOK(job[q])
    BY DEF FeedVars
  <2>3. ASSUME NEW q \in Callers, q # p PROVE AnswersOK(job[q])'
    <3>1. PICK n : n = job[q] /\ job'[q] = n
      BY <2>1, <2>3
    <3>2. AnswersOK(n)'
      BY <1>1, <2>2, <3>1, AnswersKept
    <3> QED BY <3>1, <3>2
  <2> QED BY <2>3
<1>3. \A k \in tasks' : Allocated(k.e)'
  BY <1>1, StayAllocated
<1> QED BY <1>2, <1>3 DEF FeedVars, UpTo

(* Who stores into an entry changes by the caller that moves only.           *)
LEMMA OthersStore ==
  ASSUME NEW p \in Callers, Stepped(p), NEW e, NEW q \in Callers, q # p
  PROVE  (q \in StorersOf(e)' <=> q \in StorersOf(e)) /\ (q \in ReadiersOf(e)' <=> q \in ReadiersOf(e))
<1>1. job'[q] = job[q]
  BY DEF Stepped
<1> QED BY <1>1 DEF StorersOf, ReadiersOf, BatchAt

LEMMA CallerEntry ==
  ASSUME FeedInv, NEW p \in Callers, Stepped(p), NEW e \in Entries,
         TasksOf(e)' = TasksOf(e), changes' = changes, p \notin ReadiersOf(e), Like(ent[e], ent'[e]),
         ent'[e].status \in Open \/ p \in StorersOf(e)' => Fetched(ent[e], StorersOf(e))
  PROVE  EntryFed(e)' /\ KeptAt(e)
<1>1. PICK r, s, T, F, S, F2, S2, n :
        /\ r = ent[e] /\ s = ent'[e] /\ T = TasksOf(e) /\ F = StorersOf(e) /\ S = ReadiersOf(e)
        /\ F2 = StorersOf(e)' /\ S2 = ReadiersOf(e)' /\ n = changes /\ n \in Nat
  BY DEF FeedInv
<1>2. EntryOK(r, T, F, S, n) /\ EntryFed(e)
  BY <1>1, Feeding DEF EntryFed
<1>3. Fetched(s, F2) => Fetched(r, F)
  <2>1. ASSUME NEW q \in F2 PROVE Fetched(r, F)
    <3>1. q \in Callers
      BY <1>1, <2>1 DEF StorersOf
    <3>2. q # p => q \in F
      BY <1>1, <2>1, <3>1, OthersStore
    <3> QED BY <1>1, <2>1, <3>2 DEF Fetched
  <2> QED BY <1>1, <2>1 DEF Fetched
<1>4. S # {} => S2 # {}
  <2>1. ASSUME NEW q \in S PROVE q \in S2
    <3>1. q \in Callers /\ q # p
      BY <1>1, <2>1 DEF ReadiersOf
    <3> QED BY <1>1, <2>1, <3>1, OthersStore
  <2> QED BY <2>1
<1>5. n <= n
  BY <1>1
<1>6. EntryOK(s, T, F2, S2, n)
  BY <1>1, <1>2, <1>3, <1>4, <1>5, LikeKeeps
<1>7. EntryFed(e)'
  BY <1>1, <1>6 DEF EntryFed
<1> QED BY <1>1, <1>2, <1>7, SameDataKept DEF Like

(* A step that fetches nothing into an entry and makes none ready.           *)
Steady(p) ==
  /\ tasks' = tasks /\ changes' = changes /\ truth' = truth /\ job[p].pc # "ready"
  /\ \A e \in Entries :
       /\ ent'[e].id = ent[e].id /\ Like(ent[e], ent'[e])
       /\ ent'[e].status \in Open => Fetched(ent[e], StorersOf(e))
       /\ p \in StorersOf(e)' => Fetched(ent[e], StorersOf(e))
  /\ AnswersOK(job[p])'

LEMMA SteadyFeeds ==
  ASSUME Inv, FeedInv, NEW p \in Callers, Stepped(p), Steady(p) PROVE Fed
<1>1. FeedVars
  BY Feeding
<1>2. FeedVars'
  BY <1>1, CallerVars DEF Steady, FeedVars
<1>3. ASSUME NEW e \in Entries PROVE EntryFed(e)' /\ KeptAt(e)
  <2>1. TasksOf(e)' = TasksOf(e) /\ p \notin ReadiersOf(e)
    BY DEF Steady, TasksOf, ReadiersOf
  <2> QED BY <2>1, CallerEntry DEF Steady
<1> QED BY <1>2, <1>3 DEF Fed, FeedVars, EntryFed, FeedInv

(* A caller that goes on without storing.                                    *)
LEMMA Unconcerned ==
  ASSUME Inv, FeedInv, NEW p \in Callers, Stepped(p), tasks' = tasks, changes' = changes, truth' = truth,
         job[p].pc # "ready", ~Storing(job'[p]), job'[p].pc \notin Told,
         \A e \in Entries :
           ent'[e].id = ent[e].id /\ Like(ent[e], ent'[e])
             /\ (ent'[e].status \in Open => Fetched(ent[e], StorersOf(e)))
  PROVE  Fed
<1>1. AnswersOK(job[p])' /\ \A e : p \notin StorersOf(e)'
  BY DEF AnswersOK, Told, StorersOf
<1> QED BY <1>1, SteadyFeeds DEF Steady

LEMMA SearchFeeds ==
  ASSUME Inv, FeedInv, NEW p \in Callers,
         \/ CallAny(p) \/ FoundEntry(p) \/ ProcessedInline(p) \/ ReadStatus(p) \/ ResetError(p)
         \/ ReadStatusMany(p) \/ Check(p)
  PROVE  Fed
<1>1. Stepped(p)
  BY CallerKeeps DEF CallerStep
<1>2. tasks' = tasks /\ changes' = changes /\ truth' = truth
  BY DEF CallAny, Call, FoundEntry, ProcessedInline, ReadStatus, ResetError, ReadStatusMany, Check, Others
<1>3. PICK j : j = job[p] /\ DOMAIN j = JobFields /\ DOMAIN job = Callers
  BY DEF Inv, CallerOK, VarsOK
<1>4. /\ job[p].pc # "ready"
      /\ job'[p].pc \in {"idle", "entry", "status", "retry", "lock", "check"}
  <2>1. CASE CallAny(p)
    <3>1. PICK ids, many : Call(p, ids, many)
      BY <2>1 DEF CallAny
    <3>2. [NoJob EXCEPT !.pc = "entry", !.ids = ids, !.many = many].pc = "entry"
      BY DEF NoJob
    <3> QED BY <1>3, <3>1, <3>2 DEF Call
  <2>5. CASE Check(p)
    BY <1>3, <2>5 DEF Check, NoJob
  <2>2. CASE FoundEntry(p)
    BY <1>3, <2>2 DEF FoundEntry, JobFields
  <2>3. CASE ProcessedInline(p) \/ ReadStatus(p) \/ ResetError(p)
    BY <1>3, <2>3 DEF ProcessedInline, ReadStatus, ResetError, Goto, JobFields
  <2>4. CASE ReadStatusMany(p)
    <3>1. PICK k : k \in {j, [j EXCEPT !.fetch = Append(@, j.k)]} /\ job' = [job EXCEPT ![p] = AfterPass(k)]
      BY <1>3, <2>4 DEF ReadStatusMany
    <3>2. DOMAIN k = JobFields
      BY <1>3, <3>1
    <3>3. AfterPass(k).pc \in {"idle", "entry", "lock"}
      BY <3>2 DEF AfterPass, NoJob, JobFields
    <3> QED BY <1>3, <2>4, <3>1, <3>3 DEF ReadStatusMany
  <2> QED BY <2>1, <2>2, <2>3, <2>4, <2>5
<1>5. \A e \in Entries : DOMAIN ent[e] = EntryFields
  BY DEF Inv, EntriesOK
<1>6. ASSUME NEW e \in Entries
      PROVE  /\ ent'[e].id = ent[e].id /\ Like(ent[e], ent'[e])
             /\ ent'[e].status = ent[e].status \/ ent[e].status = "error"
  <2>1. CASE CallAny(p) \/ FoundEntry(p) \/ ProcessedInline(p) \/ ReadStatus(p)
    BY <2>1 DEF CallAny, Call, FoundEntry, ProcessedInline, ReadStatus, Like
  <2>2. CASE ResetError(p)
    BY <1>5, <2>2 DEF Inv, EntriesOK, ResetError, Like, EntryFields
  <2>3. CASE ReadStatusMany(p) \/ Check(p)
    BY <1>5, <2>3 DEF Inv, EntriesOK, ReadStatusMany, Check, Like, EntryFields
  <2> QED BY <2>1, <2>2, <2>3
<1>7. \A e \in Entries : ent'[e].status \in Open => Fetched(ent[e], StorersOf(e))
  BY <1>6 DEF Fetched, Open
<1> QED BY <1>1, <1>2, <1>4, <1>6, <1>7, Unconcerned DEF Storing, Told

LEMMA LockFeeds == ASSUME Inv, FeedInv, NEW p \in Callers, Lock(p) PROVE Fed
<1>1. PICK j : j = job[p] /\ VarsOK(j) /\ LocksOK(p, j) /\ j.pc = "lock" /\ DOMAIN job = Callers
  BY DEF Inv, CallerOK, Lock
<1>2. PICK e : e = BatchAt(p) /\ e = j.es[j.fetch[j.k]]
  BY <1>1 DEF BatchAt
<1>3. Stepped(p) /\ tasks' = tasks /\ changes' = changes /\ truth' = truth
  BY LockKeeps DEF Lock, Others
<1>4. CASE ~j.many /\ ~StillPending(e)
  <2>1. ent' = ent /\ job' = [job EXCEPT ![p].pc = "check"]
    BY <1>1, <1>2, <1>4 DEF Lock, Goto
  <2>2. job'[p].pc = "check"
    BY <1>1, <2>1 DEF VarsOK, JobFields
  <2>3. \A x \in Entries : ent'[x].id = ent[x].id /\ Like(ent[x], ent'[x])
                             /\ (ent'[x].status \in Open => Fetched(ent[x], StorersOf(x)))
    BY <2>1 DEF Like, Fetched
  <2> QED BY <1>1, <1>3, <2>2, <2>3, Unconcerned DEF Storing, Told
<1>5. CASE j.many \/ StillPending(e)
  <2>1. ent' = [ent EXCEPT ![e].mu = p]
    BY <1>1, <1>2, <1>5 DEF Lock
  <2>2. PICK n : /\ n = IF j.k < Len(j.fetch) THEN [j EXCEPT !.k = @ + 1] ELSE [j EXCEPT !.k = 1, !.pc = "ask"]
                 /\ job' = [job EXCEPT ![p] = n]
    BY <1>1, <1>2, <1>5 DEF Lock
  <2>3. /\ n.many = j.many /\ n.es = j.es /\ n.fetch = j.fetch
        /\ n.pc = "lock" \/ (n.pc = "ask" /\ n.k = 1)
    BY <1>1, <2>2 DEF VarsOK, JobFields
  <2>4. job'[p] = n
    BY <1>1, <2>2
  <2>5. \A x \in Entries : ent'[x].id = ent[x].id /\ Like(ent[x], ent'[x]) /\ ent'[x].status = ent[x].status
    BY <2>1 DEF Inv, EntriesOK, EntryFields, Like
  <2>6. ASSUME NEW x \in Entries, p \in StorersOf(x)' PROVE Fetched(ent[x], StorersOf(x))
    <3>1. Storing(n) /\ n.es[n.fetch[n.k]] = x
      BY <2>4, <2>6 DEF StorersOf, BatchAt
    <3>2. ~j.many /\ n.k = 1 /\ j.k = 1
      BY <1>1, <2>3, <3>1 DEF Storing, VarsOK
    <3>3. x = e /\ StillPending(e)
      BY <1>2, <1>5, <2>3, <3>1, <3>2
    <3> QED BY <3>3 DEF StillPending, Fetched, Open
  <2>7. AnswersOK(job[p])'
    BY <2>3, <2>4 DEF AnswersOK
  <2>8. \A x \in Entries : ent'[x].status \in Open => Fetched(ent[x], StorersOf(x))
    BY <2>5 DEF Fetched
  <2>9. Steady(p)
    BY <1>1, <1>3, <2>5, <2>6, <2>7, <2>8 DEF Steady
  <2> QED BY <1>3, <2>9, SteadyFeeds
<1> QED BY <1>4, <1>5

LEMMA AskFeeds == ASSUME Inv, FeedInv, NEW p \in Callers, Ask(p) PROVE Fed
<1>1. PICK j : j = job[p] /\ VarsOK(j) /\ LocksOK(p, j) /\ j.pc = "ask" /\ DOMAIN job = Callers
  BY DEF Inv, CallerOK, Ask
<1>2. Stepped(p) /\ tasks' = tasks /\ changes' = changes /\ truth' = truth /\ ent' = ent
  BY AskKeeps DEF Ask, Others
<1>3. PICK n, got : /\ n = [j EXCEPT !.v = @ + 1] \/ n = [j EXCEPT !.pc = "apply", !.got = got]
                    /\ job' = [job EXCEPT ![p] = n]
                    /\ got \in {[id \in Wanted(p) |-> truth[id]], [id \in Wanted(p) |-> Failed]}
  <2>1. PICK told, none : told = [id \in Wanted(p) |-> truth[id]] /\ none = [id \in Wanted(p) |-> Failed]
    OBVIOUS
  <2>2. \/ job' = [job EXCEPT ![p] = [j EXCEPT !.v = @ + 1]]
        \/ job' = [job EXCEPT ![p] = [j EXCEPT !.pc = "apply", !.got = told]]
        \/ job' = [job EXCEPT ![p] = [j EXCEPT !.pc = "apply", !.got = none]]
    BY <1>1, <2>1 DEF Ask
  <2> QED BY <2>1, <2>2
<1>4. /\ n.k = j.k /\ n.many = j.many /\ n.es = j.es /\ n.fetch = j.fetch
      /\ n.pc = "ask" \/ (n.pc = "apply" /\ n.got = got)
  BY <1>1, <1>3 DEF VarsOK, JobFields
<1>5. job'[p] = n
  BY <1>1, <1>3
<1>6. \A x \in Entries : ent'[x].id = ent[x].id /\ Like(ent[x], ent'[x])
                           /\ (ent'[x].status \in Open => Fetched(ent[x], StorersOf(x)))
  BY <1>2 DEF Like, Fetched
<1>7. ASSUME NEW x \in Entries, p \in StorersOf(x)' PROVE Fetched(ent[x], StorersOf(x))
  <2>1. Storing(n) /\ n.es[n.fetch[n.k]] = x
    BY <1>5, <1>7 DEF StorersOf, BatchAt
  <2>2. p \in StorersOf(x)
    BY <1>1, <1>4, <2>1 DEF StorersOf, BatchAt, Storing
  <2> QED BY <2>2 DEF Fetched
<1>8. AnswersOK(job[p])'
  <2>1. ASSUME NEW i \in 1 .. Len(j.fetch), NEW x, x = ent[j.es[j.fetch[i]]].id
        PROVE  got[x] \in UpTo(changes) \cup {Failed}
    <3>1. x \in SharedIds
      <4>1. Allocated(j.es[j.fetch[i]])
        BY <1>1 DEF VarsOK, LocksOK
      <4> QED BY <2>1, <4>1 DEF FeedInv, Allocated
    <3>2. x \in Wanted(p)
      <4>1. j.fetch[i] \in ToSet(j.fetch)
        BY <1>1 DEF VarsOK, ToSet
      <4> QED BY <1>1, <2>1, <4>1 DEF Wanted
    <3>3. truth[x] \in UpTo(changes)
      BY <3>1 DEF FeedInv
    <3> QED BY <1>3, <3>2, <3>3
  <2>2. n.pc = "apply" => \A i \in 1 .. Len(n.fetch) :
          n.got[ent[n.es[n.fetch[i]]].id] \in UpTo(changes) \cup {Failed}
    BY <1>4, <2>1
  <2> QED BY <1>2, <1>4, <1>5, <2>2 DEF AnswersOK, UpTo
<1>9. Steady(p)
  BY <1>1, <1>2, <1>6, <1>7, <1>8 DEF Steady
<1> QED BY <1>2, <1>9, SteadyFeeds

(* What Advance does.                                                        *)
LEMMA AdvanceIs ==
  ASSUME Inv, NEW p \in Callers, job[p].pc \in Told, NEW en, DOMAIN en = Entries, Advance(p, en)
  PROVE  /\ ~Storing(job'[p])
         /\ job'[p].pc \in Told =>
              job'[p].es = job[p].es /\ job'[p].fetch = job[p].fetch /\ job'[p].got = job[p].got
         /\ \A e \in Entries : ent'[e] \in {en[e], [en[e] EXCEPT !.mu = NoCaller]}
<1>1. PICK j : j = job[p] /\ DOMAIN j = JobFields /\ DOMAIN job = Callers
  BY DEF Inv, CallerOK, VarsOK
<1>2. \A e \in Entries : ent'[e] \in {en[e], [en[e] EXCEPT !.mu = NoCaller]}
  <2>1. ent' = en \/ ent' = Unlocked(p, en)
    BY DEF Advance
  <2> QED BY <2>1 DEF Unlocked
<1>3. CASE ~j.many
  <2>1. job'[p].pc = "check"
    BY <1>1, <1>3 DEF Advance, Goto, JobFields
  <2> QED BY <1>2, <2>1 DEF Storing, Told
<1>4. CASE j.many /\ j.k < Len(j.fetch)
  <2>1. PICK n : n = [[j EXCEPT !.k = j.k + 1] EXCEPT !.pc = "apply"] /\ job'[p] = n
    BY <1>1, <1>4 DEF Advance
  <2>2. n.pc = "apply" /\ n.many = j.many /\ n.es = j.es /\ n.fetch = j.fetch /\ n.got = j.got
    BY <1>1, <2>1 DEF JobFields
  <2> QED BY <1>1, <1>2, <1>4, <2>1, <2>2 DEF Storing
<1>5. CASE j.many /\ ~(j.k < Len(j.fetch))
  <2>1. job'[p] = NoJob
    BY <1>1, <1>5 DEF Advance
  <2> QED BY <1>2, <2>1 DEF NoJob, Storing, Told
<1> QED BY <1>3, <1>4, <1>5

(* The answers are kept when it goes on.                                     *)
LEMMA SameAnswers ==
  ASSUME Inv, FeedVars, NEW p \in Callers, Stepped(p), changes' = changes, job[p].pc \in Told,
         job'[p].pc \in Told =>
           job'[p].es = job[p].es /\ job'[p].fetch = job[p].fetch /\ job'[p].got = job[p].got
  PROVE  AnswersOK(job[p])'
<1>1. PICK n : n = job'[p]
  OBVIOUS
<1>2. CASE n.pc \in Told
  <2>1. changes \in Nat /\ changes <= changes' /\ Gentle(p) /\ AnswersOK(job[p])
    BY DEF FeedVars, Stepped
  <2>2. AnswersOK(n)'
    BY <1>1, <1>2, <2>1, AnswersKept DEF Told
  <2> QED BY <1>1, <2>2
<1>3. CASE n.pc \notin Told
  BY <1>1, <1>3 DEF AnswersOK, Told
<1> QED BY <1>2, <1>3

LEMMA AdvanceFeeds ==
  ASSUME Inv, FeedInv, NEW p \in Callers, job[p].pc \in {"apply", "subscribing"}, Stepped(p),
         NEW en, DOMAIN en = Entries, Advance(p, en), tasks' = tasks, changes' = changes, truth' = truth,
         \A e \in Entries :
           /\ DOMAIN en[e] = EntryFields /\ en[e].id = ent[e].id /\ Like(ent[e], en[e])
           /\ en[e].status \in Open => Fetched(ent[e], StorersOf(e))
  PROVE  Fed
<1>1. job[p].pc \in Told /\ job[p].pc # "ready" /\ FeedVars
  BY Feeding DEF Told
<1>2. /\ ~Storing(job'[p])
      /\ job'[p].pc \in Told =>
           job'[p].es = job[p].es /\ job'[p].fetch = job[p].fetch /\ job'[p].got = job[p].got
      /\ \A e \in Entries : ent'[e] \in {en[e], [en[e] EXCEPT !.mu = NoCaller]}
  BY <1>1, AdvanceIs
<1>3. AnswersOK(job[p])'
  BY <1>1, <1>2, SameAnswers
<1>4. \A e \in Entries : p \notin StorersOf(e)'
  BY <1>2 DEF StorersOf
<1>5. ASSUME NEW e \in Entries
      PROVE  /\ ent'[e].id = ent[e].id /\ Like(ent[e], ent'[e])
             /\ ent'[e].status \in Open => Fetched(ent[e], StorersOf(e))
  <2>1. PICK r : r = en[e] /\ DOMAIN r = EntryFields
    OBVIOUS
  <2>2. ent'[e] \in {r, [r EXCEPT !.mu = NoCaller]}
    BY <1>2, <2>1
  <2>3. ent'[e].id = r.id /\ Like(r, ent'[e]) /\ ent'[e].status = r.status
    BY <2>1, <2>2 DEF EntryFields, Like
  <2> QED BY <2>1, <2>3 DEF Like
<1>6. Steady(p)
  BY <1>1, <1>3, <1>4, <1>5 DEF Steady
<1> QED BY <1>6, SteadyFeeds

(* Who stores into an entry has its lock.                                    *)
LEMMA StoresAlone ==
  ASSUME Inv, NEW e, NEW q \in Callers, q \in StorersOf(e) \/ q \in ReadiersOf(e)
  PROVE  ent[e].mu = q /\ Allocated(e)
<1>1. job[q].pc \in Locking /\ BatchAt(q) = e
  BY DEF StorersOf, ReadiersOf, Storing, Locking
<1> QED BY <1>1, AtHand

LEMMA SubscribedFeeds == ASSUME Inv, FeedInv, NEW p \in Callers, SubscribedInline(p) PROVE Fed
<1>1. /\ job[p].pc = "subscribing" /\ Advance(p, ent) /\ Stepped(p)
      /\ tasks' = tasks /\ changes' = changes /\ truth' = truth
  BY SubscribedKeeps DEF SubscribedInline, Others
<1>2. DOMAIN ent = Entries /\ \A e \in Entries :
        /\ DOMAIN ent[e] = EntryFields /\ Like(ent[e], ent[e])
        /\ ent[e].status \in Open => Fetched(ent[e], StorersOf(e))
  BY DEF Inv, EntriesOK, Like, Fetched
<1> QED BY <1>1, <1>2, AdvanceFeeds

LEMMA ApplyFeeds == ASSUME Inv, FeedInv, NEW p \in Callers, Apply(p) PROVE Fed
<1>1. PICK j : j = job[p] /\ VarsOK(j) /\ LocksOK(p, j) /\ j.pc = "apply" /\ DOMAIN job = Callers
  BY DEF Inv, CallerOK, Apply
<1>2. PICK e, got : e = BatchAt(p) /\ got = j.got[ent[e].id]
  OBVIOUS
<1>3. Stepped(p) /\ tasks' = tasks /\ changes' = changes /\ truth' = truth
  BY ApplyKeeps DEF Apply, Others
<1>4. Allocated(e) /\ ent[e].mu = p
  BY <1>1, <1>2, AtHand DEF Locking
<1>5. DOMAIN ent = Entries /\ \A x \in Entries : DOMAIN ent[x] = EntryFields
  BY DEF Inv, EntriesOK
<1>6. CASE j.many /\ ~StillPending(e)
  <2>1. Advance(p, ent)
    BY <1>1, <1>2, <1>6 DEF Apply
  <2>2. \A x \in Entries : Like(ent[x], ent[x]) /\ (ent[x].status \in Open => Fetched(ent[x], StorersOf(x)))
    BY DEF Like, Fetched
  <2> QED BY <1>1, <1>3, <1>5, <2>1, <2>2, AdvanceFeeds
<1>7. ~(j.many /\ ~StillPending(e)) => Fetched(ent[e], StorersOf(e))
  BY <1>1, <1>2 DEF StillPending, Fetched, Open, StorersOf, Storing
<1>8. CASE ~(j.many /\ ~StillPending(e)) /\ got \in {NoData, Failed}
  <2>1. PICK t, en : en = [ent EXCEPT ![e].status = "error", ![e].errorAt = t] /\ Advance(p, en)
    BY <1>1, <1>2, <1>8 DEF Apply
  <2>2. DOMAIN en = Entries /\ \A x \in Entries : x # e => en[x] = ent[x]
    BY <1>5, <2>1
  <2>3. en[e] = [[ent[e] EXCEPT !.status = "error"] EXCEPT !.errorAt = t]
    BY <1>4, <1>5, <2>1 DEF Allocated
  <2>4. DOMAIN en[e] = EntryFields /\ en[e].id = ent[e].id /\ Like(ent[e], en[e])
    BY <1>4, <1>5, <2>3 DEF Like, EntryFields, Allocated
  <2>5. \A x \in Entries : /\ DOMAIN en[x] = EntryFields /\ en[x].id = ent[x].id /\ Like(ent[x], en[x])
                           /\ en[x].status \in Open => Fetched(ent[x], StorersOf(x))
    <3>1. \A x \in Entries : x # e => Like(ent[x], en[x])
                               /\ (en[x].status \in Open => Fetched(ent[x], StorersOf(x)))
      BY <2>2 DEF Like, Fetched
    <3> QED BY <1>5, <1>7, <1>8, <2>2, <2>4, <3>1
  <2>6. DOMAIN en = Entries /\ Advance(p, en) /\ job[p].pc \in {"apply", "subscribing"}
    BY <1>1, <2>1, <2>2
  <2> QED BY <1>3, <2>5, <2>6, AdvanceFeeds
<1>9. CASE ~(j.many /\ ~StillPending(e)) /\ got \notin {NoData, Failed}
  <2>1. ent' = [ent EXCEPT ![e].data = got, ![e].fetched = now] /\ job' = [job EXCEPT ![p].pc = "ready"]
    BY <1>1, <1>2, <1>9 DEF Apply, Goto
  <2>2. PICK n : n = [j EXCEPT !.pc = "ready"] /\ job'[p] = n
    BY <1>1, <2>1
  <2>3. n.pc = "ready" /\ n.es = j.es /\ n.fetch = j.fetch /\ n.got = j.got /\ n.k = j.k
    BY <1>1, <2>2 DEF VarsOK, JobFields
  <2>4. BatchAt(p)' = e
    BY <1>1, <1>2, <2>2, <2>3 DEF BatchAt
  <2>5. PICK r, s : /\ r = ent[e] /\ s = ent'[e] /\ DOMAIN r = EntryFields
                    /\ s = [[r EXCEPT !.data = got] EXCEPT !.fetched = now]
    BY <1>4, <1>5, <2>1 DEF Allocated
  <2>6. /\ s.id = r.id /\ s.live = r.live /\ s.held = r.held /\ s.deletions = r.deletions /\ s.dying = r.dying
        /\ s.queue = r.queue /\ s.data = got
    BY <2>5 DEF EntryFields
  <2>7. \A x \in Entries : x # e => ent'[x] = ent[x]
    BY <1>5, <2>1
  <2>8. FeedVars /\ FeedVars'
    <3>1. FeedVars
      BY Feeding
    <3>2. AnswersOK(job[p])'
      BY <1>1, <1>3, <2>2, <2>3, <3>1, SameAnswers DEF Told
    <3>3. \A x \in Entries : ent'[x].id = ent[x].id
      BY <2>5, <2>6, <2>7
    <3> QED BY <1>3, <3>1, <3>2, <3>3, CallerVars DEF FeedVars
  <2>9. ASSUME NEW x \in Entries, x # e PROVE EntryFed(x)' /\ KeptAt(x)
    <3>1. p \notin ReadiersOf(x) /\ p \notin StorersOf(x)' /\ TasksOf(x)' = TasksOf(x)
      BY <1>1, <1>3, <2>4, <2>9 DEF ReadiersOf, StorersOf, TasksOf
    <3>2. Like(ent[x], ent'[x]) /\ (ent'[x].status \in Open => Fetched(ent[x], StorersOf(x)))
      BY <2>7, <2>9 DEF Like, Fetched
    <3> QED BY <1>3, <3>1, <3>2, CallerEntry
  <2>10. EntryFed(e)' /\ KeptAt(e)
    <3>1. PICK T, F, F2, S2, m : /\ T = TasksOf(e) /\ F = StorersOf(e) /\ F2 = StorersOf(e)' /\ S2 = ReadiersOf(e)'
                                 /\ m = changes /\ m \in Nat
      BY DEF FeedInv
    <3>2. ReadiersOf(e) = {} /\ p \in S2
      <4>1. \A q \in ReadiersOf(e) : q \in Callers /\ job[q].pc = "ready"
        BY DEF ReadiersOf
      <4>2. \A q \in ReadiersOf(e) : ent[e].mu = q
        BY <4>1, StoresAlone
      <4>3. p \notin ReadiersOf(e)
        BY <1>1, <4>1
      <4>4. p \in S2
        BY <2>2, <2>3, <2>4, <3>1 DEF ReadiersOf
      <4> QED BY <1>4, <4>2, <4>3, <4>4
    <3>3. EntryOK(r, T, F, {}, m)
      BY <1>4, <2>5, <3>1, <3>2 DEF FeedInv, Allocated
    <3>4. got \in 0 .. m
      <4>1. AnswersOK(j) /\ j.k \in 1 .. Len(j.fetch) /\ e = j.es[j.fetch[j.k]]
        BY <1>1, <1>2 DEF FeedInv, VarsOK, BatchAt, Locking
      <4>2. got \in UpTo(m) \cup {Failed}
        BY <1>1, <1>2, <3>1, <4>1 DEF AnswersOK
      <4> QED BY <1>9, <4>2 DEF UpTo
    <3>5. Fetched(r, F)
      BY <1>7, <1>9, <2>5, <3>1
    <3>6. EntryOK(s, T, F2, S2, m) /\ (r.deletions = 0 => r.data = NoData)
      BY <2>6, <3>1, <3>2, <3>3, <3>4, <3>5, StoreKeeps
    <3>7. EntryFed(e)'
      BY <1>3, <2>5, <3>1, <3>6 DEF EntryFed, TasksOf
    <3> QED BY <2>5, <3>6, <3>7 DEF KeptAt
  <2> QED BY <2>8, <2>9, <2>10 DEF Fed, FeedVars, EntryFed, FeedInv
<1> QED BY <1>6, <1>8, <1>9

LEMMA SetReadyFeeds == ASSUME Inv, FeedInv, NEW p \in Callers, SetReady(p) PROVE Fed
<1>1. PICK j : j = job[p] /\ VarsOK(j) /\ LocksOK(p, j) /\ j.pc = "ready" /\ DOMAIN job = Callers
  BY DEF Inv, CallerOK, SetReady
<1>2. PICK e, en : e = BatchAt(p) /\ en = [ent EXCEPT ![e].status = "ready"]
  OBVIOUS
<1>3. Stepped(p) /\ changes' = changes /\ truth' = truth
  BY SetReadyKeeps DEF SetReady, Others
<1>4. Allocated(e) /\ ent[e].mu = p /\ e \in Entries
  BY <1>1, <1>2, AtHand DEF Locking, Allocated
<1>5. DOMAIN ent = Entries /\ \A x \in Entries : DOMAIN ent[x] = EntryFields
  BY DEF Inv, EntriesOK
<1>6. PICK k : /\ k.e = e /\ DOMAIN k = {"e", "by", "at"}
               /\ tasks' = tasks \/ tasks' = tasks \cup {k}
  <2>1. PICK by : tasks' = tasks \/ tasks' = tasks \cup {[e |-> e, by |-> by, at |-> "subscribe"]}
    BY <1>2 DEF SetReady
  <2>2. PICK k : k = [e |-> e, by |-> by, at |-> "subscribe"]
    OBVIOUS
  <2>3. k.e = e /\ DOMAIN k = {"e", "by", "at"}
    BY <2>2
  <2> QED BY <2>1, <2>2, <2>3
<1>7. /\ ~Storing(job'[p])
      /\ job'[p].pc \in Told =>
           job'[p].es = job[p].es /\ job'[p].fetch = job[p].fetch /\ job'[p].got = job[p].got
      /\ \A x \in Entries : ent'[x] \in {en[x], [en[x] EXCEPT !.mu = NoCaller]}
  <2>1. CASE ent' = en /\ Goto(p, "subscribing")
    <3>1. PICK n : n = [j EXCEPT !.pc = "subscribing"] /\ job'[p] = n
      BY <1>1, <2>1 DEF Goto
    <3>2. n.pc = "subscribing" /\ n.es = j.es /\ n.fetch = j.fetch /\ n.got = j.got
      BY <1>1, <3>1 DEF VarsOK, JobFields
    <3> QED BY <1>1, <2>1, <3>1, <3>2 DEF Storing
  <2>2. CASE Advance(p, en)
    <3>1. DOMAIN en = Entries /\ job[p].pc \in Told
      BY <1>1, <1>2, <1>5 DEF Told
    <3> QED BY <2>2, <3>1, AdvanceIs
  <2> QED BY <1>2, <2>1, <2>2 DEF SetReady
<1>8. ASSUME NEW x \in Entries
      PROVE  /\ ent'[x].id = ent[x].id /\ Like(ent[x], ent'[x])
             /\ ent'[x].status = IF x = e THEN "ready" ELSE ent[x].status
  <2>1. PICK r, s : r = ent[x] /\ s = en[x] /\ DOMAIN r = EntryFields
    BY <1>5
  <2>2. s = IF x = e THEN [r EXCEPT !.status = "ready"] ELSE r
    BY <1>2, <1>5, <2>1
  <2>3. ent'[x] \in {s, [s EXCEPT !.mu = NoCaller]}
    BY <1>7, <2>1
  <2>4. DOMAIN s = EntryFields /\ s.id = r.id /\ Like(r, s) /\ s.status = IF x = e THEN "ready" ELSE r.status
    BY <2>1, <2>2 DEF EntryFields, Like
  <2>5. ent'[x].id = s.id /\ Like(s, ent'[x]) /\ ent'[x].status = s.status
    BY <2>3, <2>4 DEF EntryFields, Like
  <2> QED BY <2>1, <2>4, <2>5 DEF Like
<1>9. FeedVars /\ FeedVars'
  <2>1. FeedVars
    BY Feeding
  <2>2. AnswersOK(job[p])'
    BY <1>1, <1>3, <1>7, <2>1, SameAnswers DEF Told
  <2>3. \A l \in tasks' : DOMAIN l = {"e", "by", "at"} /\ Allocated(l.e)
    BY <1>4, <1>6, <2>1 DEF FeedVars
  <2> QED BY <1>3, <1>8, <2>1, <2>2, <2>3, CallerVars
<1>10. ASSUME NEW x \in Entries, x # e PROVE EntryFed(x)' /\ KeptAt(x)
  <2>1. p \notin ReadiersOf(x) /\ p \notin StorersOf(x)' /\ TasksOf(x)' = TasksOf(x)
    BY <1>2, <1>6, <1>7, <1>10 DEF ReadiersOf, StorersOf, TasksOf
  <2>2. Like(ent[x], ent'[x]) /\ (ent'[x].status \in Open => Fetched(ent[x], StorersOf(x)))
    BY <1>8, <1>10 DEF Fetched
  <2> QED BY <1>3, <2>1, <2>2, CallerEntry
<1>11. EntryFed(e)' /\ KeptAt(e)
  <2>1. PICK r, s, T, F, S, F2, S2, T2, m :
          /\ r = ent[e] /\ s = ent'[e] /\ T = TasksOf(e) /\ F = StorersOf(e) /\ S = ReadiersOf(e)
          /\ T2 = TasksOf(e)' /\ F2 = StorersOf(e)' /\ S2 = ReadiersOf(e)' /\ m = changes /\ m \in Nat
    BY DEF FeedInv
  <2>2. p \in F /\ Fetched(r, F)
    BY <1>1, <1>2, <2>1 DEF StorersOf, Storing, Fetched
  <2>3. F2 = {}
    <3>1. ASSUME NEW q \in F2 PROVE FALSE
      <4>1. q \in Callers /\ Storing(job'[q])
        BY <2>1, <3>1 DEF StorersOf
      <4>2. q # p
        BY <1>7, <4>1
      <4>3. q \in StorersOf(e)
        BY <1>3, <2>1, <3>1, <4>1, <4>2, OthersStore
      <4> QED BY <1>4, <4>1, <4>2, <4>3, StoresAlone
    <3> QED BY <3>1
  <2>4. ~Fetched(s, F2) /\ Like(r, s)
    BY <1>4, <1>8, <2>1, <2>3 DEF Fetched, Open
  <2>5. WithOneMore(T, T2, k)
    BY <1>6, <2>1 DEF TasksOf, WithOneMore
  <2>6. EntryOK(r, T, F, S, m)
    BY <1>4, <2>1 DEF FeedInv
  <2>7. EntryOK(s, T2, F2, S2, m)
    <3>1. m \in Nat
      BY <2>1
    <3> QED BY <2>2, <2>4, <2>5, <2>6, <3>1, ReadyKeeps
  <2>8. EntryFed(e)'
    BY <1>3, <2>1, <2>7 DEF EntryFed
  <2>9. EntryFed(e)
    BY <2>1, <2>6 DEF EntryFed
  <2> QED BY <1>4, <2>1, <2>4, <2>8, <2>9, SameDataKept DEF Like
<1> QED BY <1>9, <1>10, <1>11 DEF Fed, FeedVars, EntryFed, FeedInv

LEMMA CreateFeeds == ASSUME Inv, FeedInv, NEW p \in Callers, CreateEntry(p) PROVE Fed
<1>1. PICK e, id, new, l : Creates(p, e, id, new, l)
  BY Created
<1>2. Stepped(p) /\ tasks' = tasks /\ changes' = changes /\ truth' = truth /\ job[p].pc = "entry"
  BY CreateEntryKeeps DEF CreateEntry, Others
<1>3. /\ DOMAIN new = EntryFields /\ new.id = id /\ new.status = "pending" /\ new.live = 0 /\ ~new.held
      /\ new.queue = <<>> /\ new.data = NoData /\ new.deletions = 0 /\ ~new.dying
  BY <1>1 DEF Creates, NewEntry, EntryFields
<1>4. e \in Entries /\ ent[e].id = NoId /\ id \in SharedIds /\ l \in {"processing", "status"}
  BY <1>1 DEF Creates
<1>5. ent'[e] = new /\ \A x \in Entries : x # e => ent'[x] = ent[x]
  BY <1>1 DEF Creates, Inv, EntriesOK
<1>6. job'[p].pc = l
  <2>1. DOMAIN job = Callers /\ DOMAIN job[p] = JobFields
    BY DEF Inv, CallerOK, VarsOK
  <2> QED BY <1>1, <2>1 DEF Creates, JobFields
<1>7. p \notin Callers \/ ~Storing(job'[p])
  BY <1>4, <1>6 DEF Storing
<1>8. FeedVars /\ FeedVars'
  <2>1. FeedVars
    BY Feeding
  <2>2. AnswersOK(job[p])'
    BY <1>4, <1>6 DEF AnswersOK
  <2>3. \A x \in Entries : ent'[x].id = ent[x].id \/ ent'[x].id \in SharedIds
    BY <1>3, <1>4, <1>5
  <2> QED BY <1>2, <2>1, <2>2, <2>3, CallerVars DEF FeedVars
<1>9. ASSUME NEW x \in Entries, x # e PROVE EntryFed(x)' /\ KeptAt(x)
  <2>1. p \notin ReadiersOf(x) /\ p \notin StorersOf(x)' /\ TasksOf(x)' = TasksOf(x)
    BY <1>2, <1>7 DEF ReadiersOf, StorersOf, TasksOf
  <2>2. Like(ent[x], ent'[x]) /\ (ent'[x].status \in Open => Fetched(ent[x], StorersOf(x)))
    BY <1>5, <1>9 DEF Like, Fetched
  <2> QED BY <1>2, <2>1, <2>2, CallerEntry
<1>10. EntryFed(e)' /\ KeptAt(e)
  <2>1. TasksOf(e)' = {}
    BY <1>2, <1>4 DEF FeedInv, TasksOf, Allocated
  <2>2. StorersOf(e)' = {}
    <3>1. ASSUME NEW q \in StorersOf(e)' PROVE FALSE
      <4>1. q \in Callers /\ q # p
        BY <1>7, <3>1 DEF StorersOf
      <4>2. q \in StorersOf(e)
        BY <1>2, <3>1, <4>1, OthersStore
      <4> QED BY <1>4, <4>1, <4>2, StoresAlone DEF Allocated
    <3> QED BY <3>1
  <2>3. PICK m : m = changes /\ m \in Nat
    BY DEF FeedInv
  <2>4. EntryOK(new, {}, {}, ReadiersOf(e)', m)
    <3>1. IsFiniteSet({}) /\ Cardinality(Waiting({})) = 0
      BY FS_EmptySet DEF Waiting
    <3>2. Claims(new, {}, {}) = 1
      BY <1>3, <3>1 DEF Claims, Fetched, Open
    <3>3. new.data \in UpTo(m) /\ new.queue \in Seq(UpTo(m)) /\ Sorted(new.data, new.queue)
      BY <1>3 DEF UpTo, Sorted
    <3> QED BY <1>3, <3>1, <3>2, <3>3 DEF EntryOK, Blank
  <2>5. EntryFed(e)'
    BY <1>2, <1>5, <2>1, <2>2, <2>3, <2>4 DEF EntryFed
  <2> QED BY <1>3, <1>5, <2>5 DEF KeptAt
<1> QED BY <1>8, <1>9, <1>10 DEF Fed, FeedVars, EntryFed, FeedInv

-----------------------------------------------------------------------------
(* The theorems.                                                             *)

LEMMA InitFeeds == Init => FeedInv
<1> SUFFICES ASSUME Init PROVE FeedInv
  OBVIOUS
<1>1. PICK r : r = NewEntry(NoId) /\ \A e \in Entries : ent[e] = r
  BY DEF Init
<1>2. /\ r.id = NoId /\ r.status = "pending" /\ r.live = 0 /\ ~r.held /\ r.queue = <<>> /\ r.data = NoData
      /\ r.deletions = 0 /\ ~r.dying
  BY <1>1 DEF NewEntry
<1>3. changes = 0 /\ tasks = {} /\ \A p \in Callers : job[p] = NoJob
  BY DEF Init
<1>4. truth \in [SharedIds -> UpTo(changes)] /\ changes \in Nat
  BY <1>3 DEF Init, UpTo
<1>5. \A p \in Callers : AnswersOK(job[p])
  <2>1. AnswersOK(NoJob)
    BY DEF NoJob, AnswersOK
  <2> QED BY <1>3, <2>1
<1>6. ASSUME NEW e \in Entries PROVE EntryFed(e)
  <2>1. TasksOf(e) = {} /\ StorersOf(e) = {}
    BY <1>3 DEF TasksOf, StorersOf, Storing, NoJob
  <2>2. IsFiniteSet({}) /\ Cardinality(Waiting({})) = 0
    BY FS_EmptySet DEF Waiting
  <2>3. Claims(r, {}, {}) = 1
    BY <1>2, <2>2 DEF Claims, Fetched, Open
  <2>4. r.data \in UpTo(changes) /\ r.queue \in Seq(UpTo(changes)) /\ Sorted(r.data, r.queue)
    BY <1>2 DEF UpTo, Sorted
  <2>5. EntryOK(r, {}, {}, ReadiersOf(e), changes)
    BY <1>2, <2>2, <2>3, <2>4 DEF EntryOK, Blank
  <2> QED BY <1>1, <2>1, <2>5 DEF EntryFed
<1>7. \A e \in Entries : ent[e].id = NoId
  BY <1>1, <1>2
<1> QED BY <1>3, <1>4, <1>5, <1>6, <1>7, Feeding DEF FeedVars

LEMMA NextFeeds ==
  ASSUME Inv, FeedInv, Next PROVE Fed
<1>1. ASSUME NEW p \in Callers, CallAny(p) \/ CallerStep(p) \/ Lock(p) PROVE Fed
  BY <1>1, SearchFeeds, CreateFeeds, AskFeeds, ApplyFeeds, SetReadyFeeds, SubscribedFeeds, LockFeeds
  DEF CallerStep
<1>2. Tick \/ StartCleanup \/ Stop => Fed
  BY TickFeeds
<1>3. (\E k \in tasks : TaskStep(k)) => Fed
  BY TaskFeeds
<1>4. (\E e \in Entries : Updating(e)) => Fed
  BY UpdatingFeeds
<1>5. (\E id \in SharedIds, n \in Versions : Change(id, n)) => Fed
  BY ChangeFeeds
<1>6. (\E c \in {"cleanup", "stop"} : CloserStep(c)) => Fed
  BY CloserFeeds
<1> QED BY <1>1, <1>2, <1>3, <1>4, <1>5, <1>6 DEF Next

LEMMA SameFeeds ==
  ASSUME FeedInv, UNCHANGED vars PROVE Fed
<1>1. FeedVars /\ \A e \in Entries : EntryFed(e)
  BY Feeding
<1>2. ent' = ent /\ job' = job /\ tasks' = tasks /\ changes' = changes /\ truth' = truth
  BY DEF vars
<1>3. FeedVars'
  BY <1>1, <1>2 DEF FeedVars, Allocated, AnswersOK, UpTo
<1>4. \A e \in Entries : EntryFed(e)' /\ KeptAt(e)
  BY <1>1, <1>2, SameCallers, SameDataKept DEF EntryFed, TasksOf, FeedVars
<1> QED BY <1>3, <1>4 DEF Fed, FeedVars, EntryFed, FeedInv

(* Every caller that stores a fetch holds the lock of the entry it stores    *)
(* into, its entries are those getOrCreateEntry gave it, and until an entry  *)
(* was deleted, the fetch, the subscriber or the subscription it may have    *)
(* are one: resolve, resolveMany, subscribeEntry, processUpdates and close   *)
(* keep this in every order of their steps.                                  *)
THEOREM Inductive == Spec => [](Inv /\ FeedInv)
<1>1. Init => Inv /\ FeedInv
  BY InitInv, InitFeeds
<1>2. Inv /\ FeedInv /\ [Next]_vars => (Inv /\ FeedInv)'
  <2>1. Inv /\ [Next]_vars => Inv'
    BY NextInv
  <2>2. Inv /\ FeedInv /\ Next => FeedInv'
    BY NextFeeds DEF Fed
  <2>3. FeedInv /\ UNCHANGED vars => FeedInv'
    BY SameFeeds DEF Fed
  <2> QED BY <2>1, <2>2, <2>3
<1> QED BY <1>1, <1>2, PTL DEF Spec

(* An entry of the shared cache has at most one subscription more than it    *)
(* had deletions, whoever resolves, subscribes, cleans up or stops at the    *)
(* same time: subscribeEntry stores over a subscription only after a nil     *)
(* update.                                                                   *)
THEOREM SubscribedOnce == Spec => []OneSubscription
<1>1. FeedInv => OneSubscription
  <2>1. SUFFICES ASSUME FeedInv, NEW e \in Entries PROVE ent[e].live <= 1 + ent[e].deletions
    BY DEF OneSubscription
  <2>2. EntryOK(ent[e], TasksOf(e), StorersOf(e), ReadiersOf(e), changes)
    BY <2>1 DEF FeedInv
  <2>3. PICK r, T, F : r = ent[e] /\ T = TasksOf(e) /\ F = StorersOf(e)
    OBVIOUS
  <2>4. /\ r.live \in Int /\ r.deletions \in Nat /\ IsFiniteSet(T) /\ Claims(r, T, F) <= r.deletions + 1
    BY <2>2, <2>3 DEF EntryOK
  <2>5. Cardinality(Waiting(T)) \in Nat
    BY <2>4, WaitingCounts
  <2>6. r.live <= Claims(r, T, F) /\ Claims(r, T, F) \in Int
    BY <2>4, <2>5 DEF Claims
  <2> QED BY <2>3, <2>4, <2>6
<1> QED BY <1>1, Inductive, PTL

(* What resolve gives is not taken back: an entry that is ready leaves that  *)
(* status by close or by a nil update only, and before the first deletion    *)
(* its data never becomes older, with a fetch, an update and a second fetch  *)
(* under way at the same time.                                               *)
THEOREM DataIsKept == Spec => DataKept
<1>1. ASSUME Inv, FeedInv, [Next]_vars, NEW e \in Entries
      PROVE  /\ ent[e].status = "ready" => ent'[e].status \in {"ready", "closing"} \/ ent[e].dying
             /\ ent[e].deletions = 0 /\ ent[e].data # NoData /\ ent'[e].data # NoData
                  => ent'[e].data >= ent[e].data
  <2>1. CASE Next
    <3>1. KeptAt(e)
      BY <1>1, <2>1, NextFeeds DEF Fed
    <3>2. PICK p : Gentle(p)
      BY <1>1, <2>1, StepsAreGentle DEF Stepped
    <3> QED BY <3>1, <3>2 DEF KeptAt, Gentle
  <2>2. CASE UNCHANGED vars
    <3>1. KeptAt(e)
      BY <1>1, <2>2, SameFeeds DEF Fed
    <3> QED BY <2>2, <3>1 DEF KeptAt, vars
  <2> QED BY <1>1, <2>1, <2>2
<1>2. Inv /\ FeedInv /\ [Next]_vars =>
        [\A e \in Entries :
           /\ ent[e].status = "ready" => ent'[e].status \in {"ready", "closing"} \/ ent[e].dying
           /\ ent[e].deletions = 0 /\ ent[e].data # NoData /\ ent'[e].data # NoData
                => ent'[e].data >= ent[e].data]_vars
  BY <1>1
<1> QED BY <1>2, Inductive, PTL DEF DataKept, Spec

=============================================================================
