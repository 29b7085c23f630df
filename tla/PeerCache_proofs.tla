-------------------------- MODULE PeerCache_proofs ---------------------------
(****************************************************************************)
(* Proofs about PeerCache for any players, callers, providers and entries:  *)
(* an entry that is ready stays so until it is closed, its channel is       *)
(* closed once, and no update is overwritten by data fetched before it.     *)
(* The first rests on the lock of an entry: only its holder stores a fetch, *)
(* and who holds it has seen that the entry is pending. The second rests on *)
(* the map: a channel is open while the entry is in it. The third rests on  *)
(* the order of a fetch: its entry is blank, without data, channel content  *)
(* or subscription, until what was fetched is stored.                       *)
(****************************************************************************)
EXTENDS PeerCache, SequenceTheorems, TLAPS

EntryFields == {"player", "status", "mu", "accessed", "fetched", "errorAt", "data", "live",
                "listed", "queue", "closes", "proc"}
JobFields   == {"pc", "type", "ids", "many", "es", "fetch", "k", "v", "any", "got"}

(* Entries not yet allocated are neither locked nor ready.                   *)
EntriesOK ==
  /\ DOMAIN ent = Entries
  /\ \A e \in Entries :
       /\ DOMAIN ent[e] = EntryFields
       /\ ent[e].status \in Statuses /\ ent[e].mu \in Callers \cup {NoCaller}
       /\ ent[e].player = NoPlayer => ent[e].mu = NoCaller /\ ent[e].status # "ready"

Allocated(e) == e \in Entries /\ ent[e].player # NoPlayer

MapOK ==
  /\ DOMAIN entryOf = Players
  /\ \A pl \in Players : entryOf[pl] # NoEntry => Allocated(entryOf[pl])

(* The local variables of a caller.                                          *)
VarsOK(j) ==
  /\ DOMAIN j = JobFields
  /\ j.ids \in Seq(Players) /\ j.es \in Seq(Entries) /\ j.fetch \in Seq(Nat) /\ j.k \in Nat
  /\ \A i \in 1 .. Len(j.fetch) : j.fetch[i] \in 1 .. Len(j.es)
  /\ j.pc = "entry" => j.k \in 1 .. Len(j.ids) /\ Len(j.es) = j.k - 1
  /\ j.pc \in {"processing", "status", "retry", "lock", "fetch", "check"} =>
       j.k \in 1 .. Len(j.ids) /\ Len(j.es) = j.k
  /\ j.pc \in {"lockAll", "batch", "apply", "settle", "subscribing"} => j.k \in 1 .. Len(j.fetch)

(* Its entries are allocated, and the locks it has taken are its own. Whoever*)
(* fetches one entry, or has stored an answer for it, has its lock, and it   *)
(* is not ready.                                                             *)
LocksOK(p, j) ==
  /\ \A i \in 1 .. Len(j.es) : Allocated(j.es[i])
  /\ j.pc = "fetch" => ent[j.es[j.k]].mu = p /\ ent[j.es[j.k]].status # "ready"
  /\ j.pc = "lockAll" => \A i \in 1 .. Len(j.fetch) : i < j.k => ent[j.es[j.fetch[i]]].mu = p
  /\ j.pc \in {"batch", "apply", "settle", "subscribing"} =>
       \A i \in 1 .. Len(j.fetch) : ent[j.es[j.fetch[i]]].mu = p
  /\ j.pc = "settle" => ent[j.es[j.fetch[j.k]]].status # "ready"

CallerOK(p) == VarsOK(job[p]) /\ LocksOK(p, job[p])

Inv ==
  /\ EntriesOK /\ MapOK
  /\ DOMAIN job = Callers /\ \A p \in Callers : CallerOK(p)

-----------------------------------------------------------------------------
(* What a step of p may do to the entries: it takes and releases locks of    *)
(* its own, and makes ready only what it has locked.                         *)
Gentle(p) ==
  /\ DOMAIN ent' = Entries
  /\ \A e \in Entries :
       /\ DOMAIN ent'[e] = EntryFields
       /\ ent'[e].status \in Statuses /\ ent'[e].mu \in Callers \cup {NoCaller}
       /\ ent[e].player # NoPlayer => ent'[e].player = ent[e].player
       /\ \/ ent'[e].mu = ent[e].mu
          \/ {ent[e].mu, ent'[e].mu} = {p, NoCaller} /\ ent[e].player # NoPlayer
       /\ \/ ent'[e].status = ent[e].status
          \/ ent'[e].status # "ready"
          \/ ent[e].mu = p /\ ent[e].player # NoPlayer
       /\ ent[e].status = "ready" => ent'[e].status \in {"ready", "closing"}

(* A step that touches neither owner nor status nor lock of an entry.        *)
Calm ==
  /\ DOMAIN ent' = Entries
  /\ \A e \in Entries :
       /\ DOMAIN ent'[e] = EntryFields
       /\ ent'[e].status = ent[e].status /\ ent'[e].mu = ent[e].mu
       /\ ent'[e].player = ent[e].player

LEMMA CalmIsGentle == ASSUME EntriesOK, Calm, NEW p PROVE Gentle(p)
  BY DEF EntriesOK, Calm, Gentle

(* One step of p leaves the entries and all other callers in order.          *)
LEMMA GentleKeeps ==
  ASSUME Inv, NEW p \in Callers \cup {NoCaller}, Gentle(p), MapOK',
         DOMAIN job' = Callers, \A q \in Callers : q # p => job'[q] = job[q],
         p \in Callers => CallerOK(p)'
  PROVE  Inv'
<1>1. EntriesOK'
  BY NamesAssumption DEF Inv, EntriesOK, Gentle
<1>2. ASSUME NEW q \in Callers, q # p PROVE CallerOK(q)'
  <2>1. PICK j : job[q] = j /\ job'[q] = j /\ VarsOK(j) /\ LocksOK(q, j)
    BY <1>2 DEF Inv, CallerOK
  <2>2. \A e \in Entries : ent[e].mu = q =>
          ent'[e].mu = q /\ (ent'[e].status = "ready" => ent[e].status = "ready")
    BY <1>2, NamesAssumption DEF Gentle
  <2>3. \A e : Allocated(e) => Allocated(e)'
    BY DEF Allocated, Gentle
  <2>4. \A i \in 1 .. Len(j.fetch) : j.fetch[i] \in 1 .. Len(j.es)
    BY <2>1 DEF VarsOK
  <2>5. \A i \in 1 .. Len(j.es) : j.es[i] \in Entries
    BY <2>1 DEF LocksOK, Allocated
  <2>6. j.pc = "fetch" => j.k \in 1 .. Len(j.es)
    BY <2>1 DEF VarsOK
  <2>7. j.pc = "settle" => j.fetch[j.k] \in 1 .. Len(j.es)
    BY <2>1, <2>4 DEF VarsOK
  <2>8. LocksOK(q, j)'
    <3>1. j.pc = "settle" => ent'[j.es[j.fetch[j.k]]].status # "ready"
      <4>1. j.pc = "settle" => /\ j.es[j.fetch[j.k]] \in Entries /\ ent[j.es[j.fetch[j.k]]].mu = q
                              /\ ent[j.es[j.fetch[j.k]]].status # "ready"
        BY <2>1, <2>5, <2>7 DEF LocksOK, VarsOK
      <4> QED BY <2>2, <4>1
    <3> QED BY <2>1, <2>2, <2>3, <2>4, <2>5, <2>6, <3>1 DEF LocksOK
  <2> QED BY <2>1, <2>8 DEF CallerOK
<1> QED BY <1>1, <1>2 DEF Inv

-----------------------------------------------------------------------------
(* Steps of a caller.                                                        *)

(* A caller's step in short: what has to be shown of it.                     *)
Stepped(p) ==
  /\ Gentle(p) /\ MapOK'
  /\ DOMAIN job' = Callers /\ (\A q \in Callers : q # p => job'[q] = job[q])
  /\ p \in Callers => CallerOK(p)'

LEMMA SteppedKeeps ==
  ASSUME Inv, NEW p \in Callers \cup {NoCaller}, Stepped(p) PROVE Inv'
  BY GentleKeeps DEF Stepped

(* The map stays in order when no entry is taken back.                       *)
LEMMA SameMap ==
  ASSUME Inv, NEW p, Gentle(p), entryOf' = entryOf PROVE MapOK'
  BY DEF Inv, MapOK, Allocated, Gentle

(* What a caller's step needs, for the local variables j and n before and    *)
(* after it.                                                                 *)
LEMMA CallerSteps ==
  ASSUME Inv, NEW p \in Callers, Gentle(p), entryOf' = entryOf \/ MapOK', NEW n,
         job' = [job EXCEPT ![p] = n], VarsOK(n), LocksOK(p, n)'
  PROVE  Stepped(p)
<1>1. MapOK'
  BY SameMap
<1>2. DOMAIN job' = Callers /\ job'[p] = n /\ \A q \in Callers : q # p => job'[q] = job[q]
  BY DEF Inv
<1> QED BY <1>1, <1>2 DEF Stepped, CallerOK

LEMMA CallKeeps ==
  ASSUME Inv, NEW p \in Callers, CallAny(p) PROVE Stepped(p)
<1>0. \A pl \in Ones[p] : <<pl>> \in Seq(Players) /\ <<pl>> # <<>>
  BY AskAssumption
<1>1. PICK ids, many, t : Call(p, ids, many, t) /\ ids \in Seq(Players) /\ ids # <<>>
  BY <1>0, AskAssumption DEF CallAny
<1>2. Gentle(p)
  BY <1>1, CalmIsGentle DEF Inv, Call, cacheVars, Calm, EntriesOK
<1>3. PICK n : /\ n = [NoJob EXCEPT !.pc = "entry", !.type = t, !.ids = ids, !.many = many]
               /\ job' = [job EXCEPT ![p] = n]
  BY <1>1 DEF Call
<1>4. VarsOK(n) /\ LocksOK(p, n)'
  BY <1>1, <1>3 DEF NoJob, VarsOK, LocksOK, JobFields
<1> QED BY <1>1, <1>2, <1>3, <1>4, CallerSteps DEF Call, cacheVars

LEMMA FoundEntryKeeps ==
  ASSUME Inv, NEW p \in Callers, FoundEntry(p) PROVE Stepped(p)
<1>1. Gentle(p)
  BY CalmIsGentle DEF Inv, FoundEntry, cacheVars, Calm, EntriesOK
<1>2. PICK j : j = job[p] /\ VarsOK(j) /\ LocksOK(p, j)
  BY DEF Inv, CallerOK
<1> DEFINE e == entryOf[j.ids[j.k]]
<1>3. Allocated(e) /\ j.pc = "entry"
  BY <1>2 DEF Inv, MapOK, FoundEntry, VarsOK
<1>4. PICK n : n = [j EXCEPT !.es = Append(@, e), !.pc = "status"] /\ job' = [job EXCEPT ![p] = n]
  BY <1>2 DEF FoundEntry
<1> HIDE DEF e
<1>5. VarsOK(n)
  BY <1>2, <1>3, <1>4 DEF VarsOK, JobFields, Allocated
<1>6. LocksOK(p, n)'
  <2>1. n.pc = "status" /\ n.es = Append(j.es, e) /\ j.es \in Seq(Entries)
    BY <1>2, <1>4 DEF VarsOK, JobFields
  <2>2. \A i \in 1 .. Len(n.es) : Allocated(n.es[i])
    BY <1>2, <1>3, <2>1 DEF LocksOK, Allocated
  <2>3. ent' = ent
    BY DEF FoundEntry, cacheVars
  <2> QED BY <2>1, <2>2, <2>3 DEF LocksOK, Allocated
<1> QED BY <1>1, <1>4, <1>5, <1>6, CallerSteps DEF FoundEntry, cacheVars

(* A step that takes a caller on with the entry it has.                      *)
LEMMA GotoKeeps ==
  ASSUME Inv, NEW p \in Callers, Gentle(p), entryOf' = entryOf,
         job[p].pc \in {"processing", "status", "retry", "lock", "fetch"},
         NEW l \in {"status", "retry", "lock", "check"}, Goto(p, l)
  PROVE  Stepped(p)
<1>1. PICK j : j = job[p] /\ VarsOK(j) /\ LocksOK(p, j)
  BY DEF Inv, CallerOK
<1>2. PICK n : n = [j EXCEPT !.pc = l] /\ job' = [job EXCEPT ![p] = n]
  BY <1>1 DEF Goto
<1>3. VarsOK(n)
  BY <1>1, <1>2 DEF VarsOK, JobFields
<1>3a. n.es = j.es /\ n.pc = l
  BY <1>1, <1>2 DEF VarsOK, JobFields
<1>3b. \A e : Allocated(e) => Allocated(e)'
  BY DEF Allocated, Gentle
<1>4. LocksOK(p, n)'
  BY <1>1, <1>3a, <1>3b DEF LocksOK
<1> QED BY <1>2, <1>3, <1>4, CallerSteps

(* A call that returns.                                                      *)
LEMMA ReturnKeeps ==
  ASSUME Inv, NEW p \in Callers, Gentle(p), entryOf' = entryOf,
         job' = [job EXCEPT ![p] = NoJob]
  PROVE  Stepped(p)
<1>1. PICK n : n = NoJob
  OBVIOUS
<1>2. VarsOK(n) /\ LocksOK(p, n)'
  BY <1>1 DEF NoJob, VarsOK, LocksOK, JobFields
<1> QED BY <1>1, <1>2, CallerSteps

(* The entry a caller is at.                                                 *)
LEMMA AtAllocated ==
  ASSUME Inv, NEW p \in Callers,
         job[p].pc \in {"processing", "status", "retry", "lock", "fetch", "check"}
  PROVE  Allocated(At(p))
<1>1. PICK j : j = job[p] /\ VarsOK(j) /\ \A i \in 1 .. Len(j.es) : Allocated(j.es[i])
  BY DEF Inv, CallerOK, LocksOK
<1>2. j.k \in 1 .. Len(j.es)
  BY <1>1 DEF VarsOK
<1> QED BY <1>1, <1>2 DEF At

LEMMA ReadStatusKeeps ==
  ASSUME Inv, NEW p \in Callers, ReadStatus(p) \/ ProcessedInline(p) PROVE Stepped(p)
<1>1. Gentle(p)
  BY CalmIsGentle DEF Inv, ReadStatus, ProcessedInline, cacheVars, Calm, EntriesOK
<1> QED BY <1>1, GotoKeeps DEF ReadStatus, ProcessedInline, cacheVars

LEMMA ResetErrorKeeps ==
  ASSUME Inv, NEW p \in Callers, ResetError(p) PROVE Stepped(p)
<1>1. Gentle(p)
  BY DEF Inv, ResetError, EntriesOK, Gentle, EntryFields, Statuses
<1> QED BY <1>1, GotoKeeps DEF ResetError

LEMMA CheckKeeps ==
  ASSUME Inv, NEW p \in Callers, Check(p) PROVE Stepped(p)
<1>1. Calm
  BY DEF Inv, Check, EntriesOK, Calm, EntryFields
<1> QED BY <1>1, CalmIsGentle, ReturnKeeps DEF Check, Inv

LEMMA LockKeeps ==
  ASSUME Inv, NEW p \in Callers, Lock(p) PROVE Stepped(p)
<1> DEFINE e == At(p)
           fetches == StillPending(e) /\ ToSet(ProvidersOf[job[p].type]) # {}
<1>1. Allocated(e) /\ ent[e].mu = NoCaller
  BY AtAllocated DEF Lock
<1>2. CASE ~fetches
  <2>0. \/ ent' = ent
        \/ ent[e].status = "pending" /\ ent' = [ent EXCEPT ![e].status = "error", ![e].errorAt = now]
    BY <1>2 DEF Lock, StillPending
  <2>1. Gentle(p)
    BY <1>1, <2>0 DEF Inv, EntriesOK, Gentle, EntryFields, Statuses, Allocated
  <2>2. job[p].pc = "lock" /\ Goto(p, "check") /\ entryOf' = entryOf
    BY <1>2 DEF Lock
  <2> QED BY <2>1, <2>2, GotoKeeps
<1>3. CASE fetches
  <2>1. ent' = [ent EXCEPT ![e].mu = p] /\ ent[e].status = "pending"
    BY <1>3 DEF Lock, StillPending
  <2>2. Gentle(p)
    BY <1>1, <2>1 DEF Inv, EntriesOK, Gentle, EntryFields, Statuses, Allocated
  <2>3. PICK j : j = job[p] /\ VarsOK(j) /\ LocksOK(p, j) /\ j.pc = "lock"
    BY DEF Inv, CallerOK, Lock
  <2>4. PICK n : n = [j EXCEPT !.pc = "fetch", !.any = FALSE] /\ job' = [job EXCEPT ![p] = n]
    <3>1. job' = [job EXCEPT ![p] = [job[p] EXCEPT !.pc = "fetch", !.any = FALSE]]
      <4>1. job' = [job EXCEPT ![p].pc = "fetch", ![p].any = FALSE]
        BY <1>3 DEF Lock
      <4>2. DOMAIN job = Callers
        BY DEF Inv
      <4> QED BY <4>1, <4>2
    <3> QED BY <2>3, <3>1
  <2>5. VarsOK(n)
    BY <2>3, <2>4 DEF VarsOK, JobFields
  <2>6. n.es[n.k] = e /\ ent'[e].mu = p /\ ent'[e].status # "ready"
    BY <1>1, <2>1, <2>3, <2>4 DEF At, Inv, EntriesOK, EntryFields, Allocated, VarsOK, JobFields
  <2>7. LocksOK(p, n)'
    BY <2>2, <2>3, <2>4, <2>6 DEF VarsOK, LocksOK, JobFields, Allocated, Gentle
  <2> QED BY <2>2, <2>4, <2>5, <2>7, CallerSteps DEF Lock
<1> QED BY <1>2, <1>3

LEMMA FetchDoneKeeps ==
  ASSUME Inv, NEW p \in Callers, FetchDone(p) PROVE Stepped(p)
<1>1. Allocated(At(p)) /\ ent[At(p)].mu = p /\ ent[At(p)].status # "ready"
  BY AtAllocated DEF FetchDone, Inv, CallerOK, LocksOK, At
<1>2. Gentle(p)
  BY <1>1 DEF FetchDone, HolderAfter, Inv, EntriesOK, Gentle, EntryFields, Statuses, Allocated
<1> QED BY <1>2, GotoKeeps DEF FetchDone

LEMMA Appended ==
  ASSUME NEW S, NEW s \in Seq(S), NEW x \in S, NEW t, t = Append(s, x)
  PROVE  \A i \in 1 .. Len(t) : (i \in 1 .. Len(s) /\ t[i] = s[i]) \/ t[i] = x
<1>1. PICK m : /\ m = Len(s) /\ m \in Nat /\ Len(t) = m + 1
               /\ \A i \in 1 .. m : t[i] = s[i]
               /\ t[m + 1] = x
  BY AppendProperties, LenProperties
<1> TAKE i \in 1 .. Len(t)
<1>2. i \in 1 .. m \/ i = m + 1
  BY <1>1
<1> QED BY <1>1, <1>2, Zenon

LEMMA CreateEntryKeeps ==
  ASSUME Inv, NEW p \in Callers, NEW e \in Entries, CreateEntry(p, e) PROVE Stepped(p)
<1>1. PICK j : j = job[p] /\ VarsOK(j) /\ LocksOK(p, j) /\ j.pc = "entry"
  BY DEF Inv, CallerOK, CreateEntry
<1>2. PICK pl : pl = j.ids[j.k] /\ pl \in Players
  BY <1>1 DEF VarsOK
<1>3. PICK new : /\ ent' = [ent EXCEPT ![e] = new] /\ DOMAIN new = EntryFields
                 /\ new.player = pl /\ new.status = "pending" /\ new.mu = NoCaller
  <2>1. PICK proc : ent' = [ent EXCEPT ![e] = [NewEntry(pl) EXCEPT !.proc = proc]]
    BY <1>1, <1>2 DEF CreateEntry
  <2>2. PICK new : new = [NewEntry(pl) EXCEPT !.proc = proc]
    OBVIOUS
  <2>3. /\ DOMAIN new = EntryFields
        /\ new.player = pl /\ new.status = "pending" /\ new.mu = NoCaller
    BY <2>2 DEF NewEntry, EntryFields
  <2> QED BY <2>1, <2>2, <2>3
<1>4. ent[e].player = NoPlayer /\ entryOf' = [entryOf EXCEPT ![pl] = e]
  BY <1>1, <1>2 DEF CreateEntry, Free
<1>5. Gentle(p) /\ Allocated(e)'
  BY <1>2, <1>3, <1>4, NamesAssumption DEF Inv, EntriesOK, Gentle, Statuses, Allocated
<1>6. MapOK'
  BY <1>4, <1>5 DEF Inv, MapOK, Gentle, Allocated
<1>7. PICK l \in {"processing", "status"} :
        job' = [job EXCEPT ![p].es = Append(@, e), ![p].pc = l]
  BY DEF CreateEntry
<1>8. PICK n : n = [j EXCEPT !.es = Append(@, e), !.pc = l] /\ job' = [job EXCEPT ![p] = n]
  <2>1. DOMAIN job = Callers
    BY DEF Inv
  <2>2. job' = [job EXCEPT ![p] = [job[p] EXCEPT !.es = Append(@, e), !.pc = l]]
    BY <1>7, <2>1
  <2> QED BY <1>1, <2>2
<1>9. n.es = Append(j.es, e) /\ n.pc = l
  BY <1>1, <1>8 DEF VarsOK, JobFields
<1>10. VarsOK(n)
  <2>1. DOMAIN n = JobFields /\ n.ids = j.ids /\ n.fetch = j.fetch /\ n.k = j.k
    BY <1>1, <1>8 DEF VarsOK, JobFields
  <2>2. n.es \in Seq(Entries) /\ Len(n.es) = Len(j.es) + 1
    BY <1>1, <1>9 DEF VarsOK
  <2>3. j.k \in 1 .. Len(j.ids) /\ Len(n.es) = j.k /\ Len(j.es) \in Nat
    <3>1. j.k \in 1 .. Len(j.ids) /\ Len(j.es) = j.k - 1 /\ j.k \in Nat /\ j.es \in Seq(Entries)
      BY <1>1 DEF VarsOK
    <3> QED BY <2>2, <3>1
  <2>4. \A i \in 1 .. Len(n.fetch) : n.fetch[i] \in 1 .. Len(n.es)
    <3>1. \A i \in 1 .. Len(j.fetch) : j.fetch[i] \in 1 .. Len(j.es)
      BY <1>1 DEF VarsOK
    <3> QED BY <2>1, <2>2, <2>3, <3>1
  <2>5. n.ids \in Seq(Players) /\ n.fetch \in Seq(Nat) /\ n.k \in Nat
    BY <1>1, <2>1 DEF VarsOK
  <2> QED BY <1>9, <2>1, <2>2, <2>3, <2>4, <2>5 DEF VarsOK
<1>11. \A i \in 1 .. Len(n.es) : (i \in 1 .. Len(j.es) /\ n.es[i] = j.es[i]) \/ n.es[i] = e
  <2>1. j.es \in Seq(Entries)
    BY <1>1 DEF VarsOK
  <2>2. PICK a, t : a = j.es /\ t = n.es /\ a \in Seq(Entries) /\ t = Append(a, e)
    BY <1>9, <2>1
  <2>3. \A i \in 1 .. Len(t) : (i \in 1 .. Len(a) /\ t[i] = a[i]) \/ t[i] = e
    BY <2>2, Appended
  <2>4. t = n.es /\ a = j.es
    BY <2>2
  <2> QED BY <2>3, <2>4
<1>12. \A x : Allocated(x) => Allocated(x)'
  BY <1>5 DEF Allocated, Gentle
<1>13. LocksOK(p, n)'
  BY <1>1, <1>5, <1>9, <1>11, <1>12 DEF LocksOK
<1> QED BY <1>5, <1>6, <1>8, <1>10, <1>13, CallerSteps

(* The rest of resolveMany.                                                  *)
LEMMA ReadStatusManyKeeps ==
  ASSUME Inv, NEW p \in Callers, ReadStatusMany(p) PROVE Stepped(p)
<1>1. Calm
  BY DEF Inv, ReadStatusMany, EntriesOK, Calm, EntryFields
<1>2. PICK j : j = job[p] /\ VarsOK(j) /\ LocksOK(p, j) /\ j.pc = "status"
  BY DEF Inv, CallerOK, ReadStatusMany
<1>3. PICK k : /\ k = IF ent[At(p)].status = "pending" THEN [j EXCEPT !.fetch = Append(@, j.k)] ELSE j
               /\ job' = [job EXCEPT ![p] = AfterPass(k)]
  BY <1>2 DEF ReadStatusMany
<1>4. VarsOK(k) /\ k.pc = "status" /\ k.es = j.es
  <2>1. CASE k = j
    BY <1>2, <2>1
  <2>2. CASE k = [j EXCEPT !.fetch = Append(@, j.k)]
    <3>1. /\ DOMAIN k = JobFields /\ k.fetch = Append(j.fetch, j.k)
          /\ k.pc = j.pc /\ k.ids = j.ids /\ k.es = j.es /\ k.k = j.k
      BY <1>2, <2>2 DEF VarsOK, JobFields
    <3>2. j.k \in 1 .. Len(j.es) /\ \A i \in 1 .. Len(j.fetch) : j.fetch[i] \in 1 .. Len(j.es)
      BY <1>2 DEF VarsOK
    <3>3. k.fetch \in Seq(Nat) /\ \A i \in 1 .. Len(k.fetch) : k.fetch[i] \in 1 .. Len(k.es)
      BY <1>2, <3>1, <3>2 DEF VarsOK
    <3> QED BY <1>2, <3>1, <3>3 DEF VarsOK
  <2> QED BY <1>3, <2>1, <2>2
<1>5. \A i \in 1 .. Len(k.es) : Allocated(k.es[i])'
  BY <1>1, <1>2, <1>4 DEF LocksOK, Allocated, Calm
<1>6. CASE AfterPass(k) = NoJob
  BY <1>1, <1>3, <1>6, CalmIsGentle, ReturnKeeps DEF ReadStatusMany, Inv
<1>7. CASE k.k < Len(k.ids) /\ AfterPass(k) = [k EXCEPT !.k = @ + 1, !.pc = "entry"]
  <2>1. PICK n : n = AfterPass(k)
    OBVIOUS
  <2>2. /\ DOMAIN n = JobFields /\ n.fetch = k.fetch /\ n.pc = "entry" /\ n.ids = k.ids
        /\ n.es = k.es /\ n.k = k.k + 1
    BY <1>4, <1>7, <2>1 DEF VarsOK, JobFields
  <2>3. VarsOK(n)
    BY <1>4, <1>7, <2>2 DEF VarsOK
  <2>4. LocksOK(p, n)'
    BY <1>5, <2>2 DEF LocksOK
  <2> QED BY <1>1, <1>3, <2>1, <2>3, <2>4, CalmIsGentle, CallerSteps DEF ReadStatusMany, Inv
<1>8. CASE k.fetch # <<>> /\ AfterPass(k) = [k EXCEPT !.k = 1, !.pc = "lockAll"]
  <2>1. PICK n : n = AfterPass(k)
    OBVIOUS
  <2>2. /\ DOMAIN n = JobFields /\ n.fetch = k.fetch /\ n.pc = "lockAll" /\ n.ids = k.ids
        /\ n.es = k.es /\ n.k = 1
    BY <1>4, <1>8, <2>1 DEF VarsOK, JobFields
  <2>3. VarsOK(n)
    BY <1>4, <1>8, <2>2 DEF VarsOK
  <2>4. \A i \in 1 .. Len(n.fetch) : ~(i < n.k)
    BY <2>2
  <2>5. LocksOK(p, n)'
    BY <1>5, <2>2, <2>4 DEF LocksOK
  <2> QED BY <1>1, <1>3, <2>1, <2>3, <2>5, CalmIsGentle, CallerSteps DEF ReadStatusMany, Inv
<1> QED BY <1>6, <1>7, <1>8 DEF AfterPass

(* Releasing its locks, whatever else became of the entry it holds.          *)
LEMMA UnlockedGentle ==
  ASSUME Inv, NEW p \in Callers, NEW en, DOMAIN en = Entries,
         \A e \in Entries :
           /\ DOMAIN en[e] = EntryFields /\ en[e].mu = ent[e].mu /\ en[e].player = ent[e].player
           /\ en[e].status \in Statuses
           /\ en[e].status = ent[e].status \/ (ent[e].status # "ready" /\ ent[e].mu = p),
         ent' = en \/ ent' = Unlocked(p, en)
  PROVE  Gentle(p)
<1>1. CASE ent' = en
  BY <1>1, NamesAssumption DEF Inv, EntriesOK, Gentle
<1>2. CASE ent' = Unlocked(p, en)
  <2>1. DOMAIN ent' = Entries
    BY <1>2 DEF Unlocked
  <2>2. ASSUME NEW e \in Entries
        PROVE  /\ DOMAIN ent'[e] = EntryFields /\ ent'[e].status = en[e].status
               /\ ent'[e].player = en[e].player
               /\ ent'[e].mu = IF en[e].mu = p THEN NoCaller ELSE en[e].mu
    <3>1. ent'[e] = IF en[e].mu = p THEN [en[e] EXCEPT !.mu = NoCaller] ELSE en[e]
      BY <1>2 DEF Unlocked
    <3>2. DOMAIN en[e] = EntryFields
      OBVIOUS
    <3> QED BY <3>1, <3>2 DEF EntryFields
  <2> QED BY <2>1, <2>2, NamesAssumption DEF Inv, EntriesOK, Gentle
<1> QED BY <1>1, <1>2

LEMMA LockNextKeeps ==
  ASSUME Inv, NEW p \in Callers, LockNext(p) PROVE Stepped(p)
<1>1. PICK j : j = job[p] /\ VarsOK(j) /\ LocksOK(p, j) /\ j.pc = "lockAll"
  BY DEF Inv, CallerOK, LockNext
<1>2. PICK e : e = j.es[j.fetch[j.k]] /\ Allocated(e)
  BY <1>1 DEF VarsOK, LocksOK
<1>3. ent[e].mu = NoCaller /\ ent' = [ent EXCEPT ![e].mu = p]
  BY <1>1, <1>2 DEF LockNext, BatchAt
<1>4. Gentle(p) /\ ent'[e].mu = p
  <2>1. e \in Entries /\ ent[e].player # NoPlayer /\ DOMAIN ent = Entries
    BY <1>2 DEF Inv, EntriesOK, Allocated
  <2>2. \A x \in Entries :
          /\ DOMAIN ent'[x] = DOMAIN ent[x] /\ ent'[x].status = ent[x].status
          /\ ent'[x].player = ent[x].player /\ ent'[x].mu = IF x = e THEN p ELSE ent[x].mu
    BY <1>3, <2>1 DEF Inv, EntriesOK, EntryFields
  <2>3. DOMAIN ent' = Entries
    BY <1>3, <2>1
  <2> QED BY <1>3, <2>1, <2>2, <2>3 DEF Inv, EntriesOK, Gentle
<1>5. PICK n : /\ job' = [job EXCEPT ![p] = n]
               /\ n = IF j.k < Len(j.fetch) THEN [j EXCEPT !.k = @ + 1]
                      ELSE [j EXCEPT !.k = 1, !.pc = "batch"]
  <2>1. PICK n : n = IF j.k < Len(j.fetch) THEN [j EXCEPT !.k = @ + 1]
                     ELSE [j EXCEPT !.k = 1, !.pc = "batch"]
    OBVIOUS
  <2>2. job' = [job EXCEPT ![p] = n]
    BY <1>1, <2>1 DEF LockNext
  <2> QED BY <2>1, <2>2
<1>6. /\ DOMAIN n = JobFields /\ n.fetch = j.fetch /\ n.ids = j.ids /\ n.es = j.es
      /\ \/ j.k < Len(j.fetch) /\ n.pc = "lockAll" /\ n.k = j.k + 1
         \/ j.k = Len(j.fetch) /\ n.pc = "batch" /\ n.k = 1
  BY <1>1, <1>5 DEF VarsOK, JobFields
<1>7. VarsOK(n)
  BY <1>1, <1>6 DEF VarsOK
<1>8. \A x : Allocated(x) => Allocated(x)'
  BY <1>4 DEF Allocated, Gentle
<1>9. \A x \in Entries : ent[x].mu = p => ent'[x].mu = p
  BY <1>3 DEF Inv, EntriesOK, EntryFields
<1>10. \A i \in 1 .. Len(j.fetch) : i <= j.k => ent'[j.es[j.fetch[i]]].mu = p
  <2> SUFFICES ASSUME NEW i \in 1 .. Len(j.fetch), i <= j.k PROVE ent'[j.es[j.fetch[i]]].mu = p
    OBVIOUS
  <2>1. CASE i = j.k
    BY <1>2, <1>4, <2>1
  <2>2. CASE i < j.k
    <3>1. ent[j.es[j.fetch[i]]].mu = p
      BY <1>1, <2>2 DEF LocksOK
    <3>2. j.es[j.fetch[i]] \in Entries
      <4>1. j.es \in Seq(Entries) /\ j.fetch[i] \in 1 .. Len(j.es)
        BY <1>1 DEF VarsOK
      <4> QED BY <4>1
    <3> QED BY <1>9, <3>1, <3>2
  <2> QED BY <1>1, <2>1, <2>2 DEF VarsOK
<1>11. \A i \in 1 .. Len(n.fetch) : n.pc = "batch" \/ i < n.k => ent'[n.es[n.fetch[i]]].mu = p
  BY <1>1, <1>6, <1>10 DEF VarsOK
<1>12. LocksOK(p, n)'
  BY <1>1, <1>6, <1>8, <1>11 DEF LocksOK
<1> QED BY <1>4, <1>5, <1>7, <1>12, CallerSteps DEF LockNext

LEMMA FetchPlayersKeeps ==
  ASSUME Inv, NEW p \in Callers, FetchPlayers(p) PROVE Stepped(p)
<1>1. PICK j : j = job[p] /\ VarsOK(j) /\ LocksOK(p, j) /\ j.pc = "batch"
  BY DEF Inv, CallerOK, FetchPlayers
<1>2. CASE ent' = Unlocked(p, ent) /\ job' = [job EXCEPT ![p] = NoJob]
  BY <1>2, UnlockedGentle, ReturnKeeps DEF Inv, EntriesOK, FetchPlayers
<1>3. ASSUME NEW n, job' = [job EXCEPT ![p] = n], ent' = ent,
             DOMAIN n = JobFields, n.es = j.es, n.fetch = j.fetch, n.ids = j.ids, n.k = j.k,
             n.pc \in {"batch", "apply"}
      PROVE  Stepped(p)
  <2>1. Gentle(p)
    BY <1>3, CalmIsGentle DEF Inv, Calm, EntriesOK
  <2>2. VarsOK(n)
    BY <1>1, <1>3 DEF VarsOK
  <2>3. LocksOK(p, n)'
    BY <1>1, <1>3 DEF LocksOK, Allocated
  <2> QED BY <1>3, <2>1, <2>2, <2>3, CallerSteps DEF FetchPlayers
<1>4. ASSUME NEW n, n = [j EXCEPT !.v = @ + 1], job' = [job EXCEPT ![p] = n], ent' = ent
      PROVE  Stepped(p)
  <2>1. n = [j EXCEPT !.v = @ + 1] /\ job' = [job EXCEPT ![p] = n]
    BY <1>4
  <2>2. /\ DOMAIN n = JobFields /\ n.es = j.es /\ n.fetch = j.fetch /\ n.ids = j.ids /\ n.k = j.k
        /\ n.pc = "batch"
    BY <1>1, <2>1 DEF VarsOK, JobFields
  <2> QED BY <1>3, <1>4, <2>1, <2>2
<1>5. ASSUME NEW got, ent' = ent, job' = [job EXCEPT ![p].pc = "apply", ![p].got = got]
      PROVE  Stepped(p)
  <2>1. PICK n : n = [j EXCEPT !.pc = "apply", !.got = got] /\ job' = [job EXCEPT ![p] = n]
    BY <1>1, <1>5
  <2>2. /\ DOMAIN n = JobFields /\ n.es = j.es /\ n.fetch = j.fetch /\ n.ids = j.ids /\ n.k = j.k
        /\ n.pc = "apply"
    BY <1>1, <2>1 DEF VarsOK, JobFields
  <2> QED BY <1>3, <1>5, <2>1, <2>2
<1>6. PICK n : n = [j EXCEPT !.v = @ + 1]
  OBVIOUS
<1>7. \/ ent' = Unlocked(p, ent) /\ job' = [job EXCEPT ![p] = NoJob]
      \/ ent' = ent /\ job' = [job EXCEPT ![p] = n]
      \/ ent' = ent /\ \E got : job' = [job EXCEPT ![p].pc = "apply", ![p].got = got]
  BY <1>1, <1>6 DEF FetchPlayers
<1> QED BY <1>2, <1>4, <1>5, <1>6, <1>7

(* The end of a batch's entry: the next one, or the locks are released.      *)
LEMMA NextOfBatch ==
  ASSUME Inv, NEW p \in Callers, Gentle(p), entryOf' = entryOf,
         NEW j, j = job[p], VarsOK(j), j.pc \in {"apply", "settle", "subscribing"}, NEW n,
         job' = [job EXCEPT ![p] = n], DOMAIN n = JobFields,
         n.ids = j.ids, n.es = j.es, n.fetch = j.fetch,
         \/ n.pc = "subscribing" /\ n.k = j.k
         \/ n.pc = "settle" /\ n.k = j.k /\ ent'[j.es[j.fetch[j.k]]].status # "ready"
         \/ n.pc = "apply" /\ n.k = j.k + 1 /\ j.k # Len(j.fetch),
         \A e \in Entries : ent[e].mu = p => ent'[e].mu = p
  PROVE  Stepped(p)
<1>1. LocksOK(p, j)
  BY DEF Inv, CallerOK
<1>2. VarsOK(n)
  <2>1. j.k \in 1 .. Len(j.fetch) /\ j.fetch \in Seq(Nat)
    BY DEF VarsOK
  <2>2. n.k \in 1 .. Len(j.fetch)
    BY <2>1
  <2> QED BY <2>2 DEF VarsOK
<1>3. \A x : Allocated(x) => Allocated(x)'
  BY DEF Allocated, Gentle
<1>4. \A i \in 1 .. Len(j.fetch) : j.es[j.fetch[i]] \in Entries /\ ent[j.es[j.fetch[i]]].mu = p
  <2>1. \A i \in 1 .. Len(j.es) : j.es[i] \in Entries
    BY <1>1 DEF LocksOK, Allocated
  <2>2. \A i \in 1 .. Len(j.fetch) : j.fetch[i] \in 1 .. Len(j.es)
    BY DEF VarsOK
  <2> QED BY <1>1, <2>1, <2>2 DEF LocksOK
<1>5. LocksOK(p, n)'
  <2>1. \A i \in 1 .. Len(n.es) : Allocated(n.es[i])'
    BY <1>1, <1>3 DEF LocksOK
  <2>2. \A i \in 1 .. Len(n.fetch) : ent'[n.es[n.fetch[i]]].mu = p
    BY <1>4
  <2>3. n.pc = "settle" => ent'[n.es[n.fetch[n.k]]].status # "ready"
    OBVIOUS
  <2> QED BY <2>1, <2>2, <2>3 DEF LocksOK
<1> QED BY <1>2, <1>5, CallerSteps

LEMMA NextIsKept ==
  ASSUME Inv, NEW p \in Callers, Gentle(p), entryOf' = entryOf, NEW j, j = job[p], VarsOK(j),
         j.pc \in {"apply", "settle", "subscribing"}, j.k # Len(j.fetch),
         job' = [job EXCEPT ![p] = AfterApply(@)],
         \A e \in Entries : ent[e].mu = p => ent'[e].mu = p
  PROVE  Stepped(p)
<1>1. PICK n : n = [j EXCEPT !.k = @ + 1, !.pc = "apply"]
  OBVIOUS
<1>2. job' = [job EXCEPT ![p] = n]
  BY <1>1 DEF AfterApply, Inv
<1>3. /\ DOMAIN n = JobFields /\ n.ids = j.ids /\ n.es = j.es /\ n.fetch = j.fetch
      /\ n.pc = "apply" /\ n.k = j.k + 1
  BY <1>1 DEF VarsOK, JobFields
<1> QED BY <1>2, <1>3, NextOfBatch

(* What follows an entry of a batch, once ent is en and maybe unlocked.      *)
LEMMA AfterApplyKeeps ==
  ASSUME Inv, NEW p \in Callers, entryOf' = entryOf, NEW j, j = job[p], VarsOK(j),
         j.pc \in {"apply", "settle", "subscribing"}, NEW en, DOMAIN en = Entries,
         \A e \in Entries :
           /\ DOMAIN en[e] = EntryFields /\ en[e].mu = ent[e].mu /\ en[e].player = ent[e].player
           /\ en[e].status \in Statuses
           /\ en[e].status = ent[e].status \/ (ent[e].status # "ready" /\ ent[e].mu = p),
         ent' = Released(p, en), job' = [job EXCEPT ![p] = AfterApply(@)]
  PROVE  Stepped(p)
<1>1. Gentle(p)
  BY UnlockedGentle DEF Released
<1>2. CASE j.k = Len(j.fetch)
  <2>1. job' = [job EXCEPT ![p] = NoJob]
    BY <1>2 DEF AfterApply, Inv
  <2> QED BY <1>1, <2>1, ReturnKeeps
<1>3. CASE j.k # Len(j.fetch)
  <2>1. ent' = en /\ \A e \in Entries : ent[e].mu = p => ent'[e].mu = p
    BY <1>3 DEF Released
  <2> QED BY <1>1, <1>3, <2>1, NextIsKept
<1> QED BY <1>2, <1>3

LEMMA SubscribedInlineKeeps ==
  ASSUME Inv, NEW p \in Callers, SubscribedInline(p) PROVE Stepped(p)
<1>1. PICK j : j = job[p] /\ VarsOK(j) /\ j.pc = "subscribing" /\ entryOf' = entryOf
  BY DEF Inv, CallerOK, SubscribedInline
<1>2. ent' = Released(p, ent) /\ job' = [job EXCEPT ![p] = AfterApply(@)]
  BY DEF SubscribedInline
<1> QED BY <1>1, <1>2, AfterApplyKeeps DEF Inv, EntriesOK

(* The entry a batch is at is locked.                                        *)
LEMMA BatchAtLocked ==
  ASSUME Inv, NEW p \in Callers, job[p].pc \in {"batch", "apply", "settle", "subscribing"}
  PROVE  /\ BatchAt(p) \in Entries /\ Allocated(BatchAt(p)) /\ ent[BatchAt(p)].mu = p
         /\ job[p].pc = "settle" => ent[BatchAt(p)].status # "ready"
<1>1. PICK j : j = job[p] /\ VarsOK(j) /\ LocksOK(p, j)
  BY DEF Inv, CallerOK
<1>2. j.k \in 1 .. Len(j.fetch) /\ j.fetch[j.k] \in 1 .. Len(j.es)
  BY <1>1 DEF VarsOK
<1> QED BY <1>1, <1>2 DEF LocksOK, Allocated, BatchAt

LEMMA ApplyNextKeeps ==
  ASSUME Inv, NEW p \in Callers, ApplyNext(p) PROVE Stepped(p)
<1>1. PICK j : j = job[p] /\ VarsOK(j) /\ j.pc = "apply" /\ entryOf' = entryOf
  BY DEF Inv, CallerOK, ApplyNext
<1>2. PICK e : e = BatchAt(p) /\ e \in Entries
  BY <1>1, BatchAtLocked
<1>3. CASE ent' = Released(p, ent) /\ job' = [job EXCEPT ![p] = AfterApply(@)]
  BY <1>1, <1>3, AfterApplyKeeps DEF Inv, EntriesOK
<1>4. CASE /\ StillPending(e) /\ Goto(p, "settle")
           /\ \/ ent' = [ent EXCEPT ![e].errorAt = now]
              \/ ent' = [ent EXCEPT ![e].data = Merged(@, Answer(p)), ![e].fetched = now]
  <2>1. Calm
    <3>1. CASE ent' = [ent EXCEPT ![e].errorAt = now]
      BY <3>1 DEF Inv, EntriesOK, Calm, EntryFields
    <3>2. CASE ent' = [ent EXCEPT ![e].data = Merged(@, Answer(p)), ![e].fetched = now]
      BY <3>2 DEF Inv, EntriesOK, Calm, EntryFields
    <3> QED BY <1>4, <3>1, <3>2
  <2>2. Gentle(p)
    BY <2>1, CalmIsGentle DEF Inv
  <2>3. PICK n : n = [j EXCEPT !.pc = "settle"] /\ job' = [job EXCEPT ![p] = n]
    BY <1>1, <1>4 DEF Goto, Inv
  <2>4. /\ DOMAIN n = JobFields /\ n.ids = j.ids /\ n.es = j.es /\ n.fetch = j.fetch
        /\ n.pc = "settle" /\ n.k = j.k
    BY <1>1, <2>3 DEF VarsOK, JobFields
  <2>5. ent'[j.es[j.fetch[j.k]]].status # "ready"
    BY <1>1, <1>2, <1>4, <2>1 DEF Calm, StillPending, BatchAt
  <2>6. \A x \in Entries : ent[x].mu = p => ent'[x].mu = p
    BY <2>1 DEF Calm
  <2> QED BY <1>1, <2>2, <2>3, <2>4, <2>5, <2>6, NextOfBatch
<1> QED BY <1>2, <1>3, <1>4 DEF ApplyNext

LEMMA SetStatusKeeps ==
  ASSUME Inv, NEW p \in Callers, SetStatus(p) PROVE Stepped(p)
<1>1. PICK j : j = job[p] /\ VarsOK(j) /\ j.pc = "settle" /\ entryOf' = entryOf
  BY DEF Inv, CallerOK, SetStatus
<1>2. PICK e : e = BatchAt(p) /\ e \in Entries /\ ent[e].mu = p /\ ent[e].status # "ready"
  BY <1>1, BatchAtLocked
<1>3. PICK en, l : /\ en = [ent EXCEPT ![e].status = l] /\ l \in {"ready", "error"}
                   /\ \/ ent' = en /\ job' = [job EXCEPT ![p] = [@ EXCEPT !.pc = "subscribing"]]
                      \/ ent' = Released(p, en) /\ job' = [job EXCEPT ![p] = AfterApply(@)]
  BY <1>2 DEF SetStatus
<1>4. /\ DOMAIN en = Entries
      /\ \A x \in Entries :
           /\ DOMAIN en[x] = EntryFields /\ en[x].mu = ent[x].mu /\ en[x].player = ent[x].player
           /\ en[x].status \in Statuses
           /\ en[x].status = ent[x].status \/ (ent[x].status # "ready" /\ ent[x].mu = p)
  BY <1>2, <1>3 DEF Inv, EntriesOK, EntryFields, Statuses
<1>5. CASE ent' = Released(p, en) /\ job' = [job EXCEPT ![p] = AfterApply(@)]
  BY <1>1, <1>4, <1>5, AfterApplyKeeps
<1>6. CASE ent' = en /\ job' = [job EXCEPT ![p] = [@ EXCEPT !.pc = "subscribing"]]
  <2>1. PICK n : n = [j EXCEPT !.pc = "subscribing"] /\ job' = [job EXCEPT ![p] = n]
    BY <1>1, <1>6 DEF Inv
  <2>2. /\ DOMAIN n = JobFields /\ n.ids = j.ids /\ n.es = j.es /\ n.fetch = j.fetch
        /\ n.pc = "subscribing" /\ n.k = j.k
    BY <1>1, <2>1 DEF VarsOK, JobFields
  <2>3. Gentle(p)
    BY <1>4, <1>6, UnlockedGentle
  <2>4. \A x \in Entries : ent[x].mu = p => ent'[x].mu = p
    BY <1>4, <1>6
  <2> QED BY <1>1, <2>1, <2>2, <2>3, <2>4, NextOfBatch
<1> QED BY <1>3, <1>5, <1>6

-----------------------------------------------------------------------------
(* Steps of the other goroutines.                                            *)

(* A step that leaves the callers and the map alone.                         *)
LEMMA ApartKeeps ==
  ASSUME Inv, Gentle(NoCaller), entryOf' = entryOf, job' = job PROVE Stepped(NoCaller)
  BY SameMap, NamesAssumption DEF Stepped, Inv

LEMMA TaskKeeps ==
  ASSUME Inv, NEW k \in tasks, TaskStep(k) PROVE Stepped(NoCaller)
<1>1. Calm
  BY DEF TaskStep, SubscribeEntry, SubscribeEntryDone, Inv, EntriesOK, Calm, EntryFields
<1> QED BY <1>1, CalmIsGentle, ApartKeeps
        DEF TaskStep, SubscribeEntry, SubscribeEntryDone, Inv

LEMMA UpdateKeeps ==
  ASSUME Inv, NEW e \in Entries, Updating(e) PROVE Stepped(NoCaller)
<1>1. Calm
  BY DEF Updating, ProcessUpdate, ProcessorEnds, Inv, EntriesOK, Calm, EntryFields
<1> QED BY <1>1, CalmIsGentle, ApartKeeps DEF Updating, ProcessUpdate, ProcessorEnds, Inv

LEMMA ChangeKeeps ==
  ASSUME Inv, NEW pl, NEW t, NEW n, Change(pl, t, n) PROVE Stepped(NoCaller)
<1>1. Calm
  BY DEF Change, Inv, EntriesOK, Calm, EntryFields
<1> QED BY <1>1, CalmIsGentle, ApartKeeps DEF Change, Inv

(* The goroutines of a fetch change one field of the fetching caller.        *)
LEMMA GoKeeps ==
  ASSUME Inv, NEW p \in Callers, NEW v \in Providers, GoStep(p, v) PROVE Stepped(p)
<1>1. Calm
  BY DEF GoStep, FetchPlayer, StoreFetched, SubscribePlayer, AppendSubscription, cacheVars,
         Inv, EntriesOK, Calm, EntryFields
<1>2. entryOf' = entryOf
  BY DEF GoStep, FetchPlayer, StoreFetched, SubscribePlayer, AppendSubscription, cacheVars
<1>3. PICK j : j = job[p] /\ VarsOK(j) /\ LocksOK(p, j)
  BY DEF Inv, CallerOK
<1>4. \A x : Allocated(x) => Allocated(x)'
  BY <1>1 DEF Allocated, Calm
<1>5. ASSUME NEW n, DOMAIN n = JobFields, n.pc = j.pc, n.ids = j.ids, n.es = j.es,
             n.fetch = j.fetch, n.k = j.k, job'[p] = n
      PROVE  CallerOK(p)'
  <2>1. VarsOK(n)
    BY <1>3, <1>5 DEF VarsOK
  <2>2. \A i \in 1 .. Len(j.es) : j.es[i] \in Entries
    BY <1>3 DEF LocksOK, Allocated
  <2>3. \A i \in 1 .. Len(j.fetch) : j.es[j.fetch[i]] \in Entries
    BY <1>3, <2>2 DEF VarsOK
  <2>4. j.pc = "fetch" => j.es[j.k] \in Entries
    BY <1>3, <2>2 DEF VarsOK
  <2>5. \A e \in Entries : ent'[e].mu = ent[e].mu /\ ent'[e].status = ent[e].status
    BY <1>1 DEF Calm
  <2>6. LocksOK(p, j)'
    <3>1. \A i \in 1 .. Len(j.es) : Allocated(j.es[i])'
      BY <1>3, <1>4 DEF LocksOK
    <3>2. \A i \in 1 .. Len(j.fetch) : ent'[j.es[j.fetch[i]]].mu = ent[j.es[j.fetch[i]]].mu
      BY <2>3, <2>5
    <3>3. j.pc = "fetch" => ent'[j.es[j.k]].mu = p /\ ent'[j.es[j.k]].status # "ready"
      BY <1>3, <2>4, <2>5 DEF LocksOK
    <3>4. j.pc = "settle" => ent'[j.es[j.fetch[j.k]]].status # "ready"
      BY <1>3, <2>3, <2>5 DEF LocksOK, VarsOK
    <3> QED BY <1>3, <3>1, <3>2, <3>3, <3>4 DEF LocksOK
  <2>7. LocksOK(p, n)'
    BY <1>5, <2>6 DEF LocksOK
  <2> QED BY <1>5, <2>1, <2>7 DEF CallerOK
<1>6. Gentle(p) /\ MapOK'
  BY <1>1, <1>2, CalmIsGentle, SameMap DEF Inv
<1>7. CASE job' = job
  BY <1>3, <1>5, <1>6, <1>7 DEF Inv, VarsOK, Stepped
<1>8. CASE StoreFetched(p, v)
  <2>1. PICK n : n = [j EXCEPT !.any = @ \/ go[p][v].got # Nothing]
    OBVIOUS
  <2>2. job' = [job EXCEPT ![p] = n]
    BY <1>3, <1>8, <2>1 DEF StoreFetched
  <2>3. /\ DOMAIN n = JobFields /\ n.pc = j.pc /\ n.ids = j.ids /\ n.es = j.es
        /\ n.fetch = j.fetch /\ n.k = j.k
    BY <1>3, <2>1 DEF VarsOK, JobFields
  <2> QED BY <1>5, <1>6, <2>2, <2>3 DEF Inv, Stepped
<1> QED BY <1>7, <1>8 DEF GoStep, FetchPlayer, SubscribePlayer, AppendSubscription

(* A close sets the status to closing, a deletion takes an entry off the map.*)
LEMMA CloserKeeps ==
  ASSUME Inv, NEW c \in {"cleanup", "stop"}, CloserStep(c) PROVE Stepped(NoCaller)
<1>1. Gentle(NoCaller)
  <2>1. CASE SwapStatus(c)
    BY <2>1 DEF SwapStatus, Inv, EntriesOK, Gentle, EntryFields, Statuses
  <2>2. CASE ~SwapStatus(c)
    <3>1. CASE CloseSubscriptions(c)
      BY <3>1, CalmIsGentle DEF CloseSubscriptions, Inv, EntriesOK, Calm, EntryFields
    <3>2. CASE CloseChannel(c)
      BY <3>2, CalmIsGentle DEF CloseChannel, Inv, EntriesOK, Calm, EntryFields
    <3>3. CASE ent' = ent
      BY <3>3, CalmIsGentle DEF Inv, EntriesOK, Calm
    <3> QED BY <2>2, <3>1, <3>2, <3>3 DEF CloserStep, Visit, AllVisited, Delete, cacheVars
  <2> QED BY <2>1, <2>2
<1>2. job' = job
  BY DEF CloserStep, Visit, AllVisited, SwapStatus, CloseSubscriptions, CloseChannel, Delete
<1>3. MapOK'
  <2>1. CASE entryOf' = entryOf
    BY <1>1, <2>1, SameMap
  <2>2. CASE Delete(c)
    BY <2>2 DEF Delete, Without, Inv, MapOK, Allocated
  <2> QED BY <2>1, <2>2 DEF CloserStep, Visit, AllVisited, SwapStatus, CloseSubscriptions,
                            CloseChannel, cacheVars
<1> QED BY <1>1, <1>2, <1>3, NamesAssumption DEF Stepped, Inv

-----------------------------------------------------------------------------
(* Every step is one of these.                                               *)
LEMMA StepSomeone ==
  ASSUME Inv, [Next]_vars PROVE \E p \in Callers \cup {NoCaller} : Stepped(p)
<1>1. ASSUME NEW p \in Callers, CallAny(p) \/ CallerStep(p) \/ Locking(p) PROVE Stepped(p)
  BY <1>1, CallKeeps, FoundEntryKeeps, CreateEntryKeeps, ReadStatusKeeps, ResetErrorKeeps,
     FetchDoneKeeps, CheckKeeps, ReadStatusManyKeeps, FetchPlayersKeeps, ApplyNextKeeps,
     SetStatusKeeps, SubscribedInlineKeeps, LockKeeps, LockNextKeeps DEF CallerStep, Locking
<1>2. CASE UNCHANGED <<cacheVars, job>>
  <2>1. Gentle(NoCaller)
    BY <1>2, CalmIsGentle DEF cacheVars, Inv, Calm, EntriesOK
  <2> QED BY <1>2, <2>1, ApartKeeps DEF cacheVars
<1>3. CASE Next
  BY <1>1, <1>2, <1>3, GoKeeps, TaskKeeps, UpdateKeeps, ChangeKeeps, CloserKeeps
     DEF Next, Tick, StartCleanup, Stop
<1> QED BY <1>2, <1>3 DEF vars

(* Entries, the map and the locks of all callers are in order in every state.*)
THEOREM Inductive == Spec => []Inv
<1>1. ASSUME Init PROVE Inv
  <2>1. EntriesOK
    BY <1>1 DEF Init, EntriesOK, EntryFields, NewEntry, Statuses
  <2>2. MapOK
    BY <1>1 DEF Init, MapOK
  <2>3. PICK j : j = NoJob
    OBVIOUS
  <2>4. /\ DOMAIN j = JobFields /\ j.ids = <<>> /\ j.es = <<>> /\ j.fetch = <<>> /\ j.k = 1
        /\ j.pc = "idle"
    BY <2>3 DEF NoJob, JobFields
  <2>5. VarsOK(j) /\ \A p : LocksOK(p, j)
    BY <2>4 DEF VarsOK, LocksOK
  <2> QED BY <1>1, <2>1, <2>2, <2>3, <2>5 DEF Init, Inv, CallerOK
<1>2. Inv /\ [Next]_vars => Inv'
  BY StepSomeone, SteppedKeeps
<1> QED BY <1>1, <1>2, PTL DEF Spec

(* Once an entry is ready, only its closing changes its status, however many *)
(* callers look it up alone and in batches.                                  *)
THEOREM ReadyIsKept == Spec => ReadyStays
<1>1. Inv /\ [Next]_vars =>
        [\A e \in Entries : ent[e].status = "ready" => ent'[e].status \in {"ready", "closing"}]_vars
  BY StepSomeone DEF Stepped, Gentle
<1> QED BY <1>1, Inductive, PTL DEF Spec, ReadyStays

-----------------------------------------------------------------------------
(* Channels are closed once while only cleanup closes entries: the entry it  *)
(* is at is in the map until it has deleted it, what is in the map has an    *)
(* open channel, and what has left the map is never visited again.           *)
AtEntry == {"cas", "subs", "channel", "delete"}

OneCloser ==
  LET cl == closer["cleanup"] IN
  /\ closer["stop"].pc = "idle"
  /\ \A pl \in Players : entryOf[pl] # NoEntry => ent[entryOf[pl]].player = pl
  /\ cl.pc \in AtEntry =>
       Allocated(cl.e) /\ ent[cl.e].player \in Players /\ entryOf[ent[cl.e].player] = cl.e
  /\ \A e \in Entries :
       /\ ent[e].closes \in {0, 1}
       /\ ent[e].closes = 1 => Allocated(e)
       /\ ent[e].closes = 1 /\ (\E pl \in Players : entryOf[pl] = e) =>
            cl.pc = "delete" /\ cl.e = e

ClosersOK ==
  /\ DOMAIN closer = {"cleanup", "stop"}
  /\ \A c \in DOMAIN closer : DOMAIN closer[c] = {"pc", "todo", "e", "cas"}
  /\ closer["cleanup"].todo \subseteq Players

CloseInv == Inv /\ ClosersOK /\ (~cancelled => OneCloser)

(* A step that neither closes nor creates an entry.                          *)
Quiet ==
  /\ UNCHANGED <<entryOf, closer, cancelled>>
  /\ \A e \in Entries : ent'[e].closes = ent[e].closes /\ ent'[e].player = ent[e].player

LEMMA QuietKeeps == ASSUME CloseInv, Quiet PROVE ClosersOK' /\ (~cancelled => OneCloser)'
  BY DEF CloseInv, Inv, MapOK, ClosersOK, OneCloser, Quiet, Allocated, AtEntry

LEMMA CallerQuiet ==
  ASSUME Inv, NEW p \in Callers, CallAny(p) \/ CallerStep(p) \/ Locking(p),
         \A e \in Entries : ~CreateEntry(p, e)
  PROVE  Quiet
<1> USE DEF Quiet, Inv, EntriesOK, EntryFields, cacheVars
<1>1. CASE ent' = ent /\ UNCHANGED <<entryOf, closer, cancelled>>
  BY <1>1
<1>2. CASE ResetError(p)
  BY <1>2 DEF ResetError
<1>3. CASE FetchDone(p)
  BY <1>3 DEF FetchDone
<1>4. CASE Check(p)
  BY <1>4 DEF Check
<1>5. CASE ReadStatusMany(p)
  BY <1>5 DEF ReadStatusMany
<1>6. CASE Lock(p)
  BY <1>6 DEF Lock
<1>7. CASE LockNext(p)
  BY <1>7 DEF LockNext
<1>8. ASSUME NEW en, ent' = en \/ ent' = Unlocked(p, en), UNCHANGED <<entryOf, closer, cancelled>>,
             \A e \in Entries : /\ DOMAIN en[e] = EntryFields
                               /\ en[e].closes = ent[e].closes /\ en[e].player = ent[e].player
      PROVE  Quiet
  BY <1>8 DEF Unlocked
<1>9. CASE FetchPlayers(p)
  BY <1>8, <1>9 DEF FetchPlayers
<1>10. CASE SubscribedInline(p)
  BY <1>8, <1>10 DEF SubscribedInline, Released
<1>11. CASE ApplyNext(p)
  <2>1. PICK e : \/ ent' = [ent EXCEPT ![e].errorAt = now]
                 \/ ent' = [ent EXCEPT ![e].data = Merged(@, Answer(p)), ![e].fetched = now]
                 \/ ent' = ent \/ ent' = Unlocked(p, ent)
    BY <1>11 DEF ApplyNext, Released
  <2>2. UNCHANGED <<entryOf, closer, cancelled>>
    BY <1>11 DEF ApplyNext
  <2>3. CASE ent' = ent \/ ent' = Unlocked(p, ent)
    BY <1>8, <2>2, <2>3
  <2> QED BY <2>1, <2>2, <2>3
<1>12. CASE SetStatus(p)
  <2>1. PICK e, l, en : en = [ent EXCEPT ![e].status = l] /\ (ent' = en \/ ent' = Unlocked(p, en))
    BY <1>12 DEF SetStatus, Released
  <2>2. \A x \in Entries : /\ DOMAIN en[x] = EntryFields
                           /\ en[x].closes = ent[x].closes /\ en[x].player = ent[x].player
    BY <2>1
  <2>3. UNCHANGED <<entryOf, closer, cancelled>>
    BY <1>12 DEF SetStatus
  <2> QED BY <1>8, <2>1, <2>2, <2>3
<1> QED BY <1>1, <1>2, <1>3, <1>4, <1>5, <1>6, <1>7, <1>9, <1>10, <1>11, <1>12
        DEF CallAny, Call, CallerStep, Locking, FoundEntry, ProcessedInline, ReadStatus

LEMMA OthersQuiet ==
  ASSUME Inv, \/ \E p \in Callers, v \in Providers : GoStep(p, v)
              \/ \E k \in tasks : TaskStep(k)
              \/ \E e \in Entries : Updating(e)
              \/ \E pl \in Players, t \in Types, n \in Versions : Change(pl, t, n)
              \/ Tick \/ UNCHANGED vars
  PROVE  Quiet
<1> USE DEF Quiet, Inv, EntriesOK, EntryFields, cacheVars
<1>1. ASSUME NEW p \in Callers, NEW v \in Providers, GoStep(p, v) PROVE Quiet
  <2>1. CASE FetchPlayer(p, v)
    BY <2>1 DEF FetchPlayer
  <2>2. CASE StoreFetched(p, v)
    BY <2>2 DEF StoreFetched
  <2>3. CASE SubscribePlayer(p, v)
    BY <2>3 DEF SubscribePlayer
  <2>4. CASE AppendSubscription(p, v)
    BY <2>4 DEF AppendSubscription
  <2> QED BY <1>1, <2>1, <2>2, <2>3, <2>4 DEF GoStep
<1>2. ASSUME NEW k \in tasks, TaskStep(k) PROVE Quiet
  BY <1>2 DEF TaskStep, SubscribeEntry, SubscribeEntryDone
<1>3. ASSUME NEW e \in Entries, Updating(e) PROVE Quiet
  <2>1. \A x \in Entries : ent'[x].closes = ent[x].closes /\ ent'[x].player = ent[x].player
    <3>1. CASE ProcessorEnds(e)
      BY <3>1 DEF ProcessorEnds
    <3>2. CASE ProcessUpdate(e) /\ ent[e].status = "closing"
      BY <3>2 DEF ProcessUpdate
    <3>3. CASE ProcessUpdate(e) /\ ent[e].status # "closing"
      <4>1. PICK u : ent' = [ent EXCEPT ![e].queue = Tail(@), ![e].data[u.type] = u.version,
                                        ![e].fetched = now]
        BY <3>3 DEF ProcessUpdate
      <4> QED BY <4>1
    <3> QED BY <1>3, <3>1, <3>2, <3>3 DEF Updating
  <2>2. UNCHANGED <<entryOf, closer, cancelled>>
    BY <1>3 DEF Updating, ProcessUpdate, ProcessorEnds
  <2> QED BY <2>1, <2>2
<1>4. ASSUME NEW pl, NEW t, NEW n, Change(pl, t, n) PROVE Quiet
  BY <1>4 DEF Change
<1>5. CASE Tick \/ UNCHANGED vars
  BY <1>5 DEF Tick, vars
<1> QED BY <1>1, <1>2, <1>3, <1>4, <1>5

LEMMA CreatedOnce ==
  ASSUME CloseInv, NEW p \in Callers, NEW e \in Entries, CreateEntry(p, e)
  PROVE  ClosersOK' /\ (~cancelled => OneCloser)'
<1>1. PICK j : j = job[p] /\ VarsOK(j) /\ j.pc = "entry"
  BY DEF CloseInv, Inv, CallerOK, CreateEntry
<1>2. PICK pl : pl = j.ids[j.k] /\ pl \in Players
  BY <1>1 DEF VarsOK
<1>3. PICK new : ent' = [ent EXCEPT ![e] = new] /\ new.player = pl /\ new.closes = 0
  <2>1. PICK proc : ent' = [ent EXCEPT ![e] = [NewEntry(pl) EXCEPT !.proc = proc]]
    BY <1>1, <1>2 DEF CreateEntry
  <2>2. PICK new : new = [NewEntry(pl) EXCEPT !.proc = proc]
    OBVIOUS
  <2>3. new.player = pl /\ new.closes = 0
    BY <2>2 DEF NewEntry
  <2> QED BY <2>1, <2>2, <2>3
<1>4. /\ ent[e].player = NoPlayer /\ entryOf[pl] = NoEntry /\ entryOf' = [entryOf EXCEPT ![pl] = e]
      /\ UNCHANGED <<closer, cancelled>>
  BY <1>1, <1>2 DEF CreateEntry, Free
<1>5. ClosersOK'
  BY <1>4 DEF CloseInv, ClosersOK
<1>6. /\ DOMAIN ent = Entries /\ e \in Entries /\ DOMAIN entryOf = Players
      /\ \A q \in Players : entryOf[q] # NoEntry => Allocated(entryOf[q])
  BY DEF CloseInv, Inv, EntriesOK, MapOK
<1>7. /\ ent'[e] = new /\ \A x \in Entries : x # e => ent'[x] = ent[x]
      /\ \A q \in Players : entryOf'[q] = IF q = pl THEN e ELSE entryOf[q]
  BY <1>3, <1>4, <1>6
<1>8. ASSUME ~cancelled PROVE OneCloser'
  <2>1. OneCloser
    BY <1>8 DEF CloseInv
  <2>2. \A q \in Players : entryOf'[q] # NoEntry => ent'[entryOf'[q]].player = q
    BY <1>3, <1>4, <1>6, <1>7, <2>1 DEF OneCloser, Allocated
  <2>3. \A x \in Entries : Allocated(x) => Allocated(x)' /\ x # e
    BY <1>4, <1>7 DEF Allocated
  <2>9. PICK cl : cl = closer["cleanup"] /\ cl = closer'["cleanup"]
    BY <1>4
  <2>4. cl.pc \in AtEntry =>
          Allocated(cl.e)' /\ ent'[cl.e].player \in Players /\ entryOf'[ent'[cl.e].player] = cl.e
    <3>1. ASSUME NEW x \in Entries, Allocated(x), ent[x].player \in Players,
                 entryOf[ent[x].player] = x
          PROVE  Allocated(x)' /\ ent'[x].player \in Players /\ entryOf'[ent'[x].player] = x
      BY <1>4, <1>7, <2>3, <3>1, NamesAssumption
    <3>2. cl.pc \in AtEntry => /\ Allocated(cl.e) /\ cl.e \in Entries
                               /\ ent[cl.e].player \in Players /\ entryOf[ent[cl.e].player] = cl.e
      BY <2>1, <2>9 DEF OneCloser, Allocated
    <3> QED BY <3>1, <3>2
  <2>5. \A x \in Entries :
          /\ ent'[x].closes \in {0, 1}
          /\ ent'[x].closes = 1 => Allocated(x)' /\ ent[x].closes = 1 /\ x # e
    BY <1>3, <1>7, <2>1, <2>3 DEF OneCloser
  <2>6. \A x \in Entries : ent'[x].closes = 1 /\ (\E q \in Players : entryOf'[q] = x) =>
          cl.pc = "delete" /\ cl.e = x
    <3> SUFFICES ASSUME NEW x \in Entries, ent'[x].closes = 1, NEW q \in Players, entryOf'[q] = x
                 PROVE  cl.pc = "delete" /\ cl.e = x
      BY Zenon
    <3>1. ent[x].closes = 1 /\ entryOf[q] = x
      BY <1>7, <2>5
    <3> QED BY <2>1, <2>9, <3>1 DEF OneCloser
  <2>7. /\ closer'["stop"].pc = "idle"
        /\ \A x \in Entries : ent'[x].closes \in {0, 1} /\ (ent'[x].closes = 1 => Allocated(x)')
    BY <1>4, <2>1, <2>5 DEF OneCloser
  <2>8. cl.pc \in AtEntry =>
          Allocated(cl.e)' /\ ent'[cl.e].player \in Players /\ entryOf'[ent'[cl.e].player] = cl.e
    BY <2>4
  <2> HIDE DEF AtEntry
  <2> QED BY <2>2, <2>6, <2>7, <2>8, <2>9 DEF OneCloser
<1> QED BY <1>4, <1>5, <1>8

LEMMA CloserOnce ==
  ASSUME CloseInv, StartCleanup \/ Stop \/ \E c \in {"cleanup", "stop"} : CloserStep(c)
  PROVE  ClosersOK' /\ (~cancelled => OneCloser)'
<1> USE DEF CloseInv, Inv, EntriesOK, EntryFields, MapOK, ClosersOK, OneCloser, Allocated, AtEntry,
            cacheVars, Resting
<1>1. CASE StartCleanup
  BY <1>1 DEF StartCleanup, Known
<1>2. CASE Stop
  BY <1>2 DEF Stop
<1>3. ASSUME NEW c \in {"cleanup", "stop"}, NEW pl \in Players, Visit(c, pl)
      PROVE  ClosersOK' /\ (~cancelled => OneCloser)'
  BY <1>3, NamesAssumption DEF Visit
<1>4. ASSUME NEW c \in {"cleanup", "stop"}, AllVisited(c)
      PROVE  ClosersOK' /\ (~cancelled => OneCloser)'
  BY <1>4 DEF AllVisited
<1>5. ASSUME NEW c \in {"cleanup", "stop"}, SwapStatus(c)
      PROVE  ClosersOK' /\ (~cancelled => OneCloser)'
  <2>1. \A e \in Entries : ent'[e].closes = ent[e].closes /\ ent'[e].player = ent[e].player
    BY <1>5 DEF SwapStatus
  <2>2. UNCHANGED <<entryOf, cancelled>> /\ closer[c].pc = "cas"
    BY <1>5 DEF SwapStatus
  <2>3. /\ ClosersOK' /\ closer'["cleanup"].todo = closer["cleanup"].todo
        /\ \A d \in {"cleanup", "stop"} : d # c => closer'[d] = closer[d]
        /\ c = "cleanup" => closer'[c].e = closer[c].e /\ closer'[c].pc \in AtEntry
    <3>1. CASE closer' = [closer EXCEPT ![c].pc = "subs"]
      BY <2>2, <3>1
    <3>2. CASE closer' = [closer EXCEPT ![c] = [closer[c] EXCEPT !.cas = @ + 1]]
      <4>1. PICK cl : cl = [closer[c] EXCEPT !.cas = @ + 1]
        OBVIOUS
      <4>2. /\ DOMAIN cl = {"pc", "todo", "e", "cas"} /\ cl.todo = closer[c].todo
            /\ cl.e = closer[c].e /\ cl.pc = "cas"
        BY <2>2, <4>1
      <4> QED BY <3>2, <4>1, <4>2
    <3>3. CASE closer' = [closer EXCEPT ![c] = AfterClose(c)]
      BY <2>2, <3>3 DEF AfterClose, NextVisit
    <3> QED BY <1>5, <3>1, <3>2, <3>3 DEF SwapStatus
  <2>4. ASSUME ~cancelled PROVE c = "cleanup" /\ OneCloser'
    <3>1. c = "cleanup"
      BY <2>2, <2>4
    <3> QED BY <2>1, <2>2, <2>3, <2>4, <3>1
  <2> QED BY <2>2, <2>3, <2>4
<1>6. ASSUME NEW c \in {"cleanup", "stop"}, CloseSubscriptions(c)
      PROVE  ClosersOK' /\ (~cancelled => OneCloser)'
  <2>1. \A e \in Entries : ent'[e].closes = ent[e].closes /\ ent'[e].player = ent[e].player
    BY <1>6 DEF CloseSubscriptions
  <2>2. /\ closer[c].pc = "subs" /\ closer' = [closer EXCEPT ![c].pc = "channel"]
        /\ UNCHANGED <<entryOf, cancelled>>
    BY <1>6 DEF CloseSubscriptions
  <2> QED BY <2>1, <2>2
<1>7. ASSUME NEW c \in {"cleanup", "stop"}, CloseChannel(c)
      PROVE  ClosersOK' /\ (~cancelled => OneCloser)'
  <2>1. \A e \in Entries :
          /\ ent'[e].closes = IF e = closer[c].e THEN ent[e].closes + 1 ELSE ent[e].closes
          /\ ent'[e].player = ent[e].player
    BY <1>7 DEF CloseChannel
  <2>2. /\ closer[c].pc = "channel" /\ closer' = [closer EXCEPT ![c] = AfterClose(c)]
        /\ UNCHANGED <<entryOf, cancelled>>
    BY <1>7 DEF CloseChannel
  <2>3. ClosersOK'
    BY <2>2 DEF AfterClose, NextVisit
  <2>4. ASSUME ~cancelled PROVE OneCloser'
    <3>1. c = "cleanup" /\ closer'["cleanup"] = [closer["cleanup"] EXCEPT !.pc = "delete"]
          /\ closer'["stop"] = closer["stop"]
      BY <2>2, <2>4 DEF AfterClose
    <3>2. /\ closer'["cleanup"].pc = "delete" /\ closer'["cleanup"].e = closer["cleanup"].e
          /\ ent[closer["cleanup"].e].closes = 0
      BY <2>2, <2>4, <3>1
    <3> QED BY <2>1, <2>2, <2>4, <3>1, <3>2
  <2> QED BY <2>2, <2>3, <2>4
<1>8. ASSUME NEW c \in {"cleanup", "stop"}, Delete(c)
      PROVE  ClosersOK' /\ (~cancelled => OneCloser)'
  BY <1>8, NamesAssumption DEF Delete, Without, NextVisit
<1> QED BY <1>1, <1>2, <1>3, <1>4, <1>5, <1>6, <1>7, <1>8 DEF CloserStep

(* While only cleanup closes entries, no channel is closed twice.            *)
THEOREM ChannelsClosedOnce == Spec => []ClosedOnce
<1>1. Init /\ Inv => CloseInv
  BY DEF Init, CloseInv, ClosersOK, OneCloser, Resting, NewEntry, AtEntry
<1>2. CloseInv /\ [Next]_vars => ClosersOK' /\ (~cancelled => OneCloser)'
  <2> SUFFICES ASSUME CloseInv, [Next]_vars PROVE ClosersOK' /\ (~cancelled => OneCloser)'
    OBVIOUS
  <2>1. CASE \E p \in Callers, e \in Entries : CreateEntry(p, e)
    BY <2>1, CreatedOnce
  <2>2. ASSUME NEW p \in Callers, CallAny(p) \/ CallerStep(p) \/ Locking(p)
        PROVE  ClosersOK' /\ (~cancelled => OneCloser)'
    BY <2>1, <2>2, CallerQuiet, QuietKeeps DEF CloseInv
  <2> QED BY <2>2, OthersQuiet, QuietKeeps, CloserOnce DEF Next, CloseInv
<1>3. CloseInv => ClosedOnce
  BY DEF CloseInv, OneCloser, ClosedOnce
<1> QED BY <1>1, <1>2, <1>3, Inductive, PTL DEF Spec, CloseInv


-----------------------------------------------------------------------------

(* Data is never older. One backend serves whatever it serves.               *)
Served    == {t \in Types : ToSet(ProvidersOf[t]) # {}}
SingleSource == \E v : \A t \in Types : ToSet(ProvidersOf[t]) \subseteq {v}

UpTo(n) == {NoData} \cup 0 .. n

Updates(n) == [type : Types, version : UpTo(n)]

(* Two versions of a component, one after the other.                         *)
InOrder(old, new) == old = NoData \/ new = NoData \/ old <= new

(* The updates in an entry's channel are in order and follow its data.       *)
Sorted(r, n) ==
  /\ r.player \in Players \cup {NoPlayer} /\ r.live \in Int /\ r.listed \in Int
  /\ r.data \in [Types -> UpTo(n)] /\ r.queue \in Seq(Updates(n))
  /\ \A i \in 1 .. Len(r.queue) : InOrder(r.data[r.queue[i].type], r.queue[i].version)
  /\ \A i, j \in 1 .. Len(r.queue) :
       i < j /\ r.queue[i].type = r.queue[j].type => InOrder(r.queue[i].version, r.queue[j].version)

(* A fetch can still come, nothing has come yet, nothing will come again.    *)
Open(e)  == ent[e].status \in {"pending", "error"}
Blank(e) == ent[e].live = 0 /\ ent[e].listed = 0 /\ ent[e].queue = <<>> /\ ent[e].data = Nothing
Gone(e)  == ent[e].player # NoPlayer /\ \A t \in Served : truth[ent[e].player][t] = NoData

(* A caller that fetches one entry, or has stored an answer for it and not   *)
(* yet its status.                                                           *)
FetchingOf(p, e) ==
  /\ p \in Callers
  /\ \/ job[p].pc = "fetch" /\ At(p) = e
     \/ job[p].pc = "settle" /\ BatchAt(p) = e

InFetch(e) == \E p \in Callers : FetchingOf(p, e)

(* An entry that may be fetched has heard of no update that counts.          *)
FeedOK(e) == Sorted(ent[e], changes) /\ (Open(e) /\ ~InFetch(e) => Blank(e) \/ Gone(e))

(* What was fetched is stored in an entry that is blank.                     *)
Timely(e, got) ==
  /\ got \in [Types -> UpTo(changes)]
  /\ Blank(e) \/ got = Nothing
  /\ got = Nothing => Gone(e)

ToStore(e, got) == Open(e) => Timely(e, got[ent[e].player])

GoOK(g, v, j, e) ==
  /\ g.at \in {"fetch", "store", "subscribe", "append", "done"}
  /\ g.at # "done" => v \in ToSet(ProvidersOf[j.type])
  /\ g.at = "fetch" => Blank(e) \/ Gone(e)
  /\ g.at = "store" => Timely(e, g.got)
  /\ g.at \in {"subscribe", "append"} => j.any \/ Gone(e)

FetchOK(p) ==
  IF job[p].pc = "fetch"
  THEN /\ job[p].any \/ Blank(At(p)) \/ Gone(At(p))
       /\ \A v \in Providers : GoOK(go[p][v], v, job[p], At(p))
  ELSE \A v \in Providers : go[p][v].at = "idle"

(* A batch: the provider it asks, and what it is to store.                   *)
BatchOK(p) ==
  LET j == job[p] IN
  /\ j.pc # "idle" => j.type \in Types
  /\ j.pc \notin {"batch", "apply", "settle", "subscribing"} => j.v = 1
  /\ j.pc \in {"lockAll", "batch"} => j.v \in 1 .. Len(ProvidersOf[j.type])
  /\ j.pc \in {"apply", "settle", "subscribing"} => \A i \in 1 .. Len(j.fetch) :
       \/ ToStore(j.es[j.fetch[i]], j.got)
       \/ j.pc = "settle" /\ j.es[j.fetch[i]] = BatchAt(p)
  /\ j.pc = "settle" /\ Answer(p) = Nothing => Gone(BatchAt(p))

TaskOK(k) ==
  /\ DOMAIN k = {"e", "v", "at", "by"}
  /\ Allocated(k.e) /\ ~Open(k.e) /\ ~InFetch(k.e)

TruthOK == changes \in Nat /\ truth \in [Players -> [Types -> UpTo(changes)]]

GoTyped ==
  /\ DOMAIN go = Callers
  /\ \A p \in Callers : DOMAIN go[p] = Providers /\ \A v \in Providers : DOMAIN go[p][v] = {"at", "got"}

FeedInv ==
  /\ TruthOK /\ GoTyped /\ (\A e \in Entries : FeedOK(e)) /\ (\A k \in tasks : TaskOK(k))
  /\ \A p \in Callers : FetchOK(p) /\ BatchOK(p)

Newer == \A e \in Entries, t \in Types : InOrder(ent[e].data[t], ent'[e].data[t])

(* What a step may do to an entry it does not fetch for.                     *)
Mild(e) ==
  /\ ent[e].player # NoPlayer => ent'[e].player = ent[e].player
  /\ Sorted(ent'[e], changes')
  /\ Blank(e) /\ (Open(e) \/ InFetch(e)) => Blank(e)'
  /\ Open(e)' => Open(e) \/ (ent[e].player = NoPlayer /\ Blank(e)')
  /\ \A t \in Types : InOrder(ent[e].data[t], ent'[e].data[t])

(* What the backend may do.                                                  *)
Onward ==
  /\ changes \in Nat /\ changes' \in Nat /\ changes <= changes'
  /\ \A pl \in Players : \A t \in Types : truth[pl][t] = NoData => truth'[pl][t] = NoData

LEMMA Wider == ASSUME Onward PROVE \A g : g \in [Types -> UpTo(changes)] => g \in [Types -> UpTo(changes')]
<1>1. UpTo(changes) \subseteq UpTo(changes')
  BY DEF Onward, UpTo
<1> QED BY <1>1

LEMMA StaysGone ==
  ASSUME Onward, NEW e \in Entries, FeedOK(e), Gone(e), ent'[e].player = ent[e].player
  PROVE  Gone(e)'
<1>1. ent[e].player \in Players
  BY DEF FeedOK, Sorted, Gone
<1>2. \A t \in Served : t \in Types
  BY DEF Served
<1> QED BY <1>1, <1>2 DEF Onward, Gone, Served

LEMMA StaysTimely ==
  ASSUME Onward, NEW e \in Entries, FeedOK(e), Allocated(e), Mild(e), Open(e) \/ InFetch(e), NEW got, Timely(e, got)
  PROVE  Timely(e, got)'
  BY Wider, StaysGone DEF Timely, Mild, Allocated

LEMMA EntryKept ==
  ASSUME Onward, NEW e \in Entries, FeedOK(e), Mild(e), InFetch(e) => InFetch(e)'
  PROVE  FeedOK(e)'
<1>1. ASSUME Open(e)', ~InFetch(e)' PROVE Blank(e)' \/ Gone(e)'
  <2>1. CASE ent[e].player = NoPlayer /\ Blank(e)'
    BY <2>1
  <2>2. CASE Open(e)
    <3>1. Blank(e) \/ Gone(e)
      BY <1>1, <2>2 DEF FeedOK
    <3>2. Blank(e) => Blank(e)'
      BY <2>2 DEF Mild
    <3>3. Gone(e) => Gone(e)'
      BY StaysGone DEF Mild, Gone
    <3> QED BY <3>1, <3>2, <3>3
  <2> QED BY <1>1, <2>1, <2>2 DEF Mild
<1>2. Sorted(ent[e], changes)'
  BY DEF Mild
<1> QED BY <1>1, <1>2 DEF FeedOK

(* The entries a caller has at hand.                                         *)
LEMMA AtHand ==
  ASSUME Inv, NEW p \in Callers
  PROVE  /\ job[p].pc = "fetch" => At(p) \in Entries /\ Allocated(At(p)) /\ ent[At(p)].mu = p
         /\ job[p].pc \in {"apply", "settle", "subscribing", "batch"} =>
              \A i \in 1 .. Len(job[p].fetch) :
                LET e == job[p].es[job[p].fetch[i]] IN e \in Entries /\ Allocated(e) /\ ent[e].mu = p
<1>1. PICK j : j = job[p] /\ VarsOK(j) /\ LocksOK(p, j)
  BY DEF Inv, CallerOK
<1>2. j.pc = "fetch" => Allocated(At(p)) /\ ent[At(p)].mu = p
  BY <1>1, AtAllocated DEF LocksOK, At
<1>3. ASSUME j.pc \in {"apply", "settle", "subscribing", "batch"}, NEW i \in 1 .. Len(j.fetch)
      PROVE  LET e == j.es[j.fetch[i]] IN Allocated(e) /\ ent[e].mu = p
  BY <1>1, <1>3 DEF VarsOK, LocksOK
<1> QED BY <1>1, <1>2, <1>3 DEF Allocated

(* Who fetches an entry has its lock.                                        *)
LEMMA FetcherLocks ==
  ASSUME Inv, NEW p, NEW e, FetchingOf(p, e)
  PROVE  p \in Callers /\ e \in Entries /\ Allocated(e) /\ ent[e].mu = p
<1>1. CASE job[p].pc = "fetch"
  BY <1>1, AtHand DEF FetchingOf
<1>2. CASE job[p].pc = "settle"
  BY <1>2, BatchAtLocked DEF FetchingOf
<1> QED BY <1>1, <1>2 DEF FetchingOf

LEMMA FetchKept ==
  ASSUME Inv, Onward, NEW p \in Callers, FetchOK(p), job'[p] = job[p], go'[p] = go[p],
         job[p].pc = "fetch" => Mild(At(p)) /\ FeedOK(At(p))
  PROVE  FetchOK(p)'
<1>1. CASE job[p].pc # "fetch"
  BY <1>1 DEF FetchOK
<1>2. CASE job[p].pc = "fetch"
  <2> PICK e : e = At(p)
    OBVIOUS
  <2> PICK j : j = job[p]
    OBVIOUS
  <2>0. e \in Entries /\ Allocated(e) /\ Mild(e) /\ FeedOK(e)
    BY <1>2, AtHand
  <2>1. e \in Entries /\ Allocated(e) /\ Mild(e) /\ FeedOK(e) /\ ent'[e].player = ent[e].player
    BY <2>0 DEF Mild, Allocated
  <2>2. At(p)' = e /\ job'[p] = j
    BY DEF At
  <2>f. InFetch(e)
    BY <1>2 DEF InFetch, FetchingOf
  <2>3. (Blank(e) => Blank(e)') /\ (Gone(e) => Gone(e)') /\ \A g : Timely(e, g) => Timely(e, g)'
    BY <2>1, <2>f, StaysGone, StaysTimely DEF Mild
  <2>4. (j.any \/ Blank(e) \/ Gone(e)) /\ \A v \in Providers : GoOK(go[p][v], v, j, e)
    BY <1>2 DEF FetchOK
  <2>5. ASSUME NEW g, NEW v, GoOK(g, v, j, e) PROVE GoOK(g, v, j, e)'
    BY <2>3, <2>5 DEF GoOK
  <2>6. \A v \in Providers : GoOK(go[p][v], v, j, e)'
    BY <2>4, <2>5
  <2> QED BY <1>2, <2>2, <2>3, <2>4, <2>6 DEF FetchOK, GoOK, Timely
<1> QED BY <1>1, <1>2

(* The entries of a batch after a step that leaves its caller's list alone.  *)
LEMMA BatchKept ==
  ASSUME Inv, Onward, NEW p \in Callers, BatchOK(p), job'[p] = job[p], \A e \in Entries : FeedOK(e),
         \A i \in 1 .. Len(job[p].fetch) :
           job[p].pc \in {"apply", "settle", "subscribing"} => Mild(job[p].es[job[p].fetch[i]])
  PROVE  BatchOK(p)'
<1> PICK j : j = job[p]
  OBVIOUS
<1>1. ASSUME j.pc \in {"apply", "settle", "subscribing"}, NEW i \in 1 .. Len(j.fetch),
             NEW e, e = j.es[j.fetch[i]], ToStore(e, j.got)
      PROVE  ToStore(e, j.got)'
  <2>0. e \in Entries /\ Allocated(e) /\ Mild(e) /\ FeedOK(e) /\ ToStore(e, j.got)
    BY <1>1, AtHand DEF BatchOK
  <2>1. ent'[e].player = ent[e].player /\ (Open(e)' => Open(e))
    BY <1>1, <2>0 DEF Mild, Allocated
  <2> PICK g : g = j.got[ent[e].player]
    OBVIOUS
  <2>2. Open(e) => Timely(e, g)
    BY <2>0 DEF ToStore
  <2>3. Open(e)' => Timely(e, g)'
    BY <2>0, <2>1, <2>2, StaysTimely
  <2> QED BY <2>1, <2>3 DEF ToStore, Timely, Open, Blank, Gone
<1>2. BatchAt(p)' = BatchAt(p) /\ job'[p] = j
  BY DEF BatchAt
<1>3. j.pc \in {"apply", "settle", "subscribing"} => \A i \in 1 .. Len(j.fetch) :
        \/ ToStore(j.es[j.fetch[i]], j.got)'
        \/ j.pc = "settle" /\ j.es[j.fetch[i]] = BatchAt(p)
  BY <1>1 DEF BatchOK
<1>4. ASSUME j.pc = "settle", Answer(p)' = Nothing PROVE Gone(BatchAt(p))'
  <2>1. PICK e : e = BatchAt(p) /\ e \in Entries /\ Allocated(e) /\ FeedOK(e)
    BY <1>4, BatchAtLocked
  <2>2. Mild(e)
    <3>1. VarsOK(j)
      BY DEF Inv, CallerOK
    <3>2. j.k \in 1 .. Len(j.fetch)
      BY <1>4, <3>1 DEF VarsOK
    <3> QED BY <1>4, <2>1, <3>2 DEF BatchAt
  <2>3. ent'[e].player = ent[e].player
    BY <2>1, <2>2 DEF Mild, Allocated
  <2>4. Answer(p) = Nothing
    BY <1>2, <1>4, <2>1, <2>3 DEF Answer
  <2>5. Gone(e)
    BY <1>4, <2>1, <2>4 DEF BatchOK
  <2> QED BY <1>2, <2>1, <2>3, <2>5, StaysGone DEF Gone
<1> QED BY <1>2, <1>3, <1>4 DEF BatchOK

(* One caller, or none, makes a step: it may be the fetch of an entry x that *)
(* the caller has the lock of or takes it, and all else happens to entries   *)
(* any goroutine may do it to.                                               *)
OwnStep(p, x) ==
  /\ Allocated(x) /\ ent[x].mu \in {p, NoCaller} /\ (Open(x) \/ InFetch(x))
  /\ FeedOK(x)' /\ \A t \in Types : InOrder(ent[x].data[t], ent'[x].data[t])

OneStep(p, x) ==
  /\ TruthOK' /\ Onward /\ GoTyped'
  /\ \A q \in Callers \ {p} : job'[q] = job[q] /\ go'[q] = go[q]
  /\ \A e \in Entries \ {x} : Mild(e) /\ (FetchingOf(p, e)' <=> FetchingOf(p, e))
  /\ x \in Entries => OwnStep(p, x)
  /\ p \in Callers => FetchOK(p)' /\ BatchOK(p)'
  /\ \A k \in tasks' : k \in tasks \/ TaskOK(k)'

LEMMA OneStepKeeps ==
  ASSUME Inv, FeedInv, NEW p \in Callers \cup {NoCaller}, NEW x, OneStep(p, x)
  PROVE  FeedInv' /\ Newer
<1>1. ASSUME NEW e \in Entries \ {x} PROVE InFetch(e)' <=> InFetch(e)
  <2>1. \A q \in Callers : FetchingOf(q, e)' <=> FetchingOf(q, e)
    BY <1>1 DEF OneStep, FetchingOf, At, BatchAt
  <2> QED BY <2>1 DEF InFetch
<1>2. ASSUME NEW e \in Entries PROVE FeedOK(e)' /\ \A t \in Types : InOrder(ent[e].data[t], ent'[e].data[t])
  <2>1. CASE e = x
    BY <2>1 DEF OneStep, OwnStep
  <2>2. CASE e # x
    BY <1>1, <2>2, EntryKept DEF OneStep, FeedInv, Mild
  <2> QED BY <2>1, <2>2
<1>3. ASSUME NEW q \in Callers, q # p PROVE FetchOK(q)' /\ BatchOK(q)'
  <2>1. job'[q] = job[q] /\ go'[q] = go[q] /\ Onward /\ FetchOK(q) /\ BatchOK(q)
    BY <1>3 DEF OneStep, FeedInv
  <2>2. \A e \in Entries : ent[e].mu = q => Mild(e) /\ FeedOK(e)
    BY <1>3, NamesAssumption DEF OneStep, OwnStep, FeedInv
  <2>3. FetchOK(q)'
    BY <2>1, <2>2, AtHand, FetchKept
  <2>4. BatchOK(q)'
    <3>1. \A i \in 1 .. Len(job[q].fetch) :
            job[q].pc \in {"apply", "settle", "subscribing"} => Mild(job[q].es[job[q].fetch[i]])
      BY <2>2, AtHand
    <3>2. \A e \in Entries : FeedOK(e)
      BY DEF FeedInv
    <3> QED BY <2>1, <3>1, <3>2, BatchKept
  <2> QED BY <2>3, <2>4
<1>4. ASSUME NEW k \in tasks PROVE TaskOK(k)'
  <2> PICK e : e = k.e
    OBVIOUS
  <2>1. DOMAIN k = {"e", "v", "at", "by"} /\ Allocated(e) /\ e \in Entries /\ ~Open(e) /\ ~InFetch(e)
    BY DEF FeedInv, TaskOK, Allocated
  <2>2. e # x
    BY <2>1 DEF OneStep, OwnStep
  <2>3. Mild(e) /\ ~InFetch(e)'
    BY <1>1, <2>1, <2>2 DEF OneStep
  <2>4. Allocated(e)' /\ ~Open(e)'
    BY <2>1, <2>3 DEF Mild, Allocated
  <2> QED BY <2>1, <2>3, <2>4 DEF TaskOK, Allocated, Open, InFetch
<1> QED BY <1>2, <1>3, <1>4 DEF FeedInv, Newer, OneStep

-----------------------------------------------------------------------------
(* What happens to an entry.                                                 *)

LEMMA InOrderSame == ASSUME NEW n \in Nat, NEW a \in UpTo(n) PROVE InOrder(a, a)
  BY DEF UpTo, InOrder

LEMMA MildSame ==
  ASSUME NEW e \in Entries, FeedOK(e), changes \in Nat, changes' = changes,
         ent'[e].player = ent[e].player, ent'[e].data = ent[e].data, ent'[e].queue = ent[e].queue,
         \/ ent'[e].live = ent[e].live /\ ent'[e].listed = ent[e].listed
         \/ ent'[e].live = ent[e].live - ent[e].listed /\ ent'[e].listed = 0
         \/ ~(Open(e) \/ InFetch(e)) /\ ent'[e].live \in Int /\ ent'[e].listed \in Int,
         Open(e)' => Open(e)
  PROVE  Mild(e)
<1>1. Sorted(ent[e], changes)
  BY DEF FeedOK
<1>2. ent'[e].live \in Int /\ ent'[e].listed \in Int
  BY <1>1 DEF Sorted
<1>3. Sorted(ent'[e], changes')
  BY <1>1, <1>2 DEF Sorted
<1>4. Blank(e) /\ (Open(e) \/ InFetch(e)) => Blank(e)'
  BY DEF Blank
<1>5. \A t \in Types : InOrder(ent[e].data[t], ent'[e].data[t])
  <2>1. ent[e].data \in [Types -> UpTo(changes)]
    BY <1>1 DEF Sorted
  <2> QED BY <2>1, InOrderSame
<1> QED BY <1>3, <1>4, <1>5 DEF Mild

(* A step to which no entry matters.                                         *)
Still ==
  /\ UNCHANGED <<truth, changes>>
  /\ \A e \in Entries :
       /\ ent'[e].player = ent[e].player /\ ent'[e].data = ent[e].data /\ ent'[e].queue = ent[e].queue
       /\ \/ ent'[e].live = ent[e].live /\ ent'[e].listed = ent[e].listed
          \/ ent'[e].live = ent[e].live - ent[e].listed /\ ent'[e].listed = 0
       /\ Open(e)' => Open(e)

LEMMA StillIsMild == ASSUME FeedInv, Still PROVE TruthOK' /\ Onward /\ \A e \in Entries : Mild(e)
<1>1. changes \in Nat /\ changes' = changes /\ TruthOK' /\ Onward
  BY DEF FeedInv, TruthOK, Onward, Still
<1>2. ASSUME NEW e \in Entries PROVE Mild(e)
  BY <1>1, <1>2, MildSame DEF FeedInv, Still
<1> QED BY <1>1, <1>2

-----------------------------------------------------------------------------
(* Steps of a caller that fetches nothing.                                   *)

LEMMA CallerMoves ==
  ASSUME Inv, FeedInv, NEW p \in Callers, TruthOK', Onward, \A e \in Entries : Mild(e),
         go' = go, tasks' = tasks, NEW n, job' = [job EXCEPT ![p] = n], job[p].pc \notin {"fetch", "settle"},
         n.pc \notin {"fetch", "batch", "apply", "settle", "subscribing"}, n.v = 1,
         n.pc # "idle" => n.type \in Types,
         n.pc = "lockAll" => 1 \in 1 .. Len(ProvidersOf[n.type])
  PROVE  FeedInv' /\ Newer
<1>1. job'[p] = n /\ \A q \in Callers \ {p} : job'[q] = job[q]
  BY DEF Inv
<1>2. FetchOK(p)'
  BY <1>1 DEF FeedInv, FetchOK
<1>3. BatchOK(p)'
  BY <1>1 DEF BatchOK
<1>4. GoTyped'
  BY DEF FeedInv, GoTyped
<1>5. \A e \in Entries \ {NoEntry} : FetchingOf(p, e)' <=> FetchingOf(p, e)
  BY <1>1 DEF FetchingOf
<1>6. OneStep(p, NoEntry)
  BY <1>1, <1>2, <1>3, <1>4, <1>5, NamesAssumption DEF OneStep
<1> QED BY <1>6, OneStepKeeps

(* Its local variables before the step.                                      *)
LEMMA CallerVars ==
  ASSUME Inv, FeedInv, NEW p \in Callers
  PROVE  \E j : /\ j = job[p] /\ VarsOK(j) /\ LocksOK(p, j) /\ DOMAIN j = JobFields
                /\ j.pc # "idle" => j.type \in Types
                /\ j.pc \notin {"batch", "apply", "settle", "subscribing"} => j.v = 1
                /\ DOMAIN job = Callers
<1>1. VarsOK(job[p]) /\ LocksOK(p, job[p]) /\ BatchOK(p) /\ DOMAIN job = Callers
  BY DEF Inv, CallerOK, FeedInv
<1> QED BY <1>1 DEF BatchOK, VarsOK

LEMMA StillEntries ==
  ASSUME FeedInv, ent' = ent, UNCHANGED <<truth, changes>>
  PROVE  TruthOK' /\ Onward /\ \A e \in Entries : Mild(e)
<1>1. Still
  BY DEF Still, Open
<1> QED BY <1>1, StillIsMild

LEMMA CallFeed ==
  ASSUME Inv, FeedInv, NEW p \in Callers, CallAny(p)
  PROVE  FeedInv' /\ Newer
<1>0. PICK t \in Types : \E ids, many : Call(p, ids, many, t)
  BY DEF CallAny
<1>1. PICK ids, many : Call(p, ids, many, t)
  BY <1>0
<1>2. PICK n : /\ n = [NoJob EXCEPT !.pc = "entry", !.type = t, !.ids = ids, !.many = many]
               /\ job' = [job EXCEPT ![p] = n]
  BY <1>1 DEF Call
<1>3. n.pc = "entry" /\ n.v = 1 /\ n.type \in Types
  BY <1>2 DEF NoJob
<1>4. TruthOK' /\ Onward /\ \A e \in Entries : Mild(e)
  BY <1>1, StillEntries DEF Call, cacheVars, backend
<1> QED BY <1>1, <1>2, <1>3, <1>4, CallerMoves DEF Call

LEMMA GotoFeed ==
  ASSUME Inv, FeedInv, NEW p \in Callers, TruthOK', Onward, \A e \in Entries : Mild(e),
         go' = go, tasks' = tasks, job[p].pc \in {"processing", "status", "retry", "lock"},
         NEW l \in {"status", "retry", "lock", "check"}, Goto(p, l)
  PROVE  FeedInv' /\ Newer
<1>1. PICK j : /\ j = job[p] /\ DOMAIN j = JobFields /\ j.v = 1 /\ j.type \in Types
  BY CallerVars
<1>2. PICK n : n = [j EXCEPT !.pc = l] /\ job' = [job EXCEPT ![p] = n]
  BY <1>1 DEF Goto
<1>3. n.pc = l /\ n.v = 1 /\ n.type \in Types
  BY <1>1, <1>2 DEF JobFields
<1> QED BY <1>2, <1>3, CallerMoves

LEMMA LookFeed ==
  ASSUME Inv, FeedInv, NEW p \in Callers, ReadStatus(p) \/ ProcessedInline(p) \/ ResetError(p)
  PROVE  FeedInv' /\ Newer
<1>1. Still
  <2>1. CASE ReadStatus(p) \/ ProcessedInline(p)
    BY <2>1 DEF ReadStatus, ProcessedInline, Still, Open, cacheVars, backend
  <2>2. CASE ResetError(p)
    BY <2>2 DEF ResetError, Still, Open, backend, Inv, EntriesOK, EntryFields
  <2> QED BY <2>1, <2>2
<1>2. TruthOK' /\ Onward /\ \A e \in Entries : Mild(e)
  BY <1>1, StillIsMild
<1>3. go' = go /\ tasks' = tasks /\ job[p].pc \in {"processing", "status", "retry", "lock"}
  BY DEF ReadStatus, ProcessedInline, ResetError
<1>4. \E l \in {"status", "retry", "lock", "check"} : Goto(p, l)
  BY DEF ReadStatus, ProcessedInline, ResetError
<1> QED BY <1>2, <1>3, <1>4, GotoFeed

LEMMA FoundFeed ==
  ASSUME Inv, FeedInv, NEW p \in Callers, FoundEntry(p)
  PROVE  FeedInv' /\ Newer
<1>1. PICK j : /\ j = job[p] /\ DOMAIN j = JobFields /\ j.v = 1 /\ j.type \in Types /\ j.pc = "entry"
               /\ DOMAIN job = Callers
  BY CallerVars DEF FoundEntry
<1>2. PICK e : job' = [job EXCEPT ![p].es = Append(@, e), ![p].pc = "status"]
  BY DEF FoundEntry
<1>3. PICK n : n = [j EXCEPT !.es = Append(@, e), !.pc = "status"] /\ job' = [job EXCEPT ![p] = n]
  BY <1>1, <1>2
<1>4. n.pc = "status" /\ n.v = 1 /\ n.type \in Types
  BY <1>1, <1>3 DEF JobFields
<1>5. TruthOK' /\ Onward /\ \A x \in Entries : Mild(x)
  BY StillEntries DEF FoundEntry, cacheVars, backend
<1>6. UNCHANGED <<go, tasks>>
  BY DEF FoundEntry
<1> QED BY <1>1, <1>3, <1>4, <1>5, <1>6, CallerMoves

LEMMA CreateFeed ==
  ASSUME Inv, FeedInv, NEW p \in Callers, NEW e \in Entries, CreateEntry(p, e)
  PROVE  FeedInv' /\ Newer
<1>1. PICK j : /\ j = job[p] /\ DOMAIN j = JobFields /\ j.v = 1 /\ j.type \in Types /\ j.pc = "entry"
               /\ DOMAIN job = Callers /\ VarsOK(j)
  BY CallerVars DEF CreateEntry
<1>2. PICK pl : pl = j.ids[j.k] /\ pl \in Players
  BY <1>1 DEF VarsOK
<1>3. PICK new : /\ ent' = [ent EXCEPT ![e] = new] /\ new.player = pl /\ new.status = "pending"
                 /\ new.data = Nothing /\ new.live = 0 /\ new.listed = 0 /\ new.queue = <<>>
  <2>1. PICK proc : ent' = [ent EXCEPT ![e] = [NewEntry(pl) EXCEPT !.proc = proc]]
    BY <1>1, <1>2 DEF CreateEntry
  <2>2. PICK new : new = [NewEntry(pl) EXCEPT !.proc = proc]
    OBVIOUS
  <2>3. /\ new.player = pl /\ new.status = "pending"
        /\ new.data = Nothing /\ new.live = 0 /\ new.listed = 0 /\ new.queue = <<>>
    BY <2>2 DEF NewEntry
  <2> QED BY <2>1, <2>2, <2>3
<1>4. ent[e].player = NoPlayer /\ DOMAIN ent = Entries /\ UNCHANGED <<truth, changes, go, tasks>>
  BY DEF CreateEntry, Free, Inv, EntriesOK, backend
<1>5. ent'[e] = new /\ \A x \in Entries : x # e => ent'[x] = ent[x]
  BY <1>3, <1>4
<1>6. TruthOK' /\ Onward /\ changes \in Nat /\ changes' = changes
  BY <1>4 DEF FeedInv, TruthOK, Onward
<1>7. \A x \in Entries : x # e => Mild(x)
  <2> SUFFICES ASSUME NEW x \in Entries, x # e PROVE Mild(x)
    OBVIOUS
  <2>1. ent'[x] = ent[x] /\ FeedOK(x)
    BY <1>5 DEF FeedInv
  <2>2. Open(x)' => Open(x)
    BY <2>1 DEF Open
  <2> QED BY <1>6, <2>1, <2>2, MildSame
<1>8. Mild(e)
  <2>1. Nothing \in [Types -> UpTo(changes)] /\ \A t \in Types : Nothing[t] = NoData
    BY DEF Nothing, UpTo
  <2>2. Sorted(new, changes)
    <3>1. Len(<<>>) = 0 /\ \A S : <<>> \in Seq(S)
      OBVIOUS
    <3> QED BY <1>2, <1>3, <2>1, <3>1 DEF Sorted
  <2>3. Blank(e)'
    BY <1>3, <1>5 DEF Blank
  <2>4. \A t \in Types : InOrder(ent[e].data[t], new.data[t])
    BY <1>3, <2>1 DEF InOrder
  <2> QED BY <1>4, <1>5, <1>6, <2>2, <2>3, <2>4 DEF Mild
<1>9. PICK l \in {"processing", "status"} : job' = [job EXCEPT ![p].es = Append(@, e), ![p].pc = l]
  BY DEF CreateEntry
<1>10. PICK n : n = [j EXCEPT !.es = Append(@, e), !.pc = l] /\ job' = [job EXCEPT ![p] = n]
  <2>1. job' = [job EXCEPT ![p] = [job[p] EXCEPT !.es = Append(@, e), !.pc = l]]
    BY <1>1, <1>9
  <2> QED BY <1>1, <2>1
<1>11. n.pc = l /\ n.v = 1 /\ n.type \in Types
  BY <1>1, <1>10 DEF JobFields
<1> QED BY <1>1, <1>4, <1>6, <1>7, <1>8, <1>10, <1>11, CallerMoves

LEMMA CheckFeed ==
  ASSUME Inv, FeedInv, NEW p \in Callers, Check(p)
  PROVE  FeedInv' /\ Newer
<1>1. Still
  BY DEF Check, Still, Open, backend, Inv, EntriesOK, EntryFields
<1>2. PICK n : n = NoJob /\ job' = [job EXCEPT ![p] = n]
  BY DEF Check
<1>3. n.pc = "idle" /\ n.v = 1
  BY <1>2 DEF NoJob
<1> QED BY <1>1, <1>2, <1>3, StillIsMild, CallerMoves DEF Check

LEMMA PassFeed ==
  ASSUME Inv, FeedInv, NEW p \in Callers, ReadStatusMany(p)
  PROVE  FeedInv' /\ Newer
<1>1. Still
  BY DEF ReadStatusMany, Still, Open, backend, Inv, EntriesOK, EntryFields
<1>2. PICK j : /\ j = job[p] /\ DOMAIN j = JobFields /\ j.v = 1 /\ j.type \in Types /\ j.pc = "status"
  BY CallerVars DEF ReadStatusMany
<1>3. PICK k : /\ k = IF ent[At(p)].status = "pending" THEN [j EXCEPT !.fetch = Append(@, j.k)] ELSE j
               /\ job' = [job EXCEPT ![p] = AfterPass(k)]
  BY <1>2 DEF ReadStatusMany
<1>4. DOMAIN k = JobFields /\ k.v = 1 /\ k.type = j.type
  BY <1>2, <1>3 DEF JobFields
<1>5. PICK n : n = AfterPass(k) /\ job' = [job EXCEPT ![p] = n]
  BY <1>3
<1>6. \/ n = NoJob
      \/ n = [k EXCEPT !.k = @ + 1, !.pc = "entry"]
      \/ n = [k EXCEPT !.k = 1, !.pc = "lockAll"] /\ ProvidersOf[k.type] # <<>>
  BY <1>5 DEF AfterPass
<1>7. /\ n.pc \in {"idle", "entry", "lockAll"} /\ n.v = 1
      /\ n.pc # "idle" => n.type = j.type
      /\ n.pc = "lockAll" => ProvidersOf[j.type] # <<>>
  <2>1. CASE n = NoJob
    BY <2>1 DEF NoJob
  <2>2. CASE n = [k EXCEPT !.k = @ + 1, !.pc = "entry"]
    BY <1>4, <2>2 DEF JobFields
  <2>3. CASE n = [k EXCEPT !.k = 1, !.pc = "lockAll"] /\ ProvidersOf[k.type] # <<>>
    BY <1>4, <2>3 DEF JobFields
  <2> QED BY <1>6, <2>1, <2>2, <2>3
<1>8. \A q \in Seq(Providers) : q # <<>> => 1 \in 1 .. Len(q)
  OBVIOUS
<1>9. ProvidersOf[j.type] \in Seq(Providers)
  BY <1>2, ProvidersAssumption
<1>a. n.pc = "lockAll" => 1 \in 1 .. Len(ProvidersOf[j.type])
  BY <1>7, <1>8, <1>9
<1> QED BY <1>1, <1>2, <1>5, <1>7, <1>a, StillIsMild, CallerMoves DEF ReadStatusMany

-----------------------------------------------------------------------------
(* One fetch: the lock, the goroutine of the provider, the end.              *)

LEMMA FetchGoes ==
  ASSUME NEW p \in Callers, NEW e, NEW n, NEW gs, job'[p] = n, At(p)' = e, go'[p] = gs, n.pc = "fetch",
         n.any \/ Blank(e)' \/ Gone(e)', \A v \in Providers : GoOK(gs[v], v, n, e)'
  PROVE  FetchOK(p)'
  BY DEF FetchOK, GoOK, Timely

LEMMA LockFeed ==
  ASSUME Inv, FeedInv, NEW p \in Callers, Lock(p)
  PROVE  FeedInv' /\ Newer
<1> PICK e : e = At(p)
  OBVIOUS
<1> PICK asked : asked = ToSet(ProvidersOf[job[p].type])
  OBVIOUS
<1>1. /\ job[p].pc = "lock" /\ ent[e].mu = NoCaller /\ Allocated(e) /\ e \in Entries
      /\ UNCHANGED <<tasks, truth, changes>>
  BY AtAllocated DEF Lock, Allocated, backend
<1>2. CASE ~(StillPending(e) /\ asked # {})
  <2>1. /\ \/ ent' = ent
           \/ ent[e].status = "pending" /\ ent' = [ent EXCEPT ![e].status = "error", ![e].errorAt = now]
        /\ Goto(p, "check") /\ go' = go
    BY <1>2 DEF Lock, StillPending
  <2>2. Still
    BY <1>1, <2>1 DEF Still, Open, Inv, EntriesOK, EntryFields
  <2> QED BY <1>1, <2>1, <2>2, StillIsMild, GotoFeed
<1>3. CASE StillPending(e) /\ asked # {}
  <2>1. /\ ent' = [ent EXCEPT ![e].mu = p] /\ ent[e].status = "pending"
        /\ go' = [go EXCEPT ![p] = [v \in Providers |-> [NoGo EXCEPT !.at = IF v \in asked THEN "fetch" ELSE "done"]]]
        /\ job' = [job EXCEPT ![p].pc = "fetch", ![p].any = FALSE]
    BY <1>3 DEF Lock, StillPending
  <2>2. Still
    BY <1>1, <2>1 DEF Still, Open, Inv, EntriesOK, EntryFields
  <2>3. TruthOK' /\ Onward /\ \A x \in Entries : Mild(x)
    BY <2>2, StillIsMild
  <2>4. PICK j : /\ j = job[p] /\ DOMAIN j = JobFields /\ j.v = 1 /\ j.type \in Types
                 /\ DOMAIN job = Callers
    BY <1>1, CallerVars
  <2>5. PICK n : n = [j EXCEPT !.pc = "fetch", !.any = FALSE] /\ job' = [job EXCEPT ![p] = n]
    <3>1. job' = [job EXCEPT ![p] = [job[p] EXCEPT !.pc = "fetch", !.any = FALSE]]
      BY <2>1, <2>4
    <3> QED BY <2>4, <3>1
  <2>6. n.pc = "fetch" /\ n.v = 1 /\ n.type = j.type /\ n.k = j.k /\ n.es = j.es
    BY <2>4, <2>5 DEF JobFields
  <2>7. job'[p] = n /\ At(p)' = e /\ \A q \in Callers \ {p} : job'[q] = job[q]
    BY <2>4, <2>5, <2>6 DEF At
  <2>8. ~InFetch(e) /\ (Blank(e) \/ Gone(e))
    <3>1. ~InFetch(e)
      BY <1>1, FetcherLocks, NamesAssumption DEF InFetch
    <3> QED BY <1>1, <2>1, <3>1 DEF FeedInv, FeedOK, Open
  <2>9. Blank(e)' \/ Gone(e)'
    <3>1. Gone(e) => Gone(e)'
      BY <1>1, <2>3, StaysGone DEF FeedInv, Mild, Allocated
    <3> QED BY <1>1, <2>1, <2>3, <2>8, <3>1 DEF Mild, Open
  <2>10. /\ GoTyped' /\ \A q \in Callers \ {p} : go'[q] = go[q]
         /\ \A v \in Providers : go'[p][v].at = IF v \in asked THEN "fetch" ELSE "done"
    <3>1. \A v \in Providers : LET g == [NoGo EXCEPT !.at = IF v \in asked THEN "fetch" ELSE "done"] IN
            DOMAIN g = {"at", "got"} /\ g.at = IF v \in asked THEN "fetch" ELSE "done"
      BY DEF NoGo
    <3>2. DOMAIN go = Callers
      BY DEF FeedInv, GoTyped
    <3>3. go'[p] = [v \in Providers |-> [NoGo EXCEPT !.at = IF v \in asked THEN "fetch" ELSE "done"]]
      BY <2>1, <3>2
    <3>4. DOMAIN go'[p] = Providers /\ \A v \in Providers : DOMAIN go'[p][v] = {"at", "got"}
      BY <3>1, <3>3
    <3>5. \A q \in Callers \ {p} : go'[q] = go[q]
      BY <2>1, <3>2
    <3>6. GoTyped'
      BY <2>1, <3>2, <3>4, <3>5 DEF FeedInv, GoTyped
    <3> QED BY <3>1, <3>3, <3>5, <3>6
  <2>11. FetchOK(p)'
    <3> PICK gs : gs = go'[p]
      OBVIOUS
    <3>1. \A v \in Providers : GoOK(gs[v], v, n, e)'
      <4> SUFFICES ASSUME NEW v \in Providers, NEW g, g = gs[v] PROVE GoOK(g, v, n, e)'
        OBVIOUS
      <4>1. g.at \in {"fetch", "done"} /\ (g.at = "fetch" => v \in asked)
        BY <2>10
      <4>2. asked = ToSet(ProvidersOf[n.type])
        BY <2>4, <2>6
      <4> QED BY <2>9, <4>1, <4>2 DEF GoOK
    <3> QED BY <2>6, <2>7, <2>9, <3>1, FetchGoes
  <2>12. BatchOK(p)'
    BY <2>4, <2>6, <2>7 DEF BatchOK
  <2>13. OwnStep(p, e)
    <3>1. InFetch(e)'
      BY <2>6, <2>7 DEF InFetch, FetchingOf
    <3>2. FeedOK(e)'
      BY <1>1, <2>3, <3>1, EntryKept DEF FeedInv
    <3> QED BY <1>1, <2>1, <2>3, <3>2 DEF OwnStep, Open, Mild
  <2>14. \A x \in Entries \ {e} : FetchingOf(p, x)' <=> FetchingOf(p, x)
    BY <1>1, <2>6, <2>7 DEF FetchingOf
  <2>15. OneStep(p, e)
    BY <1>1, <2>3, <2>7, <2>10, <2>11, <2>12, <2>13, <2>14 DEF OneStep
  <2> QED BY <2>15, OneStepKeeps
<1> QED BY <1>2, <1>3

LEMMA GoKept ==
  ASSUME Onward, NEW e \in Entries, FeedOK(e), Allocated(e), Mild(e), InFetch(e), NEW g, NEW v, NEW j, GoOK(g, v, j, e)
  PROVE  GoOK(g, v, j, e)'
<1>1. (Blank(e) => Blank(e)') /\ (Gone(e) => Gone(e)') /\ \A h : Timely(e, h) => Timely(e, h)'
  BY StaysGone, StaysTimely DEF Mild, Allocated
<1> QED BY <1>1 DEF GoOK

(* What a backend answers now is neither older than the entry nor empty for  *)
(* a player who still has components.                                        *)
LEMMA AnswerTimely ==
  ASSUME SingleSource, "empty" \notin Faults, FeedInv, NEW e \in Entries, Allocated(e), Blank(e) \/ Gone(e),
         NEW t0 \in Types, NEW v \in ToSet(ProvidersOf[t0]), NEW got \in Answers(v, ent[e].player)
  PROVE  Timely(e, got)
<1> PICK pl : pl = ent[e].player
  OBVIOUS
<1>1. pl \in Players /\ pl # NoPlayer
  BY DEF FeedInv, FeedOK, Sorted, Allocated
<1>2. truth[pl] \in [Types -> UpTo(changes)] /\ NoData \in UpTo(changes)
  BY <1>1 DEF FeedInv, TruthOK, UpTo
<1>3. \A t \in Types : t \in Serves(v) <=> t \in Served
  <2>1. PICK s : \A t \in Types : ToSet(ProvidersOf[t]) \subseteq {s}
    BY DEF SingleSource
  <2>2. v = s
    BY <2>1
  <2> QED BY <2>1, <2>2 DEF Serves, Served
<1>4. got = [t \in Types |-> IF t \in Serves(v) THEN truth[pl][t] ELSE NoData]
  BY DEF Answers
<1>5. got \in [Types -> UpTo(changes)] /\ \A t \in Types : got[t] = IF t \in Served THEN truth[pl][t] ELSE NoData
  BY <1>2, <1>3, <1>4
<1>6. Gone(e) => got = Nothing
  <2> SUFFICES ASSUME Gone(e) PROVE \A t \in Types : got[t] = NoData
    BY <1>5 DEF Nothing
  <2> QED BY <1>5 DEF Gone
<1>7. got = Nothing => Gone(e)
  <2>1. \A t \in Types : Nothing[t] = NoData
    BY DEF Nothing
  <2> QED BY <1>1, <1>5, <2>1 DEF Gone, Served
<1> QED BY <1>5, <1>6, <1>7 DEF Timely

(* A goroutine of a fetch, and the one entry it is about.                    *)
LEMMA GoAt ==
  ASSUME Inv, FeedInv, NEW p \in Callers, NEW v \in Providers, go[p][v].at # "idle"
  PROVE  /\ job[p].pc = "fetch" /\ At(p) \in Entries /\ Allocated(At(p)) /\ ent[At(p)].mu = p
         /\ FeedOK(At(p)) /\ InFetch(At(p)) /\ GoOK(go[p][v], v, job[p], At(p))
         /\ job[p].any \/ Blank(At(p)) \/ Gone(At(p))
         /\ SingleSource /\ go[p][v].at # "done" => \A u \in Providers \ {v} : go[p][u].at = "done"
         /\ DOMAIN go = Callers /\ DOMAIN go[p] = Providers /\ DOMAIN go[p][v] = {"at", "got"}
<1>1. FetchOK(p) /\ BatchOK(p)
  BY DEF FeedInv
<1>2. /\ job[p].pc = "fetch" /\ (job[p].any \/ Blank(At(p)) \/ Gone(At(p))) /\ job[p].type \in Types
      /\ \A u \in Providers : GoOK(go[p][u], u, job[p], At(p))
  BY <1>1 DEF FetchOK, BatchOK
<1>3. At(p) \in Entries /\ Allocated(At(p)) /\ ent[At(p)].mu = p /\ FeedOK(At(p)) /\ InFetch(At(p))
  BY <1>2, AtHand DEF FeedInv, InFetch, FetchingOf
<1>4. ASSUME SingleSource, go[p][v].at # "done", NEW u \in Providers \ {v} PROVE go[p][u].at = "done"
  <2>1. PICK s : \A t \in Types : ToSet(ProvidersOf[t]) \subseteq {s}
    BY <1>4 DEF SingleSource
  <2>2. v = s
    BY <1>2, <1>4, <2>1 DEF GoOK
  <2> QED BY <1>2, <1>4, <2>1, <2>2 DEF GoOK
<1> QED BY <1>2, <1>3, <1>4 DEF FeedInv, GoTyped

(* A step of a goroutine is in order when what it leaves is.                 *)
LEMMA GoSteps ==
  ASSUME Inv, FeedInv, SingleSource, NEW p \in Callers, NEW v \in Providers,
         go[p][v].at \notin {"idle", "done"},
         UNCHANGED <<tasks, truth, changes>>, NEW g, go' = [go EXCEPT ![p][v] = g], DOMAIN g = {"at", "got"},
         NEW n, DOMAIN n = JobFields, job'[p] = n, \A q \in Callers \ {p} : job'[q] = job[q],
         n.pc = "fetch", n.es = job[p].es, n.k = job[p].k, n.type = job[p].type, n.v = job[p].v,
         \A e \in Entries \ {At(p)} : ent'[e] = ent[e],
         NEW x, x = At(p), ent'[x].player = ent[x].player, Sorted(ent'[x], changes),
         \A t \in Types : InOrder(ent[x].data[t], ent'[x].data[t]),
         n.any \/ Blank(x)' \/ Gone(x)', GoOK(g, v, n, x)'
  PROVE  FeedInv' /\ Newer
<1>1. /\ job[p].pc = "fetch" /\ x \in Entries /\ Allocated(x) /\ ent[x].mu = p /\ InFetch(x)
      /\ \A u \in Providers \ {v} : go[p][u].at = "done"
      /\ DOMAIN go = Callers /\ DOMAIN go[p] = Providers
  BY GoAt
<1>2. At(p)' = x
  BY DEF At
<1>3. TruthOK' /\ Onward /\ changes \in Nat
  BY DEF FeedInv, TruthOK, Onward
<1> PICK gs : gs = go'[p]
  OBVIOUS
<1>4. gs[v] = g /\ (\A u \in Providers \ {v} : gs[u] = go[p][u]) /\ \A q \in Callers \ {p} : go'[q] = go[q]
  BY <1>1
<1>5. GoTyped'
  BY <1>1, <1>4 DEF FeedInv, GoTyped
<1>6. \A u \in Providers : GoOK(gs[u], u, n, x)'
  <2> SUFFICES ASSUME NEW u \in Providers \ {v}, NEW h, h = gs[u] PROVE GoOK(h, u, n, x)'
    BY <1>4
  <2>1. h.at = "done"
    BY <1>1, <1>4
  <2> QED BY <2>1 DEF GoOK
<1>7. FetchOK(p)'
  <2>1. job'[p] = n /\ At(p)' = x /\ go'[p] = gs /\ n.pc = "fetch" /\ (n.any \/ Blank(x)' \/ Gone(x)')
    BY <1>2
  <2> QED BY <1>6, <2>1, FetchGoes
<1>8. BatchOK(p)'
  <2>1. job[p].type \in Types /\ job[p].v = 1
    BY <1>1 DEF FeedInv, BatchOK
  <2> QED BY <2>1 DEF BatchOK
<1>9. OwnStep(p, x)
  <2>1. InFetch(x)'
    BY <1>2 DEF InFetch, FetchingOf
  <2>2. FeedOK(x)'
    BY <2>1 DEF FeedOK
  <2> QED BY <1>1, <2>2 DEF OwnStep
<1>10. \A e \in Entries \ {x} : Mild(e) /\ (FetchingOf(p, e)' <=> FetchingOf(p, e))
  <2> SUFFICES ASSUME NEW e \in Entries \ {x} PROVE Mild(e)
    BY <1>1, <1>2 DEF FetchingOf
  <2>1. ent'[e] = ent[e] /\ FeedOK(e)
    BY DEF FeedInv
  <2>2. Open(e)' => Open(e)
    BY <2>1 DEF Open
  <2> QED BY <1>3, <2>1, <2>2, MildSame
<1>11. OneStep(p, x)
  BY <1>3, <1>4, <1>5, <1>7, <1>8, <1>9, <1>10 DEF OneStep
<1> QED BY <1>11, OneStepKeeps

LEMMA JobTyped ==
  ASSUME Inv, NEW p \in Callers PROVE DOMAIN job[p] = JobFields /\ DOMAIN job = Callers
  BY DEF Inv, CallerOK, VarsOK

LEMMA OthersGo ==
  ASSUME FeedInv, NEW p \in Callers, NEW v \in Providers
  PROVE  DOMAIN go[p][v] = {"at", "got"} /\ \A e \in Entries : FeedOK(e) /\ Sorted(ent[e], changes)
  BY DEF FeedInv, GoTyped, FeedOK

LEMMA SameOrder ==
  ASSUME FeedInv, NEW e \in Entries, ent'[e].data = ent[e].data
  PROVE  \A t \in Types : InOrder(ent[e].data[t], ent'[e].data[t])
<1>1. ent[e].data \in [Types -> UpTo(changes)] /\ changes \in Nat
  BY DEF FeedInv, TruthOK, FeedOK, Sorted
<1> QED BY <1>1, InOrderSame

LEMMA FetchFeed ==
  ASSUME Inv, FeedInv, SingleSource, "empty" \notin Faults, NEW p \in Callers, NEW v \in Providers,
         FetchPlayer(p, v)
  PROVE  FeedInv' /\ Newer
<1> PICK x : x = At(p)
  OBVIOUS
<1> PICK n : n = job[p]
  OBVIOUS
<1>1. go[p][v].at = "fetch" /\ UNCHANGED <<ent, job, tasks, truth, changes>>
  BY DEF FetchPlayer, cacheVars, backend
<1>2. /\ n.pc = "fetch" /\ x \in Entries /\ Allocated(x) /\ DOMAIN n = JobFields
      /\ (n.any \/ Blank(x) \/ Gone(x)) /\ GoOK(go[p][v], v, n, x) /\ Sorted(ent[x], changes)
      /\ DOMAIN go[p][v] = {"at", "got"}
  BY <1>1, GoAt, JobTyped, OthersGo
<1>3. n.any \/ Blank(x)' \/ Gone(x)'
  BY <1>1, <1>2 DEF Blank, Gone
<1>4. PICK g : go' = [go EXCEPT ![p][v] = g] /\ DOMAIN g = {"at", "got"} /\ GoOK(g, v, n, x)'
  <2>1. CASE go' = [go EXCEPT ![p][v].at = "done"]
    <3>1. PICK g : g = [go[p][v] EXCEPT !.at = "done"] /\ go' = [go EXCEPT ![p][v] = g]
      BY <2>1, <1>1, GoAt
    <3>2. g.at = "done" /\ DOMAIN g = {"at", "got"}
      BY <1>2, <3>1
    <3> QED BY <3>1, <3>2 DEF GoOK
  <2>2. CASE \E got \in Answers(v, ent[x].player) : go' = [go EXCEPT ![p][v] = [at |-> "store", got |-> got]]
    <3>1. PICK got \in Answers(v, ent[x].player) : go' = [go EXCEPT ![p][v] = [at |-> "store", got |-> got]]
      BY <2>2
    <3>2. PICK g : g = [at |-> "store", got |-> got] /\ go' = [go EXCEPT ![p][v] = g]
      BY <3>1
    <3>3. v \in ToSet(ProvidersOf[n.type]) /\ (Blank(x) \/ Gone(x)) /\ n.type \in Types
      BY <1>1, <1>2, CallerVars DEF GoOK
    <3>4. Timely(x, got)
      BY <1>2, <3>3, AnswerTimely
    <3>5. Timely(x, got)'
      BY <1>1, <3>4 DEF Timely, Blank, Gone
    <3>6. g.at = "store" /\ g.got = got /\ DOMAIN g = {"at", "got"}
      BY <3>2
    <3> QED BY <3>2, <3>3, <3>5, <3>6 DEF GoOK
  <2> QED BY <2>1, <2>2 DEF FetchPlayer
<1>5. \A t \in Types : InOrder(ent[x].data[t], ent'[x].data[t])
  BY <1>1, <1>2, SameOrder
<1> QED BY <1>1, <1>2, <1>3, <1>4, <1>5, GoSteps

LEMMA SubscribeFeed ==
  ASSUME Inv, FeedInv, SingleSource, NEW p \in Callers, NEW v \in Providers,
         SubscribePlayer(p, v) \/ AppendSubscription(p, v)
  PROVE  FeedInv' /\ Newer
<1> PICK x : x = At(p)
  OBVIOUS
<1> PICK n : n = job[p]
  OBVIOUS
<1>1. go[p][v].at \in {"subscribe", "append"} /\ UNCHANGED <<job, tasks, truth, changes>>
  BY DEF SubscribePlayer, AppendSubscription, backend
<1>2. /\ n.pc = "fetch" /\ x \in Entries /\ Allocated(x) /\ DOMAIN n = JobFields
      /\ (n.any \/ Gone(x)) /\ GoOK(go[p][v], v, n, x) /\ Sorted(ent[x], changes)
      /\ DOMAIN go[p][v] = {"at", "got"} /\ DOMAIN ent = Entries /\ DOMAIN ent[x] = EntryFields
  BY <1>1, GoAt, JobTyped, OthersGo DEF GoOK, Inv, EntriesOK
<1>3. PICK r : /\ ent'[x] = r /\ (\A e \in Entries \ {x} : ent'[e] = ent[e])
               /\ r.player = ent[x].player /\ r.data = ent[x].data
               /\ r.queue = ent[x].queue /\ r.live \in Int /\ r.listed \in Int
  <2>1. ent[x].live \in Int /\ ent[x].listed \in Int
    BY <1>2 DEF Sorted
  <2>2. CASE ent' = ent
    BY <1>2, <2>1, <2>2
  <2>3. CASE ent' = [ent EXCEPT ![x].live = @ + 1]
    <3>1. PICK r : r = [ent[x] EXCEPT !.live = @ + 1] /\ ent' = [ent EXCEPT ![x] = r]
      BY <2>3
    <3>2. r.player = ent[x].player /\ r.data = ent[x].data /\ r.queue = ent[x].queue /\ r.live \in Int /\ r.listed \in Int
      BY <1>2, <2>1, <3>1 DEF EntryFields
    <3>3. ent'[x] = r /\ \A e \in Entries \ {x} : ent'[e] = ent[e]
      BY <1>2, <3>1
    <3> QED BY <3>2, <3>3
  <2>4. CASE ent' = [ent EXCEPT ![x].listed = @ + 1]
    <3>1. PICK r : r = [ent[x] EXCEPT !.listed = @ + 1] /\ ent' = [ent EXCEPT ![x] = r]
      BY <2>4
    <3>2. r.player = ent[x].player /\ r.data = ent[x].data /\ r.queue = ent[x].queue /\ r.live \in Int /\ r.listed \in Int
      BY <1>2, <2>1, <3>1 DEF EntryFields
    <3>3. ent'[x] = r /\ \A e \in Entries \ {x} : ent'[e] = ent[e]
      BY <1>2, <3>1
    <3> QED BY <3>2, <3>3
  <2> QED BY <2>2, <2>3, <2>4 DEF SubscribePlayer, AppendSubscription
<1>4. ent'[x] = r /\ \A e \in Entries \ {x} : ent'[e] = ent[e]
  BY <1>3
<1>5. Sorted(ent'[x], changes)
  BY <1>2, <1>3, <1>4 DEF Sorted
<1>6. n.any \/ Gone(x)'
  BY <1>1, <1>2, <1>3, <1>4 DEF Gone
<1>7. PICK g : go' = [go EXCEPT ![p][v] = g] /\ DOMAIN g = {"at", "got"} /\ g.at \in {"append", "done"}
  <2>1. PICK l \in {"append", "done"} : go' = [go EXCEPT ![p][v].at = l]
    BY DEF SubscribePlayer, AppendSubscription
  <2>2. PICK g : g = [go[p][v] EXCEPT !.at = l] /\ go' = [go EXCEPT ![p][v] = g]
    BY <1>1, <2>1, GoAt
  <2>3. DOMAIN g = DOMAIN go[p][v] /\ g.at = l
    BY <1>2, <2>2
  <2> QED BY <1>2, <2>1, <2>2, <2>3
<1>8. GoOK(g, v, n, x)'
  BY <1>1, <1>2, <1>6, <1>7 DEF GoOK
<1>9. \A t \in Types : InOrder(ent[x].data[t], ent'[x].data[t])
  BY <1>2, <1>3, <1>4, SameOrder
<1> QED BY <1>1, <1>2, <1>3, <1>4, <1>5, <1>6, <1>7, <1>8, <1>9, GoSteps

LEMMA StoreFeed ==
  ASSUME Inv, FeedInv, SingleSource, NEW p \in Callers, NEW v \in Providers, StoreFetched(p, v)
  PROVE  FeedInv' /\ Newer
<1> PICK x : x = At(p)
  OBVIOUS
<1> PICK j : j = job[p]
  OBVIOUS
<1> PICK got : got = go[p][v].got
  OBVIOUS
<1>1. go[p][v].at = "store" /\ UNCHANGED <<tasks, truth, changes>>
  BY DEF StoreFetched, backend
<1>2. /\ j.pc = "fetch" /\ x \in Entries /\ Allocated(x) /\ DOMAIN j = JobFields
      /\ Timely(x, got) /\ v \in ToSet(ProvidersOf[j.type]) /\ Sorted(ent[x], changes)
      /\ DOMAIN job = Callers /\ DOMAIN ent = Entries /\ DOMAIN ent[x] = EntryFields
  BY <1>1, GoAt, JobTyped, OthersGo DEF GoOK, Inv, EntriesOK
<1>3. PICK d : d = Merged(ent[x].data, got)
  OBVIOUS
<1>4. /\ d \in [Types -> UpTo(changes)] /\ \A t \in Types : InOrder(ent[x].data[t], d[t])
      /\ got = Nothing => d = ent[x].data
  <2>1. PICK old : old = ent[x].data /\ old \in [Types -> UpTo(changes)] /\ got \in [Types -> UpTo(changes)]
    BY <1>2 DEF Sorted, Timely
  <2>2. d = [t \in Types |-> IF got[t] = NoData THEN old[t] ELSE got[t]]
    BY <1>3, <2>1 DEF Merged
  <2>3. d \in [Types -> UpTo(changes)]
    BY <2>1, <2>2
  <2>4. got = Nothing => d = old
    BY <2>1, <2>2 DEF Nothing
  <2>5. got # Nothing => \A t \in Types : old[t] = NoData
    BY <1>2, <2>1 DEF Timely, Blank, Nothing
  <2>6. changes \in Nat
    BY DEF FeedInv, TruthOK
  <2>7. \A t \in Types : InOrder(old[t], old[t])
    BY <2>1, <2>6, InOrderSame
  <2>8. \A t \in Types : InOrder(old[t], d[t])
    BY <2>4, <2>5, <2>7 DEF InOrder
  <2> QED BY <2>1, <2>3, <2>4, <2>8
<1>5. PICK r : /\ ent'[x] = r /\ (\A e \in Entries \ {x} : ent'[e] = ent[e])
               /\ r.player = ent[x].player /\ r.data = d /\ r.queue = ent[x].queue
               /\ r.live = ent[x].live /\ r.listed = ent[x].listed
  <2>1. ent' = [ent EXCEPT ![x].data = d]
    BY <1>2, <1>3 DEF StoreFetched
  <2>2. PICK r : r = [ent[x] EXCEPT !.data = d] /\ ent' = [ent EXCEPT ![x] = r]
    BY <2>1
  <2>3. /\ r.player = ent[x].player /\ r.data = d /\ r.queue = ent[x].queue
        /\ r.live = ent[x].live /\ r.listed = ent[x].listed
    BY <1>2, <2>2 DEF EntryFields
  <2>4. ent'[x] = r /\ \A e \in Entries \ {x} : ent'[e] = ent[e]
    BY <1>2, <2>2
  <2> QED BY <2>3, <2>4
<1>6. Sorted(r, changes)
  <2>1. got = Nothing => Sorted(r, changes)
    BY <1>2, <1>4, <1>5 DEF Sorted
  <2>2. got # Nothing => r.queue = <<>>
    BY <1>2, <1>5 DEF Timely, Blank
  <2>3. r.queue = <<>> => Sorted(r, changes)
    BY <1>2, <1>4, <1>5 DEF Sorted
  <2> QED BY <2>1, <2>2, <2>3
<1>7. PICK n : /\ n = [j EXCEPT !.any = @ \/ got # Nothing] /\ job' = [job EXCEPT ![p] = n]
  BY <1>2 DEF StoreFetched
<1>8. /\ DOMAIN n = JobFields /\ n.any = (j.any \/ got # Nothing)
      /\ n.pc = j.pc /\ n.es = j.es /\ n.k = j.k /\ n.type = j.type /\ n.v = j.v
  BY <1>2, <1>7 DEF JobFields
<1>9. n.any \/ Gone(x)'
  <2>1. got = Nothing => Gone(x)'
    BY <1>1, <1>2, <1>5 DEF Timely, Gone
  <2> QED BY <1>8, <2>1
<1>10. PICK g : g = [at |-> "subscribe", got |-> Nothing] /\ go' = [go EXCEPT ![p][v] = g]
  BY DEF StoreFetched
<1>11. g.at = "subscribe" /\ DOMAIN g = {"at", "got"}
  BY <1>10
<1>12. GoOK(g, v, n, x)'
  BY <1>2, <1>8, <1>9, <1>11 DEF GoOK
<1>13. job'[p] = n /\ \A q \in Callers \ {p} : job'[q] = job[q]
  BY <1>2, <1>7
<1>14. ent'[x].player = ent[x].player /\ Sorted(ent'[x], changes) /\ \A t \in Types : InOrder(ent[x].data[t], ent'[x].data[t])
  BY <1>4, <1>5, <1>6
<1>15. n.pc = "fetch" /\ n.es = job[p].es /\ n.k = job[p].k /\ n.type = job[p].type /\ n.v = job[p].v
  BY <1>2, <1>8
<1>16. go[p][v].at \notin {"idle", "done"} /\ \A e \in Entries \ {At(p)} : ent'[e] = ent[e]
  BY <1>1, <1>5
<1>17. DOMAIN n = JobFields /\ (n.any \/ Blank(x)' \/ Gone(x)') /\ DOMAIN g = {"at", "got"}
  BY <1>8, <1>9, <1>11
<1> QED BY <1>1, <1>10, <1>12, <1>13, <1>14, <1>15, <1>16, <1>17, GoSteps

(* The end of a fetch: the status is stored, and the lock is free again.     *)
LEMMA FetchDoneFeed ==
  ASSUME Inv, FeedInv, NEW p \in Callers, FetchDone(p)
  PROVE  FeedInv' /\ Newer
<1> PICK x : x = At(p)
  OBVIOUS
<1>1. PICK j : /\ j = job[p] /\ j.pc = "fetch" /\ DOMAIN j = JobFields /\ DOMAIN job = Callers
               /\ UNCHANGED <<tasks, truth, changes>> /\ j.type \in Types /\ j.v = 1
  BY CallerVars DEF FetchDone, backend
<1>2. /\ x \in Entries /\ Allocated(x) /\ ent[x].mu = p /\ (j.any \/ Blank(x) \/ Gone(x)) /\ InFetch(x)
      /\ Sorted(ent[x], changes) /\ DOMAIN ent = Entries /\ DOMAIN ent[x] = EntryFields /\ DOMAIN go = Callers
  BY <1>1, AtHand, OthersGo DEF FeedInv, FetchOK, Inv, EntriesOK, InFetch, FetchingOf, GoTyped, FeedOK
<1>3. PICK mu, st, er : ent' = [ent EXCEPT ![x].fetched = now, ![x].mu = mu, ![x].status = st, ![x].errorAt = er]
                        /\ st = IF j.any THEN "ready" ELSE "error"
  <2>1. ent' = [ent EXCEPT ![x].fetched = now, ![x].mu = HolderAfter(p),
                        ![x].status = IF j.any THEN "ready" ELSE "error",
                        ![x].errorAt = IF j.any THEN ent[x].errorAt ELSE now]
    BY <1>1, <1>2 DEF FetchDone
  <2> QED BY <2>1
<1>4. PICK r : /\ ent'[x] = r /\ (\A e \in Entries \ {x} : ent'[e] = ent[e]) /\ r.status = st
               /\ r.player = ent[x].player /\ r.data = ent[x].data /\ r.queue = ent[x].queue
               /\ r.live = ent[x].live /\ r.listed = ent[x].listed
  <2>1. PICK r : r = [ent[x] EXCEPT !.fetched = now, !.mu = mu, !.status = st, !.errorAt = er]
                 /\ ent' = [ent EXCEPT ![x] = r]
    <3>1. ent' = [ent EXCEPT ![x] = [ent[x] EXCEPT !.fetched = now, !.mu = mu, !.status = st, !.errorAt = er]]
      BY <1>2, <1>3
    <3> QED BY <3>1
  <2>2. /\ r.player = ent[x].player /\ r.data = ent[x].data /\ r.queue = ent[x].queue
        /\ r.live = ent[x].live /\ r.listed = ent[x].listed /\ r.status = st
    BY <1>2, <2>1 DEF EntryFields
  <2>3. ent'[x] = r /\ \A e \in Entries \ {x} : ent'[e] = ent[e]
    BY <1>2, <2>1
  <2> QED BY <2>2, <2>3
<1>5. Sorted(ent'[x], changes)
  BY <1>2, <1>4 DEF Sorted
<1>6. FeedOK(x)'
  <2>1. Open(x)' => ~j.any
    BY <1>3, <1>4 DEF Open
  <2>2. (Blank(x) => Blank(x)') /\ (Gone(x) => Gone(x)')
    BY <1>1, <1>4 DEF Blank, Gone
  <2>3. changes' = changes
    BY <1>1
  <2> QED BY <1>2, <1>5, <2>1, <2>2, <2>3 DEF FeedOK
<1>7. OwnStep(p, x)
  <2>1. \A t \in Types : InOrder(ent[x].data[t], ent'[x].data[t])
    BY <1>2, <1>4, SameOrder
  <2> QED BY <1>2, <1>6, <2>1 DEF OwnStep
<1>8. PICK n : n = [j EXCEPT !.pc = "check"] /\ job' = [job EXCEPT ![p] = n]
  BY <1>1 DEF FetchDone, Goto
<1>9. /\ n.pc = "check" /\ n.v = 1 /\ n.type \in Types
      /\ job'[p] = n /\ \A q \in Callers \ {p} : job'[q] = job[q]
  BY <1>1, <1>8 DEF JobFields
<1>10. GoTyped' /\ (\A q \in Callers \ {p} : go'[q] = go[q]) /\ \A v \in Providers : go'[p][v].at = "idle"
  <2>1. go' = [go EXCEPT ![p] = [v \in Providers |-> NoGo]]
    BY DEF FetchDone
  <2>2. DOMAIN NoGo = {"at", "got"} /\ NoGo.at = "idle"
    BY DEF NoGo
  <2>3. DOMAIN go' = Callers /\ go'[p] = [v \in Providers |-> NoGo] /\ \A q \in Callers \ {p} : go'[q] = go[q]
    BY <1>2, <2>1
  <2> QED BY <2>2, <2>3 DEF FeedInv, GoTyped
<1>11. FetchOK(p)' /\ BatchOK(p)'
  BY <1>9, <1>10 DEF FetchOK, BatchOK
<1>12. TruthOK' /\ Onward /\ changes \in Nat /\ changes' = changes
  BY <1>1 DEF FeedInv, TruthOK, Onward
<1>13. \A e \in Entries \ {x} : Mild(e) /\ (FetchingOf(p, e)' <=> FetchingOf(p, e))
  <2> SUFFICES ASSUME NEW e \in Entries \ {x} PROVE Mild(e)
    BY <1>1, <1>9 DEF FetchingOf
  <2>1. ent'[e] = ent[e] /\ FeedOK(e)
    BY <1>4 DEF FeedInv
  <2>2. Open(e)' => Open(e)
    BY <2>1 DEF Open
  <2> QED BY <1>12, <2>1, <2>2, MildSame
<1>14. OneStep(p, x)
  BY <1>1, <1>7, <1>9, <1>10, <1>11, <1>12, <1>13 DEF OneStep
<1> QED BY <1>14, OneStepKeeps

-----------------------------------------------------------------------------
(* Batches.                                                                  *)

LEMMA ListMoves ==
  ASSUME Inv, FeedInv, NEW p \in Callers, TruthOK', Onward, NEW x, \A e \in Entries \ {x} : Mild(e),
         x \in Entries => OwnStep(p, x), go' = go, \A k \in tasks' : k \in tasks \/ TaskOK(k)',
         NEW n, job' = [job EXCEPT ![p] = n], job[p].pc # "fetch", n.pc # "fetch", BatchOK(p)',
         job[p].pc = "settle" => BatchAt(p) = x, n.pc = "settle" => n.es[n.fetch[n.k]] = x
  PROVE  FeedInv' /\ Newer
<1>1. job'[p] = n /\ \A q \in Callers \ {p} : job'[q] = job[q]
  BY DEF Inv
<1>2. FetchOK(p)'
  BY <1>1 DEF FeedInv, FetchOK
<1>3. GoTyped'
  BY DEF FeedInv, GoTyped
<1>4. \A e \in Entries \ {x} : FetchingOf(p, e)' <=> FetchingOf(p, e)
  BY <1>1 DEF FetchingOf, BatchAt
<1>5. OneStep(p, x)
  BY <1>1, <1>2, <1>3, <1>4 DEF OneStep
<1> QED BY <1>5, OneStepKeeps

LEMMA StillMoves ==
  ASSUME Inv, FeedInv, NEW p \in Callers, Still, UNCHANGED <<go, tasks>>,
         NEW n, job' = [job EXCEPT ![p] = n], job[p].pc \notin {"fetch", "settle"},
         n.pc \notin {"fetch", "settle"}, BatchOK(p)'
  PROVE  FeedInv' /\ Newer
  BY StillIsMild, ListMoves, NamesAssumption

(* An entry of a batch: nobody else fetches it.                              *)
LEMMA InBatch ==
  ASSUME Inv, FeedInv, NEW p \in Callers, job[p].pc \in {"batch", "apply", "settle", "subscribing"},
         NEW i \in 1 .. Len(job[p].fetch), NEW e, e = job[p].es[job[p].fetch[i]],
         job[p].pc = "settle" => e # BatchAt(p)
  PROVE  /\ e \in Entries /\ Allocated(e) /\ ent[e].mu = p /\ FeedOK(e) /\ Sorted(ent[e], changes)
         /\ ~InFetch(e) /\ (Open(e) => Blank(e) \/ Gone(e))
         /\ job[p].pc # "batch" => ToStore(e, job[p].got)
<1>1. e \in Entries /\ Allocated(e) /\ ent[e].mu = p
  <2>1. \A k \in 1 .. Len(job[p].fetch) :
          LET x == job[p].es[job[p].fetch[k]] IN x \in Entries /\ Allocated(x) /\ ent[x].mu = p
    BY AtHand, Zenon
  <2> QED BY <2>1
<1>2. ASSUME NEW q \in Callers, FetchingOf(q, e) PROVE FALSE
  <2>1. q = p
    BY <1>1, <1>2, FetcherLocks
  <2> QED BY <1>2, <2>1 DEF FetchingOf
<1>f. ~InFetch(e)
  BY <1>2 DEF InFetch
<1>3. FeedOK(e) /\ BatchOK(p)
  BY <1>1 DEF FeedInv
<1>4. job[p].pc # "batch" => ToStore(e, job[p].got)
  BY <1>3 DEF BatchOK
<1> QED BY <1>1, <1>f, <1>3, <1>4 DEF FeedOK

LEMMA StoresKept ==
  ASSUME Inv, FeedInv, Onward, NEW p \in Callers, job[p].pc \in {"apply", "settle", "subscribing"},
         NEW i \in 1 .. Len(job[p].fetch), NEW e, e = job[p].es[job[p].fetch[i]], Mild(e), NEW got, got = job[p].got,
         job[p].pc = "settle" => e # BatchAt(p)
  PROVE  ToStore(e, got)'
<1>0. e \in Entries /\ Allocated(e) /\ FeedOK(e) /\ ToStore(e, got)
  BY InBatch
<1>1. ent'[e].player = ent[e].player /\ (Open(e)' => Open(e))
  BY <1>0 DEF Mild, Allocated
<1> PICK g : g = got[ent[e].player]
  OBVIOUS
<1>2. Open(e) => Timely(e, g)
  BY <1>0 DEF ToStore
<1>3. Open(e)' => Timely(e, g)'
  BY <1>0, <1>1, <1>2, StaysTimely
<1> QED BY <1>1, <1>3 DEF ToStore, Timely, Open, Blank, Gone

LEMMA LockNextFeed ==
  ASSUME Inv, FeedInv, NEW p \in Callers, LockNext(p)
  PROVE  FeedInv' /\ Newer
<1>1. PICK j : /\ j = job[p] /\ j.pc = "lockAll" /\ DOMAIN j = JobFields /\ DOMAIN job = Callers
               /\ UNCHANGED <<go, tasks, truth, changes>> /\ j.type \in Types /\ j.v = 1 /\ BatchOK(p)
  BY CallerVars DEF LockNext, backend, FeedInv
<1>2. Still
  BY <1>1 DEF LockNext, Still, Open, Inv, EntriesOK, EntryFields
<1>3. PICK n : /\ n = IF j.k < Len(j.fetch) THEN [j EXCEPT !.k = @ + 1] ELSE [j EXCEPT !.k = 1, !.pc = "batch"]
               /\ job' = [job EXCEPT ![p] = n]
  BY <1>1 DEF LockNext
<1>4. n.pc \in {"lockAll", "batch"} /\ n.v = 1 /\ n.type = j.type
  BY <1>1, <1>3 DEF JobFields
<1>5. job'[p] = n
  BY <1>1, <1>3
<1>6. BatchOK(p)'
  BY <1>1, <1>4, <1>5 DEF BatchOK
<1> QED BY <1>1, <1>2, <1>3, <1>4, <1>6, StillMoves

LEMMA UnlockedStill ==
  ASSUME Inv, FeedInv, NEW p \in Callers, ent' = ent \/ ent' = Unlocked(p, ent), UNCHANGED <<truth, changes>>
  PROVE  Still
<1>1. CASE ent' = ent
  BY <1>1 DEF Still, Open
<1>2. CASE ent' = Unlocked(p, ent)
  <2>1. \A e \in Entries : ent'[e] = IF ent[e].mu = p THEN [ent[e] EXCEPT !.mu = NoCaller] ELSE ent[e]
    BY <1>2 DEF Unlocked
  <2> QED BY <2>1 DEF Still, Open, Inv, EntriesOK, EntryFields
<1> QED BY <1>1, <1>2

LEMMA AnswersFeed ==
  ASSUME Inv, FeedInv, SingleSource, "empty" \notin Faults, NEW p \in Callers, FetchPlayers(p)
  PROVE  FeedInv' /\ Newer
<1>1. PICK j : /\ j = job[p] /\ j.pc = "batch" /\ DOMAIN j = JobFields /\ DOMAIN job = Callers
               /\ UNCHANGED <<go, tasks, truth, changes>> /\ j.type \in Types /\ VarsOK(j)
               /\ j.v \in 1 .. Len(ProvidersOf[j.type])
  <2>1. job[p].pc = "batch" /\ UNCHANGED <<go, tasks, truth, changes>>
    BY DEF FetchPlayers, backend
  <2>2. BatchOK(p)
    BY DEF FeedInv
  <2>3. PICK j : /\ j = job[p] /\ VarsOK(j) /\ DOMAIN j = JobFields /\ DOMAIN job = Callers
                 /\ j.pc # "idle" => j.type \in Types
    BY CallerVars
  <2> QED BY <2>1, <2>2, <2>3 DEF BatchOK
<1>2. CASE /\ ent' = IF j.v < Len(ProvidersOf[j.type]) THEN ent ELSE Unlocked(p, ent)
           /\ job' = [job EXCEPT ![p] = IF j.v < Len(ProvidersOf[j.type]) THEN [j EXCEPT !.v = @ + 1] ELSE NoJob]
  <2>1. PICK more :
             /\ more => j.v < Len(ProvidersOf[j.type])
             /\ ent' = IF more THEN ent ELSE Unlocked(p, ent)
             /\ job' = [job EXCEPT ![p] = IF more THEN [j EXCEPT !.v = @ + 1] ELSE NoJob]
    <3> PICK more : more = (j.v < Len(ProvidersOf[j.type]))
      OBVIOUS
    <3> QED BY <1>2
  <2>2. Still
    BY <1>1, <2>1, UnlockedStill
  <2>3. PICK n : n = (IF more THEN [j EXCEPT !.v = @ + 1] ELSE NoJob) /\ job' = [job EXCEPT ![p] = n]
    BY <2>1
  <2>4. \/ n.pc = "idle" /\ n.v = 1
        \/ n.pc = "batch" /\ n.type = j.type /\ n.v = j.v + 1 /\ j.v < Len(ProvidersOf[j.type])
    BY <1>1, <2>1, <2>3 DEF JobFields, NoJob
  <2>5. job'[p] = n
    BY <1>1, <2>3
  <2>6. Len(ProvidersOf[j.type]) \in Nat
    BY <1>1, ProvidersAssumption
  <2>7. BatchOK(p)'
    BY <1>1, <2>4, <2>5, <2>6 DEF BatchOK
  <2> QED BY <1>1, <2>2, <2>3, <2>4, <2>7, StillMoves
<1>3. ASSUME NEW owners, owners = {ent[j.es[i]].player : i \in ToSet(j.fetch)}, NEW got,
             \A pl \in owners : got[pl] \in Answers(Provider(p), pl),
             job' = [job EXCEPT ![p].pc = "apply", ![p].got = got], ent' = ent
      PROVE  FeedInv' /\ Newer
  <2>1. PICK n : n = [j EXCEPT !.pc = "apply", !.got = got] /\ job' = [job EXCEPT ![p] = n]
    <3>1. job' = [job EXCEPT ![p] = [job[p] EXCEPT !.pc = "apply", !.got = got]]
      BY <1>1, <1>3
    <3> QED BY <1>1, <3>1
  <2>2. n.pc = "apply" /\ n.type = j.type /\ n.es = j.es /\ n.fetch = j.fetch /\ n.got = got
    BY <1>1, <2>1 DEF JobFields
  <2>3. job'[p] = n
    BY <1>1, <2>1
  <2>4. PICK v : v = Provider(p) /\ v \in ToSet(ProvidersOf[j.type])
    BY <1>1, ProvidersAssumption DEF Provider, ToSet
  <2>5. ASSUME NEW i \in 1 .. Len(j.fetch), NEW e, e = j.es[j.fetch[i]] PROVE ToStore(e, got)'
    <3>1. e \in Entries /\ Allocated(e) /\ (Open(e) => Blank(e) \/ Gone(e))
      BY <1>1, <2>5, InBatch
    <3> PICK pl : pl = ent[e].player
      OBVIOUS
    <3>2. pl \in owners
      <4>1. j.fetch[i] \in ToSet(j.fetch)
        BY <1>1 DEF VarsOK, ToSet
      <4> QED BY <1>3, <2>5, <4>1
    <3>3. got[pl] \in Answers(v, pl)
      BY <1>3, <2>4, <3>2
    <3>4. Open(e) => Timely(e, got[pl])
      BY <1>1, <2>4, <3>1, <3>3, AnswerTimely
    <3> QED BY <1>1, <1>3, <3>4 DEF ToStore, Timely, Open, Blank, Gone
  <2>6. \A i \in 1 .. Len(j.fetch) : ToStore(j.es[j.fetch[i]], got)'
    BY <2>5
  <2>7. BatchOK(p)'
    BY <1>1, <2>2, <2>3, <2>6 DEF BatchOK
  <2>8. Still
    BY <1>1, <1>3, UnlockedStill
  <2> QED BY <1>1, <2>1, <2>2, <2>7, <2>8, StillMoves
<1>4. CASE \E got :
           /\ \A pl \in {ent[j.es[i]].player : i \in ToSet(j.fetch)} : got[pl] \in Answers(Provider(p), pl)
           /\ job' = [job EXCEPT ![p].pc = "apply", ![p].got = got] /\ ent' = ent
  <2> PICK owners : owners = {ent[j.es[i]].player : i \in ToSet(j.fetch)}
    OBVIOUS
  <2> QED BY <1>3, <1>4
<1>5. \/ /\ ent' = IF job[p].v < Len(ProvidersOf[job[p].type]) THEN ent ELSE Unlocked(p, ent)
         /\ job' = [job EXCEPT ![p] = IF job[p].v < Len(ProvidersOf[job[p].type]) THEN [job[p] EXCEPT !.v = @ + 1] ELSE NoJob]
      \/ \E got :
           /\ \A pl \in {ent[job[p].es[i]].player : i \in ToSet(job[p].fetch)} : got[pl] \in Answers(Provider(p), pl)
           /\ job' = [job EXCEPT ![p].pc = "apply", ![p].got = got] /\ ent' = ent
  BY DEF FetchPlayers
<1> QED BY <1>1, <1>2, <1>4, <1>5

(* The end of a step at entry e of a batch: what is left to store.           *)
LEMMA AfterApplyFeed ==
  ASSUME Inv, FeedInv, NEW p \in Callers, job[p].pc \in {"apply", "settle", "subscribing"},
         TruthOK', Onward, NEW x, \A e \in Entries \ {x} : Mild(e), x \in Entries => OwnStep(p, x),
         go' = go, \A k \in tasks' : k \in tasks \/ TaskOK(k)',
         job[p].pc = "settle" => BatchAt(p) = x,
         NEW n, job' = [job EXCEPT ![p] = n],
         \/ n.pc = "idle" /\ n.v = 1
         \/ /\ n.pc \in {"apply", "subscribing"} /\ n.type = job[p].type /\ n.es = job[p].es
            /\ n.fetch = job[p].fetch /\ n.got = job[p].got
            /\ x \in Entries => ToStore(x, job[p].got)'
  PROVE  FeedInv' /\ Newer
<1>1. PICK j : /\ j = job[p] /\ j.type \in Types /\ job'[p] = n
  BY CallerVars
<1>2. n.pc # "idle" => \A i \in 1 .. Len(j.fetch) : ToStore(j.es[j.fetch[i]], j.got)'
  <2> SUFFICES ASSUME n.pc # "idle", NEW i \in 1 .. Len(j.fetch), NEW e, e = j.es[j.fetch[i]], NEW got, got = j.got
               PROVE  ToStore(e, got)'
    BY <1>1
  <2>1. CASE e = x
    <3>1. e \in Entries
      BY <1>1, AtHand
    <3>2. ToStore(x, got)'
      BY <1>1, <2>1, <3>1
    <3> QED BY <2>1, <3>2
  <2>2. CASE e # x
    <3>1. e \in Entries
      BY <1>1, AtHand
    <3> QED BY <1>1, <2>2, <3>1, StoresKept
  <2> QED BY <2>1, <2>2
<1>3. BatchOK(p)'
  BY <1>1, <1>2 DEF BatchOK
<1> QED BY <1>3, ListMoves

LEMMA AfterApplyIs ==
  ASSUME Inv, FeedInv, NEW p \in Callers, job' = [job EXCEPT ![p] = AfterApply(@)]
  PROVE  \E n : /\ job' = [job EXCEPT ![p] = n]
                /\ \/ n.pc = "idle" /\ n.v = 1
                   \/ /\ n.pc = "apply" /\ n.type = job[p].type /\ n.es = job[p].es
                      /\ n.fetch = job[p].fetch /\ n.got = job[p].got
<1>1. PICK j : j = job[p] /\ DOMAIN j = JobFields /\ DOMAIN job = Callers
  BY CallerVars
<1>2. PICK n : n = AfterApply(j) /\ job' = [job EXCEPT ![p] = n]
  BY <1>1
<1> QED BY <1>1, <1>2 DEF AfterApply, JobFields, NoJob

LEMMA SubscribedFeed ==
  ASSUME Inv, FeedInv, NEW p \in Callers, SubscribedInline(p)
  PROVE  FeedInv' /\ Newer
<1>1. /\ job[p].pc = "subscribing" /\ UNCHANGED <<go, tasks, truth, changes>>
      /\ job' = [job EXCEPT ![p] = AfterApply(@)] /\ (ent' = ent \/ ent' = Unlocked(p, ent))
  BY DEF SubscribedInline, Released, backend
<1>2. TruthOK' /\ Onward /\ \A e \in Entries : Mild(e)
  BY <1>1, UnlockedStill, StillIsMild
<1> QED BY <1>1, <1>2, AfterApplyIs, AfterApplyFeed, NamesAssumption

(* What a fetch brings to an entry that is blank.                            *)
LEMMA MergedIs ==
  ASSUME NEW old \in [Types -> UpTo(changes)], NEW got \in [Types -> UpTo(changes)], changes \in Nat,
         old = Nothing \/ got = Nothing
  PROVE  /\ Merged(old, got) \in [Types -> UpTo(changes)]
         /\ \A t \in Types : InOrder(old[t], Merged(old, got)[t])
<1> PICK d : d = Merged(old, got)
  OBVIOUS
<1>2. d = [t \in Types |-> IF got[t] = NoData THEN old[t] ELSE got[t]]
  BY DEF Merged
<1>3. d \in [Types -> UpTo(changes)]
  BY <1>2
<1>4. \A t \in Types : InOrder(old[t], old[t])
  BY InOrderSame
<1>5. \A t \in Types : Nothing[t] = NoData
  BY DEF Nothing
<1>6. \A t \in Types : InOrder(old[t], d[t])
  BY <1>2, <1>4, <1>5 DEF InOrder
<1> QED BY <1>3, <1>6

(* A caller about to store a status: what its batch needs.                   *)
LEMMA SettleStarts ==
  ASSUME NEW p, NEW n, job'[p] = n, n.type \in Types, n.pc = "settle",
         \A i \in 1 .. Len(n.fetch) : ToStore(n.es[n.fetch[i]], n.got)' \/ n.es[n.fetch[i]] = BatchAt(p)',
         Answer(p)' = Nothing => Gone(BatchAt(p))'
  PROVE  BatchOK(p)'
  BY DEF BatchOK

LEMMA ApplyFeed ==
  ASSUME Inv, FeedInv, NEW p \in Callers, ApplyNext(p)
  PROVE  FeedInv' /\ Newer
<1>1. PICK j : /\ j = job[p] /\ VarsOK(j) /\ j.pc = "apply" /\ DOMAIN job = Callers /\ j.type \in Types
               /\ UNCHANGED <<go, tasks, truth, changes>> /\ DOMAIN j = JobFields
  BY CallerVars DEF ApplyNext, backend
<1>2. PICK e : e = BatchAt(p) /\ e \in Entries /\ DOMAIN ent[e] = EntryFields /\ DOMAIN ent = Entries
  BY <1>1, BatchAtLocked DEF Inv, EntriesOK
<1>3. /\ Allocated(e) /\ ent[e].mu = p /\ FeedOK(e) /\ Sorted(ent[e], changes) /\ ~InFetch(e)
      /\ ToStore(e, j.got)
  <2>1. PICK i : i \in 1 .. Len(job[p].fetch) /\ e = job[p].es[job[p].fetch[i]]
    BY <1>1, <1>2 DEF VarsOK, BatchAt
  <2> QED BY <1>1, <2>1, InBatch
<1>4. TruthOK' /\ Onward /\ changes \in Nat /\ changes' = changes
  BY <1>1 DEF FeedInv, TruthOK, Onward
<1>5. CASE Released(p, ent) = ent' /\ job' = [job EXCEPT ![p] = AfterApply(@)]
  <2>1. \A x \in Entries : Mild(x)
    BY <1>1, <1>5, UnlockedStill, StillIsMild DEF Released
  <2>2. PICK n : /\ job' = [job EXCEPT ![p] = n]
                 /\ \/ n.pc = "idle" /\ n.v = 1
                    \/ /\ n.pc = "apply" /\ n.type = job[p].type /\ n.es = job[p].es
                       /\ n.fetch = job[p].fetch /\ n.got = job[p].got
    BY <1>5, AfterApplyIs
  <2>3. go' = go /\ tasks' = tasks /\ job[p].pc = "apply"
    BY <1>1
  <2> QED BY <1>4, <2>1, <2>2, <2>3, AfterApplyFeed, NamesAssumption
<1> PICK got : got = Answer(p)
  OBVIOUS
<1>6. CASE /\ StillPending(e) /\ Goto(p, "settle")
           /\ ent' = IF got = Nothing THEN [ent EXCEPT ![e].errorAt = now]
                     ELSE [ent EXCEPT ![e].data = Merged(@, got), ![e].fetched = now]
  <2>1. got = j.got[ent[e].player] /\ Open(e) /\ Timely(e, got)
    BY <1>1, <1>2, <1>3, <1>6 DEF StillPending, Open, ToStore, Answer
  <2>2. /\ ent'[e].player = ent[e].player /\ ent'[e].status = ent[e].status
        /\ ent'[e].queue = ent[e].queue /\ ent'[e].live = ent[e].live /\ ent'[e].listed = ent[e].listed
        /\ ent'[e].data = IF got = Nothing THEN ent[e].data ELSE Merged(ent[e].data, got)
        /\ \A x \in Entries \ {e} : ent'[x] = ent[x]
    <3>1. CASE got = Nothing
      BY <1>2, <1>6, <3>1 DEF EntryFields
    <3>2. CASE got # Nothing
      BY <1>2, <1>6, <3>2 DEF EntryFields
    <3> QED BY <3>1, <3>2
  <2>3. /\ ent'[e].data \in [Types -> UpTo(changes)]
        /\ \A t \in Types : InOrder(ent[e].data[t], ent'[e].data[t])
    <3>1. ent[e].data \in [Types -> UpTo(changes)]
      BY <1>3 DEF Sorted
    <3>2. CASE got = Nothing
      BY <1>4, <2>2, <3>1, <3>2, InOrderSame
    <3>3. CASE got # Nothing
      <4>1. ent[e].data = Nothing /\ got \in [Types -> UpTo(changes)]
        BY <2>1, <3>3 DEF Timely, Blank
      <4> QED BY <1>4, <2>2, <3>1, <3>3, <4>1, MergedIs
    <3> QED BY <3>2, <3>3
  <2>4. Sorted(ent'[e], changes)
    <3>1. CASE got = Nothing
      BY <1>3, <2>2, <3>1 DEF Sorted
    <3>2. CASE got # Nothing
      <4>1. ent'[e].queue = <<>>
        BY <2>1, <2>2, <3>2 DEF Timely, Blank
      <4> QED BY <1>3, <2>2, <2>3, <4>1 DEF Sorted
    <3> QED BY <3>1, <3>2
  <2>5. PICK n : n = [j EXCEPT !.pc = "settle"] /\ job' = [job EXCEPT ![p] = n]
    BY <1>1, <1>6 DEF Goto
  <2>6. /\ n.pc = "settle" /\ n.type = j.type /\ n.es = j.es /\ n.fetch = j.fetch /\ n.got = j.got /\ n.k = j.k
        /\ job'[p] = n
    BY <1>1, <2>5 DEF JobFields
  <2>7. BatchAt(p)' = e /\ n.es[n.fetch[n.k]] = e /\ FetchingOf(p, e)'
    BY <1>1, <1>2, <2>6 DEF BatchAt, FetchingOf
  <2>8. OwnStep(p, e)
    <3>1. FeedOK(e)'
      BY <1>4, <2>4, <2>7 DEF FeedOK, InFetch
    <3> QED BY <1>3, <2>1, <2>3, <3>1 DEF OwnStep
  <2>9. \A x \in Entries \ {e} : Mild(x)
    <3> SUFFICES ASSUME NEW x \in Entries \ {e} PROVE Mild(x)
      OBVIOUS
    <3>1. FeedOK(x) /\ ent'[x] = ent[x] /\ (Open(x)' => Open(x))
      BY <2>2 DEF FeedInv, Open
    <3> QED BY <1>4, <3>1, MildSame
  <2>10. ASSUME NEW i \in 1 .. Len(j.fetch), NEW x, x = j.es[j.fetch[i]], x # e, NEW h, h = j.got PROVE ToStore(x, h)'
    <3>1. Mild(x)
      BY <1>1, <2>9, <2>10, InBatch
    <3> QED BY <1>1, <1>4, <2>10, <3>1, StoresKept
  <2>11. Answer(p)' = got
    BY <1>1, <2>1, <2>2, <2>6, <2>7 DEF Answer
  <2>12. got = Nothing => Gone(e)'
    BY <1>1, <2>1, <2>2 DEF Timely, Gone
  <2>13. BatchOK(p)'
    <3>1. \A i \in 1 .. Len(j.fetch) : ToStore(j.es[j.fetch[i]], j.got)' \/ j.es[j.fetch[i]] = e
      BY <2>10
    <3>2. \A i \in 1 .. Len(n.fetch) : ToStore(n.es[n.fetch[i]], n.got)' \/ n.es[n.fetch[i]] = BatchAt(p)'
      BY <2>6, <2>7, <3>1
    <3>3. Answer(p)' = Nothing => Gone(BatchAt(p))'
      BY <2>7, <2>11, <2>12 DEF Gone
    <3> QED BY <1>1, <2>6, <3>2, <3>3, SettleStarts
  <2>14. /\ go' = go /\ \A k \in tasks' : k \in tasks \/ TaskOK(k)'
         /\ job[p].pc # "fetch" /\ n.pc # "fetch" /\ (e \in Entries => OwnStep(p, e))
         /\ job[p].pc = "settle" => BatchAt(p) = e
         /\ n.pc = "settle" => n.es[n.fetch[n.k]] = e
    BY <1>1, <2>6, <2>7, <2>8
  <2> QED BY <1>4, <2>5, <2>9, <2>13, <2>14, ListMoves
<1> QED BY <1>1, <1>2, <1>5, <1>6 DEF ApplyNext

LEMMA SetStatusFeed ==
  ASSUME Inv, FeedInv, NEW p \in Callers, SetStatus(p)
  PROVE  FeedInv' /\ Newer
<1>1. PICK j : /\ j = job[p] /\ VarsOK(j) /\ j.pc = "settle" /\ DOMAIN job = Callers /\ j.type \in Types
               /\ UNCHANGED <<go, truth, changes>> /\ DOMAIN j = JobFields
  BY CallerVars DEF SetStatus, backend
<1>2. PICK e : /\ e = BatchAt(p) /\ e \in Entries /\ DOMAIN ent[e] = EntryFields /\ DOMAIN ent = Entries
               /\ Allocated(e) /\ ent[e].mu = p /\ FeedOK(e) /\ Sorted(ent[e], changes)
  BY <1>1, BatchAtLocked DEF Inv, EntriesOK, FeedInv, FeedOK
<1>3. TruthOK' /\ Onward /\ changes \in Nat /\ changes' = changes
  BY <1>1 DEF FeedInv, TruthOK, Onward
<1> PICK got : got = Answer(p)
  OBVIOUS
<1>4. PICK en, by : /\ en = [ent EXCEPT ![e].status = IF got # Nothing THEN "ready" ELSE "error"]
                    /\ ent' = en \/ ent' = Unlocked(p, en)
                    /\ \/ tasks' = tasks
                       \/ /\ got # Nothing
                          /\ tasks' = tasks \cup {[e |-> e, v |-> Provider(p), at |-> "subscribe", by |-> by]}
  BY <1>1, <1>2 DEF SetStatus, Released
<1>5. /\ \A x \in Entries : DOMAIN en[x] = EntryFields
      /\ \A x \in Entries \ {e} : en[x] = ent[x]
      /\ en[e].player = ent[e].player /\ en[e].data = ent[e].data /\ en[e].queue = ent[e].queue
      /\ en[e].live = ent[e].live /\ en[e].listed = ent[e].listed
      /\ en[e].status = IF got # Nothing THEN "ready" ELSE "error"
  BY <1>2, <1>4 DEF Inv, EntriesOK, EntryFields
<1>6. \A x \in Entries :
        /\ ent'[x].player = en[x].player /\ ent'[x].status = en[x].status /\ ent'[x].data = en[x].data
        /\ ent'[x].queue = en[x].queue /\ ent'[x].live = en[x].live /\ ent'[x].listed = en[x].listed
  <2>1. CASE ent' = en
    BY <2>1
  <2>2. CASE ent' = Unlocked(p, en)
    <3>1. \A x \in Entries : ent'[x] = IF en[x].mu = p THEN [en[x] EXCEPT !.mu = NoCaller] ELSE en[x]
      BY <2>2 DEF Unlocked
    <3> QED BY <1>5, <3>1 DEF EntryFields
  <2> QED BY <1>4, <2>1, <2>2
<1>7. \A x \in Entries \ {e} : Mild(x)
  <2> SUFFICES ASSUME NEW x \in Entries \ {e} PROVE Mild(x)
    OBVIOUS
  <2>1. FeedOK(x) /\ (Open(x)' => Open(x))
    BY <1>5, <1>6 DEF FeedInv, Open
  <2>2. /\ ent'[x].player = ent[x].player /\ ent'[x].data = ent[x].data
        /\ ent'[x].queue = ent[x].queue /\ ent'[x].live = ent[x].live /\ ent'[x].listed = ent[x].listed
    BY <1>5, <1>6
  <2> QED BY <1>3, <2>1, <2>2, MildSame
<1>8. Open(e)' => got = Nothing /\ Gone(e)'
  <2>1. got = Nothing => Gone(e)
    BY <1>1, <1>2 DEF FeedInv, BatchOK
  <2>2. got # Nothing => ~Open(e)'
    BY <1>2, <1>5, <1>6 DEF Open
  <2>3. Gone(e) => Gone(e)'
    BY <1>1, <1>2, <1>5, <1>6 DEF Gone
  <2> QED BY <2>1, <2>2, <2>3
<1>9. OwnStep(p, e)
  <2>1. Sorted(ent'[e], changes)
    <3>1. /\ ent'[e].data = ent[e].data /\ ent'[e].queue = ent[e].queue
          /\ ent'[e].player = ent[e].player /\ ent'[e].live = ent[e].live /\ ent'[e].listed = ent[e].listed
      BY <1>2, <1>5, <1>6
    <3> QED BY <1>2, <3>1 DEF Sorted
  <2>2. FeedOK(e)'
    BY <1>3, <1>8, <2>1 DEF FeedOK
  <2>3. \A t \in Types : InOrder(ent[e].data[t], ent'[e].data[t])
    BY <1>2, <1>3, <1>5, <1>6, InOrderSame DEF Sorted
  <2>4. InFetch(e)
    BY <1>1, <1>2 DEF InFetch, FetchingOf
  <2> QED BY <1>2, <2>2, <2>3, <2>4 DEF OwnStep
<1>10. PICK n : /\ job' = [job EXCEPT ![p] = n]
                /\ \/ n.pc = "idle" /\ n.v = 1
                   \/ /\ n.pc \in {"apply", "subscribing"} /\ n.type = j.type /\ n.es = j.es
                      /\ n.fetch = j.fetch /\ n.got = j.got
  <2>1. CASE job' = [job EXCEPT ![p] = AfterApply(@)]
    BY <1>1, <2>1, AfterApplyIs
  <2>2. CASE job' = [job EXCEPT ![p] = [@ EXCEPT !.pc = "subscribing"]]
    <3>1. PICK n : n = [j EXCEPT !.pc = "subscribing"] /\ job' = [job EXCEPT ![p] = n]
      BY <1>1, <2>2
    <3>2. /\ n.pc = "subscribing" /\ n.type = j.type /\ n.es = j.es /\ n.fetch = j.fetch /\ n.got = j.got
      BY <1>1, <3>1 DEF JobFields
    <3> QED BY <3>1, <3>2
  <2> QED BY <2>1, <2>2 DEF SetStatus
<1>11. ToStore(e, j.got)'
  <2>1. j.got[ent'[e].player] = got
    BY <1>1, <1>2, <1>5, <1>6 DEF Answer
  <2>2. Nothing \in [Types -> UpTo(changes)]
    BY DEF Nothing, UpTo
  <2>3. Open(e)' => Timely(e, got)'
    BY <1>3, <1>8, <2>2 DEF Timely
  <2> QED BY <2>1, <2>3 DEF ToStore, Timely, Open, Blank, Gone
<1>12. ASSUME NEW k, k = [e |-> e, v |-> Provider(p), at |-> "subscribe", by |-> by], got # Nothing
       PROVE  TaskOK(k)'
  <2>1. DOMAIN k = {"e", "v", "at", "by"} /\ k.e = e
    BY <1>12
  <2>2. Allocated(e)' /\ ~Open(e)'
    BY <1>2, <1>5, <1>6, <1>8, <1>12 DEF Allocated
  <2>3. ~InFetch(e)'
    <3>1. job'[p] = n /\ \A q \in Callers \ {p} : job'[q] = job[q]
      BY <1>1, <1>10
    <3>2. ~FetchingOf(p, e)'
      BY <1>10, <3>1 DEF FetchingOf
    <3>3. \A q \in Callers \ {p} : ~FetchingOf(q, e)
      BY <1>2, FetcherLocks
    <3>4. \A q \in Callers \ {p} : ~FetchingOf(q, e)'
      BY <3>1, <3>3 DEF FetchingOf, At, BatchAt
    <3> QED BY <3>2, <3>4 DEF InFetch
  <2> QED BY <2>1, <2>2, <2>3 DEF TaskOK, Allocated, Open, InFetch, FetchingOf, At, BatchAt
<1>13. \A k \in tasks' : k \in tasks \/ TaskOK(k)'
  BY <1>4, <1>12
<1> QED BY <1>1, <1>2, <1>3, <1>7, <1>9, <1>10, <1>11, <1>13, AfterApplyFeed

-----------------------------------------------------------------------------
(* Everybody else.                                                           *)

LEMMA OthersMove ==
  ASSUME Inv, FeedInv, TruthOK', Onward, \A e \in Entries : Mild(e), UNCHANGED <<job, go>>,
         \A k \in tasks' : k \in tasks \/ TaskOK(k)'
  PROVE  FeedInv' /\ Newer
<1>1. GoTyped'
  BY DEF FeedInv, GoTyped
<1>2. \A e \in Entries : FetchingOf(NoCaller, e)' <=> FetchingOf(NoCaller, e)
  BY NamesAssumption DEF FetchingOf
<1>3. OneStep(NoCaller, NoEntry)
  BY <1>1, <1>2, NamesAssumption DEF OneStep
<1> QED BY <1>3, OneStepKeeps

LEMMA OthersStill ==
  ASSUME Inv, FeedInv, Still, UNCHANGED <<job, go, tasks>> PROVE FeedInv' /\ Newer
  BY StillIsMild, OthersMove

LEMMA TaskFeed ==
  ASSUME Inv, FeedInv, NEW k \in tasks, TaskStep(k)
  PROVE  FeedInv' /\ Newer
<1> PICK e : e = k.e
  OBVIOUS
<1>1. /\ Allocated(e) /\ e \in Entries /\ ~Open(e) /\ ~InFetch(e) /\ DOMAIN k = {"e", "v", "at", "by"}
      /\ Sorted(ent[e], changes) /\ DOMAIN ent = Entries /\ DOMAIN ent[e] = EntryFields
      /\ UNCHANGED <<job, go, truth, changes>>
  BY DEF FeedInv, TaskOK, Allocated, FeedOK, Inv, EntriesOK, TaskStep, SubscribeEntry, SubscribeEntryDone, backend
<1>2. TruthOK' /\ Onward /\ changes \in Nat /\ changes' = changes
  BY <1>1 DEF FeedInv, TruthOK, Onward
<1>3. /\ \A x \in Entries \ {e} : ent'[x] = ent[x]
      /\ ent'[e].player = ent[e].player /\ ent'[e].data = ent[e].data /\ ent'[e].queue = ent[e].queue
      /\ ent'[e].status = ent[e].status /\ ent'[e].live \in Int /\ ent'[e].listed \in Int
  <2>1. ent[e].live \in Int /\ ent[e].listed \in Int
    BY <1>1 DEF Sorted
  <2>2. CASE ent' = ent
    BY <2>1, <2>2
  <2>3. CASE ent' = [ent EXCEPT ![e].live = @ + 1]
    BY <1>1, <2>1, <2>3 DEF EntryFields
  <2>4. CASE ent' = [ent EXCEPT ![e].listed = @ + 1]
    BY <1>1, <2>1, <2>4 DEF EntryFields
  <2> QED BY <2>2, <2>3, <2>4 DEF TaskStep, SubscribeEntry, SubscribeEntryDone
<1>4. \A x \in Entries : Mild(x)
  <2> SUFFICES ASSUME NEW x \in Entries PROVE Mild(x)
    OBVIOUS
  <2>1. FeedOK(x) /\ (Open(x)' => Open(x))
    BY <1>3 DEF FeedInv, Open
  <2> QED BY <1>1, <1>2, <1>3, <2>1, MildSame
<1>5. \A l \in tasks' : l \in tasks \/ l = [k EXCEPT !.at = "append"]
  BY DEF TaskStep, SubscribeEntry, SubscribeEntryDone
<1>6. ASSUME NEW l, l = [k EXCEPT !.at = "append"] PROVE TaskOK(l)'
  <2>1. l.e = e /\ DOMAIN l = {"e", "v", "at", "by"}
    BY <1>1, <1>6
  <2>2. Allocated(e)' /\ ~Open(e)' /\ ~InFetch(e)'
    BY <1>1, <1>3 DEF Allocated, Open, InFetch, FetchingOf, At, BatchAt
  <2> QED BY <2>1, <2>2 DEF TaskOK, Allocated, Open, InFetch, FetchingOf, At, BatchAt
<1>7. \A l \in tasks' : l \in tasks \/ TaskOK(l)'
  BY <1>5, <1>6
<1> QED BY <1>1, <1>2, <1>4, <1>7, OthersMove

LEMMA SeqWider == ASSUME NEW A, NEW B, A \subseteq B PROVE Seq(A) \subseteq Seq(B)
<1> SUFFICES ASSUME NEW s \in Seq(A) PROVE s \in Seq(B)
  OBVIOUS
<1>1. s \in [1 .. Len(s) -> A] /\ Len(s) \in Nat
  BY LenProperties
<1>2. s \in [1 .. Len(s) -> B]
  BY <1>1
<1> QED BY <1>1, <1>2, SeqDef

LEMMA Repeated ==
  ASSUME NEW S, NEW u \in S, NEW m \in Nat, NEW a \in [1 .. m -> {u}]
  PROVE  a \in Seq(S) /\ Len(a) = m /\ \A i \in 1 .. m : a[i] = u
<1>1. a \in [1 .. m -> S] /\ \A i \in 1 .. m : a[i] = u
  OBVIOUS
<1>2. a \in Seq(S)
  BY <1>1, SeqDef
<1>3. Len(a) \in Nat /\ 1 .. Len(a) = 1 .. m
  BY <1>1, <1>2, LenProperties
<1>4. Len(a) = m
  BY <1>3
<1> QED BY <1>1, <1>2, <1>4

LEMMA FirstTaken ==
  ASSUME NEW S, NEW q \in Seq(S), q # <<>>
  PROVE  /\ Len(q) \in Nat \ {0} /\ Head(q) = q[1] /\ Head(q) \in S
         /\ Tail(q) \in Seq(S) /\ Len(Tail(q)) = Len(q) - 1
         /\ \A i \in 1 .. Len(q) - 1 : Tail(q)[i] = q[i + 1]
<1>1. Len(q) \in Nat \ {0} /\ Head(q) = q[1]
  BY EmptySeq
<1>2. /\ Head(q) \in S /\ Tail(q) \in Seq(S) /\ Len(Tail(q)) = Len(q) - 1
      /\ \A i \in 1 .. Len(Tail(q)) : Tail(q)[i] = q[i + 1]
  BY HeadTailProperties
<1> QED BY <1>1, <1>2

LEMMA UpdateFields ==
  ASSUME NEW n \in Nat, NEW u \in Updates(n) PROVE u.type \in Types /\ u.version \in UpTo(n)
  BY DEF Updates

LEMMA LaterUpdates ==
  ASSUME NEW n \in Nat, NEW k \in Nat, n < k PROVE UpTo(n) \subseteq UpTo(k) /\ Updates(n) \subseteq Updates(k)
<1>1. UpTo(n) \subseteq UpTo(k)
  BY DEF UpTo
<1> QED BY <1>1 DEF Updates

(* Taking the first update leaves the others in order.                       *)
LEMMA TakenInOrder ==
  ASSUME NEW n \in Nat, NEW r, Sorted(r, n), r.queue # <<>>, NEW u, u = Head(r.queue), NEW d,
         d = r.data \/ d = [r.data EXCEPT ![u.type] = u.version],
         NEW s, s.player = r.player, s.live = r.live, s.listed = r.listed, s.queue = Tail(r.queue), s.data = d
  PROVE  Sorted(s, n) /\ \A t \in Types : InOrder(r.data[t], d[t])
<1> PICK q : q = r.queue /\ q \in Seq(Updates(n)) /\ q # <<>>
  BY DEF Sorted
<1> PICK old : old = r.data /\ old \in [Types -> UpTo(n)]
  BY DEF Sorted
<1>1. /\ Len(q) \in Nat \ {0} /\ u = q[1] /\ u \in Updates(n)
      /\ Tail(q) \in Seq(Updates(n)) /\ Len(Tail(q)) = Len(q) - 1
      /\ \A i \in 1 .. Len(q) - 1 : Tail(q)[i] = q[i + 1]
  BY FirstTaken
<1>2. /\ \A i \in 1 .. Len(q) : InOrder(old[q[i].type], q[i].version)
      /\ \A i, j \in 1 .. Len(q) : i < j /\ q[i].type = q[j].type => InOrder(q[i].version, q[j].version)
  BY DEF Sorted
<1>3. u.type \in Types /\ u.version \in UpTo(n)
  BY <1>1, UpdateFields
<1>4. d \in [Types -> UpTo(n)] /\ \A t \in Types : d[t] = old[t] \/ (t = u.type /\ d[t] = u.version)
  BY <1>3
<1>5. \A t \in Types : InOrder(old[t], d[t])
  <2>1. \A t \in Types : InOrder(old[t], old[t])
    BY InOrderSame
  <2>2. InOrder(old[u.type], u.version)
    BY <1>1, <1>2
  <2> QED BY <1>4, <2>1, <2>2
<1>6. \A i \in 1 .. Len(Tail(q)) : InOrder(d[Tail(q)[i].type], Tail(q)[i].version)
  <2> SUFFICES ASSUME NEW i \in 1 .. Len(q) - 1 PROVE InOrder(d[q[i + 1].type], q[i + 1].version)
    BY <1>1
  <2>1. i + 1 \in 1 .. Len(q) /\ 1 \in 1 .. Len(q) /\ 1 < i + 1
    BY <1>1
  <2>2. q[i + 1].type \in Types
    BY <2>1, ElementOfSeq, UpdateFields
  <2>3. q[1].type = q[i + 1].type => InOrder(q[1].version, q[i + 1].version)
    BY <1>2, <2>1
  <2>4. InOrder(old[q[i + 1].type], q[i + 1].version)
    BY <1>2, <2>1
  <2> QED BY <1>1, <1>4, <2>2, <2>3, <2>4
<1>7. \A i, j \in 1 .. Len(Tail(q)) :
        i < j /\ Tail(q)[i].type = Tail(q)[j].type => InOrder(Tail(q)[i].version, Tail(q)[j].version)
  <2> SUFFICES ASSUME NEW i \in 1 .. Len(q) - 1, NEW j \in 1 .. Len(q) - 1, i < j, q[i + 1].type = q[j + 1].type
               PROVE  InOrder(q[i + 1].version, q[j + 1].version)
    BY <1>1
  <2>1. i + 1 \in 1 .. Len(q) /\ j + 1 \in 1 .. Len(q) /\ i + 1 < j + 1
    BY <1>1
  <2> QED BY <1>2, <2>1
<1>8. s.player \in Players \cup {NoPlayer} /\ s.live \in Int /\ s.listed \in Int
  BY DEF Sorted
<1> QED BY <1>1, <1>4, <1>5, <1>6, <1>7, <1>8 DEF Sorted

LEMMA UpdateFeed ==
  ASSUME Inv, FeedInv, NEW e \in Entries, Updating(e)
  PROVE  FeedInv' /\ Newer
<1>1. CASE ProcessorEnds(e)
  <2>1. Still
    BY <1>1 DEF ProcessorEnds, Still, Open, backend, Inv, EntriesOK, EntryFields
  <2> QED BY <1>1, <2>1, OthersStill DEF ProcessorEnds
<1>2. CASE ProcessUpdate(e)
  <2>1. /\ ent[e].queue # <<>> /\ FeedOK(e) /\ Sorted(ent[e], changes) /\ DOMAIN ent = Entries
        /\ DOMAIN ent[e] = EntryFields /\ UNCHANGED <<job, go, tasks, truth, changes>>
    BY <1>2 DEF ProcessUpdate, FeedInv, FeedOK, Inv, EntriesOK, backend
  <2>2. TruthOK' /\ Onward /\ changes \in Nat /\ changes' = changes
    BY <2>1 DEF FeedInv, TruthOK, Onward
  <2> PICK u : u = Head(ent[e].queue)
    OBVIOUS
  <2>3. PICK s, d :
          /\ ent'[e] = s /\ (\A x \in Entries \ {e} : ent'[x] = ent[x])
          /\ s.player = ent[e].player /\ s.live = ent[e].live /\ s.listed = ent[e].listed
          /\ s.queue = Tail(ent[e].queue) /\ s.data = d /\ s.status = ent[e].status
          /\ d = ent[e].data \/ d = [ent[e].data EXCEPT ![u.type] = u.version]
    <3>1. CASE ent' = [ent EXCEPT ![e].queue = Tail(@), ![e].proc = "ended"]
      <4>1. PICK s : s = [ent[e] EXCEPT !.queue = Tail(@), !.proc = "ended"] /\ ent' = [ent EXCEPT ![e] = s]
        <5>1. ent' = [ent EXCEPT ![e] = [ent[e] EXCEPT !.queue = Tail(@), !.proc = "ended"]]
          BY <2>1, <3>1
        <5> QED BY <5>1
      <4>2. /\ s.player = ent[e].player /\ s.live = ent[e].live /\ s.listed = ent[e].listed
            /\ s.queue = Tail(ent[e].queue) /\ s.data = ent[e].data /\ s.status = ent[e].status
        BY <2>1, <4>1 DEF EntryFields
      <4>3. ent'[e] = s /\ \A x \in Entries \ {e} : ent'[x] = ent[x]
        BY <2>1, <4>1
      <4> QED BY <4>2, <4>3
    <3>2. CASE ent' = [ent EXCEPT ![e].queue = Tail(@), ![e].data[u.type] = u.version, ![e].fetched = now]
      <4> PICK d : d = [ent[e].data EXCEPT ![u.type] = u.version]
        OBVIOUS
      <4>1. PICK s : s = [ent[e] EXCEPT !.queue = Tail(@), !.data = d, !.fetched = now] /\ ent' = [ent EXCEPT ![e] = s]
        <5>1. ent' = [ent EXCEPT ![e] = [ent[e] EXCEPT !.queue = Tail(@), !.data = d, !.fetched = now]]
          BY <2>1, <3>2
        <5> QED BY <5>1
      <4>2. /\ s.player = ent[e].player /\ s.live = ent[e].live /\ s.listed = ent[e].listed
            /\ s.queue = Tail(ent[e].queue) /\ s.data = d /\ s.status = ent[e].status
        BY <2>1, <4>1 DEF EntryFields
      <4>3. ent'[e] = s /\ \A x \in Entries \ {e} : ent'[x] = ent[x]
        BY <2>1, <4>1
      <4> QED BY <4>2, <4>3
    <3> QED BY <1>2, <3>1, <3>2 DEF ProcessUpdate
  <2>4. Sorted(s, changes) /\ \A t \in Types : InOrder(ent[e].data[t], s.data[t])
    <3>1. u = Head(ent[e].queue)
      OBVIOUS
    <3> QED BY <2>1, <2>2, <2>3, <3>1, TakenInOrder
  <2>5. Mild(e)
    <3>1. ~Blank(e) /\ (Open(e)' => Open(e))
      BY <2>1, <2>3 DEF Blank, Open
    <3> QED BY <2>2, <2>3, <2>4, <3>1 DEF Mild
  <2>6. \A x \in Entries \ {e} : Mild(x)
    <3> SUFFICES ASSUME NEW x \in Entries \ {e} PROVE Mild(x)
      OBVIOUS
    <3>1. ent'[x] = ent[x] /\ FeedOK(x) /\ (Open(x)' => Open(x))
      BY <2>3 DEF FeedInv, Open
    <3> QED BY <2>2, <3>1, MildSame
  <2> QED BY <2>1, <2>2, <2>5, <2>6, OthersMove
<1> QED BY <1>1, <1>2 DEF Updating

(* The backend changes: what it sends comes last and is newest.              *)
LEMMA SentInOrder ==
  ASSUME NEW n \in Nat, NEW k \in Nat, n < k, NEW r, Sorted(r, n), NEW u \in Updates(k), u.version \in {k, NoData},
         NEW s, s.player = r.player, s.live = r.live, s.listed = r.listed, s.data = r.data,
         NEW a \in Seq(Updates(k)), \A i \in 1 .. Len(a) : a[i] = u, s.queue = r.queue \o a
  PROVE  Sorted(s, k)
<1>0. PICK d, q, c :
      /\ d = r.data /\ q = r.queue /\ c = q \o a /\ s.queue = c
      /\ d \in [Types -> UpTo(n)] /\ q \in Seq(Updates(n))
      /\ \A i \in 1 .. Len(q) : InOrder(d[q[i].type], q[i].version)
      /\ \A i, j \in 1 .. Len(q) : i < j /\ q[i].type = q[j].type => InOrder(q[i].version, q[j].version)
  BY DEF Sorted
<1>1. /\ c \in Seq(Updates(k)) /\ Len(c) = Len(q) + Len(a) /\ Len(q) \in Nat
      /\ \A i \in 1 .. Len(c) : \/ i \in 1 .. Len(q) /\ c[i] = q[i] /\ q[i] \in Updates(n)
                                \/ i > Len(q) /\ c[i] = u
  <2>1. Updates(n) \subseteq Updates(k)
    BY LaterUpdates, Zenon
  <2>2. q \in Seq(Updates(k))
    BY <1>0, <2>1, SeqWider, Zenon
  <2>3. /\ q \o a \in Seq(Updates(k)) /\ Len(q \o a) = Len(q) + Len(a)
        /\ \A i \in 1 .. Len(q) + Len(a) : (q \o a)[i] = IF i <= Len(q) THEN q[i] ELSE a[i - Len(q)]
    BY <2>2, ConcatProperties
  <2>4. Len(q) \in Nat /\ Len(a) \in Nat
    BY <2>2, LenProperties
  <2>5. \A i \in 1 .. Len(q) : q[i] \in Updates(n)
    BY <1>0, ElementOfSeq
  <2>0. c = q \o a
    BY <1>0
  <2>6. ASSUME NEW i \in 1 .. Len(c)
        PROVE  \/ i \in 1 .. Len(q) /\ c[i] = q[i] /\ q[i] \in Updates(n)
               \/ i > Len(q) /\ c[i] = u
    <3>1. CASE i <= Len(q)
      <4>1. i \in 1 .. Len(q) /\ i \in 1 .. Len(q) + Len(a)
        BY <2>0, <2>3, <2>4, <3>1
      <4>2. (q \o a)[i] = q[i]
        BY <2>3, <3>1, <4>1
      <4>3. q[i] \in Updates(n)
        BY <2>5, <4>1
      <4>4. c[i] = q[i]
        BY <2>0, <4>2, Zenon
      <4> QED BY <4>1, <4>3, <4>4
    <3>2. CASE i > Len(q)
      <4>1. i - Len(q) \in 1 .. Len(a) /\ i \in 1 .. Len(q) + Len(a) /\ ~(i <= Len(q))
        BY <2>0, <2>3, <2>4, <3>2
      <4> QED BY <2>0, <2>3, <4>1, <3>2
    <3> QED BY <2>4, <3>1, <3>2
  <2> QED BY <2>0, <2>3, <2>4, <2>6
<1>2. u.type \in Types /\ \A w \in Updates(n) : w.type \in Types /\ w.version \in UpTo(n)
  BY UpdateFields
<1>3. \A w \in UpTo(n) : InOrder(w, u.version)
  BY DEF UpTo, InOrder
<1>4. InOrder(u.version, u.version)
  BY DEF InOrder
<1>5. ASSUME NEW i \in 1 .. Len(c) PROVE InOrder(d[c[i].type], c[i].version)
  <2>1. CASE i \in 1 .. Len(q) /\ c[i] = q[i]
    BY <1>0, <2>1
  <2>2. CASE c[i] = u
    BY <1>0, <1>2, <1>3, <2>2
  <2> QED BY <1>1, <2>1, <2>2
<1>6. ASSUME NEW i \in 1 .. Len(c), NEW j \in 1 .. Len(c), i < j, c[i].type = c[j].type
      PROVE  InOrder(c[i].version, c[j].version)
  <2>1. CASE j \in 1 .. Len(q) /\ c[j] = q[j]
    <3>1. i \in 1 .. Len(q) /\ c[i] = q[i]
      BY <1>1, <1>6, <2>1
    <3> QED BY <1>0, <1>6, <2>1, <3>1
  <2>2. CASE c[j] = u
    BY <1>1, <1>2, <1>3, <1>4, <2>2
  <2> QED BY <1>1, <2>1, <2>2
<1>7. d \in [Types -> UpTo(k)]
  <2>1. UpTo(n) \subseteq UpTo(k)
    BY LaterUpdates, Zenon
  <2> QED BY <1>0, <2>1
<1>8. s.player \in Players \cup {NoPlayer} /\ s.live \in Int /\ s.listed \in Int
  BY DEF Sorted
<1> QED BY <1>0, <1>1, <1>5, <1>6, <1>7, <1>8 DEF Sorted

(* What is in order before a change is so after it.                          *)
LEMMA SortedLater ==
  ASSUME NEW n \in Nat, NEW k \in Nat, n < k, NEW r, Sorted(r, n) PROVE Sorted(r, k)
<1>1. UpTo(n) \subseteq UpTo(k) /\ Updates(n) \subseteq Updates(k)
  BY LaterUpdates
<1>2. r.data \in [Types -> UpTo(k)]
  BY <1>1 DEF Sorted
<1>3. r.queue \in Seq(Updates(k))
  BY <1>1, SeqWider DEF Sorted
<1> QED BY <1>2, <1>3 DEF Sorted

LEMMA ChangeFeed ==
  ASSUME Inv, FeedInv, NEW pl \in Players, NEW t \in Types, NEW version, Change(pl, t, version)
  PROVE  FeedInv' /\ Newer
<1> PICK n : n = changes
  OBVIOUS
<1>a. PICK k : k = n + 1
  OBVIOUS
<1>b. PICK u : u = [type |-> t, version |-> version]
  OBVIOUS
<1>1. /\ n \in Nat /\ k \in Nat /\ n < k /\ changes' = k /\ version \in {k, NoData} /\ truth[pl][t] # NoData
      /\ truth' = [truth EXCEPT ![pl][t] = version] /\ UNCHANGED <<job, go, tasks>>
      /\ truth \in [Players -> [Types -> UpTo(n)]] /\ DOMAIN ent = Entries
  BY <1>a DEF Change, FeedInv, TruthOK, Inv, EntriesOK
<1>2. TruthOK'
  <2>1. UpTo(n) \subseteq UpTo(k) /\ version \in UpTo(k) /\ k \in Nat
    BY <1>1, LaterUpdates DEF UpTo
  <2>2. truth \in [Players -> [Types -> UpTo(k)]]
    BY <1>1, <2>1
  <2>3. truth' \in [Players -> [Types -> UpTo(k)]]
    BY <1>1, <2>1, <2>2
  <2> QED BY <1>1, <2>1, <2>3 DEF TruthOK
<1>3. Onward
  <2>1. \A b \in Players : \A y \in Types : truth[b][y] = NoData => truth'[b][y] = NoData
    BY <1>1
  <2> QED BY <1>1, <2>1 DEF Onward
<1>4. \A e \in Entries : Mild(e)
  <2> SUFFICES ASSUME NEW e \in Entries PROVE Mild(e)
    OBVIOUS
  <2>1. FeedOK(e) /\ Sorted(ent[e], n) /\ DOMAIN ent[e] = EntryFields
    BY DEF FeedInv, FeedOK, Inv, EntriesOK
  <2>2. \/ ent'[e] = ent[e]
        \/ ent[e].live > 0 /\ ent'[e] = [ent[e] EXCEPT !.queue = @ \o [i \in 1 .. ent[e].live |-> u]]
    BY <1>b DEF Change
  <2>3. CASE ent'[e] = ent[e]
    <3>1. Sorted(ent'[e], k)
      BY <1>1, <2>1, <2>3, SortedLater
    <3>2. \A y \in Types : InOrder(ent[e].data[y], ent'[e].data[y])
      BY <2>3, SameOrder
    <3> QED BY <1>1, <2>3, <3>1, <3>2 DEF Mild, Blank, Open
  <2>4. CASE ent[e].live > 0 /\ ent'[e] = [ent[e] EXCEPT !.queue = @ \o [i \in 1 .. ent[e].live |-> u]]
    <3>1. PICK s : /\ s = [ent[e] EXCEPT !.queue = @ \o [i \in 1 .. ent[e].live |-> u]]
                   /\ ent'[e] = s
      BY <2>4
    <3>2. /\ s.player = ent[e].player /\ s.live = ent[e].live /\ s.listed = ent[e].listed /\ s.data = ent[e].data
          /\ s.queue = ent[e].queue \o [i \in 1 .. ent[e].live |-> u]
          /\ s.status = ent[e].status
      BY <2>1, <3>1 DEF EntryFields
    <3>3. Sorted(s, k)
      <4>1. version \in UpTo(k)
        BY <1>1 DEF UpTo
      <4>2. u \in Updates(k) /\ u.version \in {k, NoData}
        BY <1>1, <1>b, <4>1 DEF Updates
      <4>3. PICK m : m = ent[e].live /\ m \in Nat
        BY <2>1, <2>4 DEF Sorted
      <4>4. PICK a : a = [i \in 1 .. m |-> u]
        OBVIOUS
      <4>5. a \in Seq(Updates(k)) /\ \A i \in 1 .. Len(a) : a[i] = u
        <5>1. a \in [1 .. m -> {u}]
          BY <4>4
        <5>2. a \in Seq(Updates(k)) /\ Len(a) = m /\ \A i \in 1 .. m : a[i] = u
          <6>1. u \in Updates(k) /\ m \in Nat
            BY <4>2, <4>3
          <6> QED BY <5>1, <6>1, Repeated
        <5> QED BY <5>2
      <4>6. s.queue = ent[e].queue \o a
        BY <3>2, <4>3, <4>4
      <4> QED BY <1>1, <2>1, <3>2, <4>2, <4>5, <4>6, SentInOrder, Zenon
    <3>4. \A y \in Types : InOrder(ent[e].data[y], ent'[e].data[y])
      BY <3>1, <3>2, SameOrder
    <3>5. ~Blank(e) /\ (Open(e)' => Open(e))
      BY <2>1, <2>4, <3>1, <3>2 DEF Blank, Open, Sorted
    <3> QED BY <1>1, <3>1, <3>2, <3>3, <3>4, <3>5 DEF Mild
  <2> QED BY <2>2, <2>3, <2>4
<1> QED BY <1>1, <1>2, <1>3, <1>4, OthersMove

LEMMA CloserFeed ==
  ASSUME Inv, FeedInv, NEW c \in {"cleanup", "stop"}, CloserStep(c)
  PROVE  FeedInv' /\ Newer
<1>1. UNCHANGED <<job, go, tasks, truth, changes>>
  BY DEF CloserStep, Visit, AllVisited, SwapStatus, CloseSubscriptions, CloseChannel, Delete, backend
<1>2. CASE ent' = ent
  <2>1. Still
    BY <1>1, <1>2 DEF Still, Open
  <2> QED BY <1>1, <2>1, OthersStill
<1>3. CASE SwapStatus(c)
  <2>1. Still
    BY <1>1, <1>3 DEF SwapStatus, Still, Open, Inv, EntriesOK, EntryFields
  <2> QED BY <1>1, <2>1, OthersStill
<1>4. CASE CloseSubscriptions(c)
  <2> PICK e : e = closer[c].e
    OBVIOUS
  <2>1. ent' = [ent EXCEPT ![e].live = @ - ent[e].listed, ![e].listed = 0]
    BY <1>4 DEF CloseSubscriptions, ListedAfter
  <2>2. ent' = [ent EXCEPT ![e] = [ent[e] EXCEPT !.live = @ - ent[e].listed, !.listed = 0]]
    BY <2>1
  <2>3. Still
    BY <1>1, <2>2 DEF Still, Open, Inv, EntriesOK, EntryFields
  <2> QED BY <1>1, <2>3, OthersStill
<1>5. CASE CloseChannel(c)
  <2>1. Still
    BY <1>1, <1>5 DEF CloseChannel, Still, Open, Inv, EntriesOK, EntryFields
  <2> QED BY <1>1, <2>1, OthersStill
<1>6. ent' = ent \/ SwapStatus(c) \/ CloseSubscriptions(c) \/ CloseChannel(c)
  BY DEF CloserStep, Visit, AllVisited, Delete, cacheVars
<1> QED BY <1>2, <1>3, <1>4, <1>5, <1>6

LEMMA FeedNext ==
  ASSUME Inv, FeedInv, SingleSource, "empty" \notin Faults, [Next]_vars
  PROVE  FeedInv' /\ Newer
<1>1. ASSUME NEW p \in Callers, CallAny(p) \/ CallerStep(p) \/ Locking(p) PROVE FeedInv' /\ Newer
  BY <1>1, CallFeed, FoundFeed, CreateFeed, LookFeed, FetchDoneFeed, CheckFeed, PassFeed, AnswersFeed,
     ApplyFeed, SetStatusFeed, SubscribedFeed, LockFeed, LockNextFeed DEF CallerStep, Locking
<1>2. ASSUME NEW p \in Callers, NEW v \in Providers, GoStep(p, v) PROVE FeedInv' /\ Newer
  BY <1>2, FetchFeed, StoreFeed, SubscribeFeed DEF GoStep
<1>3. ASSUME NEW k \in tasks, TaskStep(k) PROVE FeedInv' /\ Newer
  BY <1>3, TaskFeed
<1>4. ASSUME NEW e \in Entries, Updating(e) PROVE FeedInv' /\ Newer
  BY <1>4, UpdateFeed
<1>5. ASSUME NEW pl \in Players, NEW t \in Types, NEW n, Change(pl, t, n) PROVE FeedInv' /\ Newer
  BY <1>5, ChangeFeed
<1>6. ASSUME NEW c \in {"cleanup", "stop"}, CloserStep(c) PROVE FeedInv' /\ Newer
  BY <1>6, CloserFeed
<1>7. CASE Tick \/ StartCleanup \/ Stop \/ UNCHANGED vars
  <2>1. UNCHANGED <<ent, job, go, tasks, truth, changes>>
    BY <1>7 DEF Tick, StartCleanup, Stop, vars, cacheVars, backend
  <2>2. Still
    BY <2>1 DEF Still, Open
  <2> QED BY <2>1, <2>2, OthersStill
<1> QED BY <1>1, <1>2, <1>3, <1>4, <1>5, <1>6, <1>7 DEF Next

LEMMA FeedInit == ASSUME Init PROVE FeedInv
<1>1. NewEntry(NoPlayer).player = NoPlayer /\ NewEntry(NoPlayer).live = 0 /\ NewEntry(NoPlayer).listed = 0
      /\ NewEntry(NoPlayer).queue = <<>> /\ NewEntry(NoPlayer).data = Nothing
  BY DEF NewEntry
<1>2. PICK r : r = NewEntry(NoPlayer) /\ \A e \in Entries : ent[e] = r
  BY DEF Init
<1>3. Nothing \in [Types -> UpTo(0)]
  BY DEF Nothing, UpTo
<1>0. r.player = NoPlayer /\ r.live = 0 /\ r.listed = 0 /\ r.queue = <<>> /\ r.data = Nothing
  BY <1>1, <1>2
<1>4. Sorted(r, 0)
  <2>1. Len(<<>>) = 0 /\ \A S : <<>> \in Seq(S)
    OBVIOUS
  <2> QED BY <1>0, <1>3, <2>1 DEF Sorted
<1>5. changes = 0
  BY DEF Init
<1>6. \A e \in Entries : FeedOK(e)
  BY <1>1, <1>2, <1>4, <1>5 DEF FeedOK, Blank
<1>7. TruthOK
  BY DEF Init, TruthOK, UpTo
<1>8. GoTyped
  BY DEF Init, GoTyped, NoGo
<1>9. \A p \in Callers : FetchOK(p) /\ BatchOK(p)
  <2> SUFFICES ASSUME NEW p \in Callers PROVE FetchOK(p) /\ BatchOK(p)
    OBVIOUS
  <2>1. PICK n : n = NoJob /\ job[p] = n
    BY DEF Init
  <2>2. n.pc = "idle" /\ n.v = 1
    BY <2>1 DEF NoJob
  <2>3. \A v \in Providers : go[p][v].at = "idle"
    BY DEF Init, NoGo
  <2> QED BY <2>1, <2>2, <2>3 DEF FetchOK, BatchOK
<1>10. tasks = {}
  BY DEF Init
<1> QED BY <1>6, <1>7, <1>8, <1>9, <1>10 DEF FeedInv

(* No update is overwritten by data that was fetched before it, if one       *)
(* backend serves all types and answers with what it has or with an error: a *)
(* fetch is stored only into an entry that is blank, whose lock keeps others *)
(* away until the subscription of the fetch starts (fetchAndSubscribe,       *)
(* batchFetch), and updates of a subscription come in the order of changes.  *)
THEOREM FetchesAreNotOlder ==
  ASSUME SingleSource, "empty" \notin Faults PROVE Spec => NeverOlder
<1>1. Init => FeedInv
  BY FeedInit
<1>2. Inv /\ FeedInv /\ [Next]_vars => FeedInv'
  BY FeedNext
<1>3. Inv /\ FeedInv /\ [Next]_vars
        => [\A e \in Entries, t \in Types :
              ent[e].data[t] # NoData /\ ent'[e].data[t] # NoData => ent'[e].data[t] >= ent[e].data[t]]_vars
  BY FeedNext DEF Newer, InOrder
<1> QED BY <1>1, <1>2, <1>3, Inductive, PTL DEF Spec, NeverOlder

=============================================================================
