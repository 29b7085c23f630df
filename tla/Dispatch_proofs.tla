--------------------------- MODULE Dispatch_proofs ---------------------------
(****************************************************************************)
(* Proofs about Dispatch for any systems, sessions, executors and events:   *)
(* an object or an event serves one executor at a time, what lies in a pool *)
(* holds nothing of anybody, and a system runs with the fields of the       *)
(* sessions it runs for.                                                    *)
(*                                                                          *)
(* The invariant says of each object and event whose it is, and of each     *)
(* executor how far it has come: which of its fields have been filled, and  *)
(* that the component it reaches the others through is of the session of    *)
(* the window it is in. A step writes to no object but its executor's own,  *)
(* so what is known of the others stays.                                    *)
(****************************************************************************)
EXTENDS Dispatch, SequenceTheorems, FiniteSetTheorems, TLAPS

(* A sequence, whatever it holds.                                            *)
IsSeq(q) == q \in Seq({q[i] : i \in DOMAIN q})

(* The value of a field.                                                     *)
IsValue(v) == v = [buf |-> v.buf, len |-> v.len] /\ IsSeq(v.buf) /\ v.len \in Nat

(* The memory: a value in each field of each object.                         *)
IsObject(o, m) ==
  m = [i \in DOMAIN Fields[o[1]] |-> m[i]] /\ \A i \in DOMAIN Fields[o[1]] : IsValue(m[i])

MemOK == mem = [o \in Objects |-> mem[o]] /\ \A o \in Objects : IsObject(o, mem[o])

(* No field of the object refers to anything.                                *)
Clean(o) == \A i \in DOMAIN Fields[o[1]] : Seen(mem[o][i]) = <<>>

(* Whose an object or an event is.                                           *)
PoolOK ==
  /\ pool \in [Objects -> {0, 1}]
  /\ \A o \in Objects : pool[o] = 1 => o \in Pooled /\ Clean(o) /\ \A g \in Execs : exec[g].obj # o
  /\ \A g, h \in Execs : exec[g].obj = exec[h].obj /\ exec[g].obj # NoObject => g = h

EventsOK ==
  /\ evPool \in [Events -> {0, 1}]
  /\ \A e \in Events : evPool[e] = 1 => \A g \in Execs : exec[g].ev # e
  /\ \A g, h \in Execs : exec[g].ev = exec[h].ev /\ exec[g].ev # NoEvent => g = h

(* An executor's record, whatever its parts are.                             *)
IsExec(x) ==
  x = [pc |-> x.pc, kind |-> x.kind, ev |-> x.ev, of |-> x.of, quit |-> x.quit, all |-> x.all,
       except |-> x.except, hear |-> x.hear, todo |-> x.todo, obj |-> x.obj, i |-> x.i,
       win |-> x.win, last |-> x.last, tgt |-> x.tgt, got |-> x.got]

Injecting == {"inject", "open?", "collect", "run"}

(* The fields that the system of x has been given.                           *)
Given(x) == IF x.pc = "run" THEN DOMAIN Fields[Sys(x)] ELSE 1 .. x.i - 1

(* The way that the fields to come are reached through.                      *)
WayOK(x) == x.last # <<>> => x.last[1].of = Own(x)

(* What an executor holds at each point of its way.                          *)
ExecOK(x) ==
  /\ IsExec(x)
  /\ x.pc \in {"idle", "next", "get", "zero", "put", "close", "clear"} \cup Injecting
  /\ x.kind \in {"none", "handler", "loop", "task"}
  /\ x.ev \in Events \cup {NoEvent}
  /\ x.obj \in Objects \cup {NoObject}
  /\ x.kind = "none" <=> x.pc \in {"idle", "close", "clear"}
  /\ x.pc \in {"next", "get"} => x.i = 1 /\ x.win = 0 /\ x.last = <<>>
  /\ x.pc # "collect" => x.got = <<>>
  /\ x.pc \in {"zero", "put"} \cup Injecting => x.obj \in Objects /\ x.todo # <<>>
  /\ x.kind \in {"loop", "task"} =>
       /\ x.hear = <<>> /\ ~x.all /\ x.pc # "put"
       /\ x.obj \in Objects /\ IsSeq(x.todo) /\ \A k \in DOMAIN x.todo : x.todo[k].sys = x.obj[1]
  /\ x.kind \in {"handler", "loop"} => x.obj \in Pooled \cup {NoObject}
  /\ x.kind = "task" => x.pc # "zero"
  /\ x.pc = "get" => x.kind = "handler" /\ x.todo # <<>>
  /\ x.pc = "put" => Clean(x.obj)

(* How far the object of the system is filled, and with whose components.    *)
InjectOK(x) ==
  x.pc \in Injecting =>
    /\ Sys(x) = x.obj[1] /\ x.i \in DOMAIN Fields[Sys(x)]
    /\ WayOK(x)
    /\ \A i \in Given(x) : Fitting(x, i)
    /\ x.pc \in {"open?", "collect"} =>
         /\ FieldOf(x).kind \in {"relation", "relations"}
         /\ x.win = WindowOf[Sys(x)][x.i] /\ x.last # <<>>
    /\ x.pc = "collect" =>
         IsSeq(x.got) /\ \A p \in ToSet(x.got) : p.via = Own(x) /\ p.comp = FieldOf(x).comp

Inv ==
  /\ exec = [g \in Execs |-> exec[g]]
  /\ MemOK /\ PoolOK /\ EventsOK
  /\ \A g \in Execs : ExecOK(exec[g]) /\ InjectOK(exec[g])

-----------------------------------------------------------------------------
(* Sequences and the values of fields.                                       *)

LEMMA SeqIs ==
  ASSUME NEW S, NEW q \in Seq(S)
  PROVE  IsSeq(q)
<1>1. DOMAIN q = 1 .. Len(q) /\ Len(q) \in Nat
  OBVIOUS
<1>2. q \in [1 .. Len(q) -> {q[i] : i \in DOMAIN q}]
  BY <1>1
<1> QED
  BY <1>1, <1>2, SeqDef DEF IsSeq

LEMMA EmptyIs == IsSeq(<<>>)
<1>1. <<>> \in Seq({})
  OBVIOUS
<1> QED BY <1>1, SeqIs

LEMMA OneIs ==
  ASSUME NEW e
  PROVE  IsSeq(<<e>>) /\ <<e>> # <<>> /\ DOMAIN <<e>> = {1} /\ <<e>>[1] = e /\ Len(<<e>>) = 1
<1>1. <<e>> \in Seq({e})
  OBVIOUS
<1>2. IsSeq(<<e>>)
  BY <1>1, SeqIs
<1>3. DOMAIN <<e>> = 1 .. 1 /\ <<e>>[1] = e /\ Len(<<e>>) = 1
  OBVIOUS
<1>4. 1 .. 1 = {1} /\ <<e>> # <<>>
  OBVIOUS
<1> QED BY <1>2, <1>3, <1>4

LEMMA TailIs ==
  ASSUME NEW q, IsSeq(q), q # <<>>
  PROVE  /\ IsSeq(Tail(q)) /\ Head(q) = q[1] /\ 1 \in DOMAIN q
         /\ \A k \in DOMAIN Tail(q) : k + 1 \in DOMAIN q /\ Tail(q)[k] = q[k + 1]
<1> DEFINE S == {q[i] : i \in DOMAIN q}
<1>1. q \in Seq(S)
  BY DEF IsSeq
<1> HIDE DEF S
<1>2. Tail(q) \in Seq(S)
  BY <1>1
<1>3. Head(q) = q[1] /\ 1 \in DOMAIN q
  BY <1>1
<1>4. \A k \in DOMAIN Tail(q) : k + 1 \in DOMAIN q /\ Tail(q)[k] = q[k + 1]
  BY <1>1
<1> QED BY <1>2, <1>3, <1>4, SeqIs

LEMMA AppendIs ==
  ASSUME NEW q, IsSeq(q), NEW e
  PROVE  IsSeq(Append(q, e)) /\ ToSet(Append(q, e)) = ToSet(q) \cup {e}
<1> DEFINE S == {q[i] : i \in DOMAIN q} \cup {e}
<1>1. q \in Seq(S)
  <2>1. q \in Seq({q[i] : i \in DOMAIN q})
    BY DEF IsSeq
  <2> QED BY <2>1
<1> HIDE DEF S
<1>2. Append(q, e) \in Seq(S)
  BY <1>1 DEF S
<1>3. ToSet(Append(q, e)) = ToSet(q) \cup {e}
  <2>1. /\ DOMAIN q = 1 .. Len(q) /\ Len(q) \in Nat
        /\ DOMAIN Append(q, e) = 1 .. Len(q) + 1 /\ Append(q, e)[Len(q) + 1] = e
        /\ \A i \in 1 .. Len(q) : Append(q, e)[i] = q[i]
    BY <1>1
  <2>2. \A i \in 1 .. Len(q) + 1 : i \in 1 .. Len(q) \/ i = Len(q) + 1
    BY <2>1
  <2>3. Len(q) + 1 \in DOMAIN Append(q, e) /\ \A i \in DOMAIN q : i \in DOMAIN Append(q, e)
    BY <2>1
  <2> QED BY <2>1, <2>2, <2>3 DEF ToSet
<1> QED BY <1>2, <1>3, SeqIs

LEMMA ValueIs ==
  ASSUME NEW q, IsSeq(q)
  PROVE  IsValue([buf |-> q, len |-> Len(q)]) /\ Seen([buf |-> q, len |-> Len(q)]) = q
<1> DEFINE S == {q[i] : i \in DOMAIN q}
<1>1. q \in Seq(S)
  BY DEF IsSeq
<1> HIDE DEF S
<1>2. Len(q) \in Nat /\ SubSeq(q, 1, Len(q)) = q
  BY <1>1
<1> QED BY <1>2 DEF IsValue, Seen

LEMMA BlankIs == IsValue(Blank) /\ Seen(Blank) = <<>>
<1>1. Len(<<>>) = 0
  OBVIOUS
<1> QED BY <1>1, EmptyIs, ValueIs DEF Blank

LEMMA NoneSeen ==
  ASSUME NEW v, IsValue(v)
  PROVE  IsValue([v EXCEPT !.len = 0]) /\ Seen([v EXCEPT !.len = 0]) = <<>>
<1> DEFINE S == {v.buf[i] : i \in DOMAIN v.buf}
<1>1. v.buf \in Seq(S)
  BY DEF IsValue, IsSeq
<1> HIDE DEF S
<1>2. SubSeq(v.buf, 1, 0) = <<>>
  BY <1>1
<1>3. [v EXCEPT !.len = 0] = [buf |-> v.buf, len |-> 0]
  BY DEF IsValue
<1> QED BY <1>2, <1>3 DEF IsValue, Seen

LEMMA FilledIs ==
  ASSUME NEW v, IsValue(v), NEW ps, IsSeq(ps)
  PROVE  IsValue(Filled(v, ps)) /\ Seen(Filled(v, ps)) = ps
<1>1. CASE ps = <<>>
  BY <1>1, NoneSeen DEF Filled
<1>2. CASE ps # <<>>
  <2> DEFINE S == {ps[i] : i \in DOMAIN ps} \cup {v.buf[i] : i \in DOMAIN v.buf}
             rest == SubSeq(v.buf, Len(ps) + 1, Len(v.buf))
  <2>1. ps \in Seq(S)
    <3>1. ps \in Seq({ps[i] : i \in DOMAIN ps})
      BY DEF IsSeq
    <3> QED BY <3>1
  <2>2. v.buf \in Seq(S)
    <3>1. v.buf \in Seq({v.buf[i] : i \in DOMAIN v.buf})
      BY DEF IsValue, IsSeq
    <3> QED BY <3>1
  <2> HIDE DEF S
  <2>3. rest \in Seq(S) /\ Len(ps) \in Nat
    BY <2>1, <2>2
  <2> HIDE DEF rest
  <2>4. ps \o rest \in Seq(S) /\ SubSeq(ps \o rest, 1, Len(ps)) = ps
    BY <2>1, <2>3
  <2>5. Filled(v, ps) = [buf |-> ps \o rest, len |-> Len(ps)]
    BY <1>2 DEF Filled, rest
  <2>6. Filled(v, ps).buf = ps \o rest /\ Filled(v, ps).len = Len(ps)
    BY <2>5
  <2>7. IsSeq(ps \o rest)
    BY <2>4, SeqIs
  <2> QED BY <2>3, <2>4, <2>5, <2>6, <2>7 DEF IsValue, Seen
<1> QED BY <1>1, <1>2

LEMMA NextItemIs ==
  ASSUME NEW x, IsExec(x), NEW y, y = NextItem(x)
  PROVE  /\ IsExec(y) /\ y.pc = "next" /\ y.todo = Tail(x.todo)
         /\ y.i = 1 /\ y.win = 0 /\ y.last = <<>>
         /\ y.kind = x.kind /\ y.ev = x.ev /\ y.got = x.got
         /\ y.obj = IF x.kind = "handler" THEN NoObject ELSE x.obj
  BY DEF IsExec, NextItem

LEMMA NoneApart == NoObject \notin Objects /\ NoEvent \notin Events
<1>1. Objects \subseteq Systems \X Nat
  BY DispatchBounds DEF Objects
<1> QED BY <1>1, DispatchNone

LEMMA FieldsIs ==
  ASSUME NEW o \in Objects
  PROVE  /\ o[1] \in Systems /\ DOMAIN Fields[o[1]] = 1 .. Len(Fields[o[1]])
         /\ Len(Fields[o[1]]) \in Nat /\ 1 \in DOMAIN Fields[o[1]]
<1>1. o[1] \in Systems
  BY DEF Objects
<1>2. /\ Fields[o[1]] # <<>>
      /\ Fields[o[1]] \in Seq([kind : Kinds, comp : Comps \cup Resources \cup {NoSystem}, opt : BOOLEAN])
  BY <1>1, DispatchSystems
<1> QED BY <1>1, <1>2

LEMMA FittingStays ==
  ASSUME NEW x, mem'[x.obj] = mem[x.obj], NEW i, Fitting(x, i)
  PROVE  Fitting(x, i)'
  BY DEF Fitting

(* What is known of x is known of the executor that x is.                    *)
LEMMA InjectOf ==
  ASSUME NEW h, NEW x, exec'[h] = x, InjectOK(x)'
  PROVE  InjectOK(exec[h])'
<1>1. Given(exec[h])' = Given(x)'
  BY DEF Given, Sys
<1>2. \A i : Fitting(exec[h], i)' <=> Fitting(x, i)'
  BY DEF Fitting, Sys
<1>3. (\A i \in Given(x) : Fitting(x, i))' => (\A i \in Given(exec[h]) : Fitting(exec[h], i))'
  BY <1>1, <1>2
<1> HIDE <1>1, <1>2
<1> QED BY <1>3 DEF InjectOK

(* What another executor holds, and knows, is not touched.                   *)
LEMMA OthersKeep ==
  ASSUME Inv, NEW g \in Execs, NEW n, exec' = [exec EXCEPT ![g] = n],
         \A o \in Objects : o # exec[g].obj => mem'[o] = mem[o]
  PROVE  \A h \in Execs \ {g} : exec'[h] = exec[h] /\ ExecOK(exec[h])' /\ InjectOK(exec[h])'
<1> TAKE h \in Execs \ {g}
<1> PICK x : x = exec[h]
  OBVIOUS
<1>1. exec'[h] = x
  BY DEF Inv
<1>2. ExecOK(x) /\ InjectOK(x)
  BY DEF Inv
<1>3. x.obj \in Objects => mem'[x.obj] = mem[x.obj]
  BY NoneApart DEF Inv, PoolOK
<1>4. ExecOK(x)'
  BY <1>2, <1>3 DEF ExecOK, Clean
<1>5. InjectOK(x)'
  <2>1. CASE x.pc \in Injecting
    <3>1. mem'[x.obj] = mem[x.obj]
      BY <1>2, <1>3, <2>1 DEF ExecOK
    <3>2. \A i \in Given(x) : Fitting(x, i)'
      BY <1>2, <2>1, <3>1, FittingStays DEF InjectOK
    <3> QED BY <1>2, <2>1, <3>2 DEF InjectOK
  <2>2. CASE x.pc \notin Injecting
    BY <2>2 DEF InjectOK
  <2> QED BY <2>1, <2>2
<1>6. ExecOK(exec[h])'
  BY <1>1, <1>4 DEF ExecOK
<1>7. InjectOK(exec[h])'
  BY <1>1, <1>5, InjectOf
<1> QED BY <1>1, <1>6, <1>7

(* The parts of the invariant after a step of one executor, that writes to   *)
(* no object but its own.                                                    *)
LEMMA ExecKeeps ==
  ASSUME Inv, NEW g \in Execs, NEW n, exec' = [exec EXCEPT ![g] = n],
         \A o \in Objects : o # exec[g].obj => mem'[o] = mem[o],
         MemOK', PoolOK', EventsOK', ExecOK(n)', InjectOK(n)'
  PROVE  Inv'
<1>1. exec' = [h \in Execs |-> exec'[h]] /\ exec'[g] = n
  BY DEF Inv
<1>2. \A h \in Execs : ExecOK(exec[h])' /\ InjectOK(exec[h])'
  <2> TAKE h \in Execs
  <2>1. CASE h # g
    BY <2>1, OthersKeep
  <2>2. CASE h = g
    <3>1. ExecOK(exec[g])'
      BY <1>1 DEF ExecOK
    <3>2. InjectOK(exec[g])'
      BY <1>1, InjectOf
    <3> QED BY <2>2, <3>1, <3>2
  <2> QED BY <2>1, <2>2
<1> QED BY <1>1, <1>2 DEF Inv

(* Objects: one kept or let go, one taken, one returned to its pool.         *)
LEMMA ObjectKept ==
  ASSUME Inv, NEW g \in Execs, NEW n, exec' = [exec EXCEPT ![g] = n],
         n.obj \in {exec[g].obj, NoObject}, pool' = pool,
         \A o \in Objects : o # exec[g].obj => mem'[o] = mem[o]
  PROVE  PoolOK'
<1>1. exec'[g] = n /\ \A h \in Execs : h # g => exec'[h] = exec[h]
  BY DEF Inv
<1>2. \A o \in Objects : pool[o] = 1 => o \in Pooled /\ Clean(o)'
  <2> SUFFICES ASSUME NEW o \in Objects, pool[o] = 1 PROVE o \in Pooled /\ Clean(o)'
    OBVIOUS
  <2>1. o \in Pooled /\ Clean(o) /\ o # exec[g].obj
    BY DEF Inv, PoolOK
  <2> QED BY <2>1 DEF Clean
<1>3. \A o \in Objects : pool[o] = 1 => \A h \in Execs : exec'[h].obj # o
  BY <1>1, NoneApart DEF Inv, PoolOK
<1>4. \A k, h \in Execs : exec'[k].obj = exec'[h].obj /\ exec'[k].obj # NoObject => k = h
  BY <1>1 DEF Inv, PoolOK
<1>5. pool' \in [Objects -> {0, 1}]
  BY DEF Inv, PoolOK
<1> QED BY <1>2, <1>3, <1>4, <1>5 DEF PoolOK

LEMMA ObjectTaken ==
  ASSUME Inv, NEW g \in Execs, NEW n, exec' = [exec EXCEPT ![g] = n],
         n.obj \in Objects, \A h \in Execs : exec[h].obj # n.obj,
         pool' = [pool EXCEPT ![n.obj] = 0], mem' = mem
  PROVE  PoolOK'
<1>1. exec'[g] = n /\ \A h \in Execs : h # g => exec'[h] = exec[h]
  BY DEF Inv
<1>2. \A o \in Objects : pool'[o] = 1 => pool[o] = 1 /\ o # n.obj
  BY DEF Inv, PoolOK
<1>3. \A o \in Objects : pool'[o] = 1 => o \in Pooled /\ Clean(o)'
  <2> SUFFICES ASSUME NEW o \in Objects, pool'[o] = 1 PROVE o \in Pooled /\ Clean(o)'
    OBVIOUS
  <2>1. o \in Pooled /\ Clean(o)
    BY <1>2 DEF Inv, PoolOK
  <2> QED BY <2>1 DEF Clean
<1>4. \A o \in Objects : pool'[o] = 1 => \A h \in Execs : exec'[h].obj # o
  BY <1>1, <1>2 DEF Inv, PoolOK
<1>5. \A k, h \in Execs : exec'[k].obj = exec'[h].obj /\ exec'[k].obj # NoObject => k = h
  BY <1>1 DEF Inv, PoolOK
<1>6. pool' \in [Objects -> {0, 1}]
  BY DEF Inv, PoolOK
<1> QED BY <1>3, <1>4, <1>5, <1>6 DEF PoolOK

LEMMA ObjectReturned ==
  ASSUME Inv, NEW g \in Execs, NEW n, exec' = [exec EXCEPT ![g] = n], n.obj = NoObject,
         NEW q \in Pooled, q = exec[g].obj, pool' = PutBack(q),
         \A o \in Objects : o # q => mem'[o] = mem[o], Clean(q)'
  PROVE  PoolOK'
<1>1. exec'[g] = n /\ \A h \in Execs : h # g => exec'[h] = exec[h]
  BY DEF Inv
<1>2. q \in Objects /\ q \in Pooled /\ q # NoObject
  BY NoneApart DEF Pooled
<1>3. pool[q] = 0
  BY <1>2 DEF Inv, PoolOK
<1>4. pool' = [pool EXCEPT ![q] = 1]
  BY <1>3 DEF PutBack
<1>5. \A o \in Objects : pool'[o] = 1 => pool[o] = 1 \/ o = q
  BY <1>4 DEF Inv, PoolOK
<1>6. \A o \in Objects : pool'[o] = 1 => o \in Pooled
  BY <1>2, <1>5 DEF Inv, PoolOK
<1>7. \A o \in Objects : pool'[o] = 1 => Clean(o)'
  <2> SUFFICES ASSUME NEW o \in Objects, pool'[o] = 1 PROVE Clean(o)'
    OBVIOUS
  <2>1. CASE o = q
    BY <2>1
  <2>2. CASE o # q
    <3>1. Clean(o) /\ mem'[o] = mem[o]
      BY <1>5, <2>2 DEF Inv, PoolOK
    <3> QED BY <3>1 DEF Clean
  <2> QED BY <2>1, <2>2
<1>8. \A o \in Objects : pool'[o] = 1 => \A h \in Execs : exec'[h].obj # o
  <2> SUFFICES ASSUME NEW o \in Objects, pool'[o] = 1, NEW h \in Execs PROVE exec'[h].obj # o
    OBVIOUS
  <2>1. CASE h = g
    BY <1>1, <2>1, NoneApart
  <2>2. CASE h # g /\ o = q
    BY <1>1, <1>2, <2>2 DEF Inv, PoolOK
  <2>3. CASE h # g /\ o # q
    BY <1>1, <1>5, <2>3 DEF Inv, PoolOK
  <2> QED BY <2>1, <2>2, <2>3
<1>9. \A k, h \in Execs : exec'[k].obj = exec'[h].obj /\ exec'[k].obj # NoObject => k = h
  BY <1>1 DEF Inv, PoolOK
<1>10. pool' \in [Objects -> {0, 1}]
  BY <1>4 DEF Inv, PoolOK
<1> QED BY <1>6, <1>7, <1>8, <1>9, <1>10 DEF PoolOK

(* Events likewise.                                                          *)
LEMMA EventKept ==
  ASSUME Inv, NEW g \in Execs, NEW n, exec' = [exec EXCEPT ![g] = n],
         n.ev \in {exec[g].ev, NoEvent}, evPool' = evPool
  PROVE  EventsOK'
<1>1. exec'[g] = n /\ \A h \in Execs : h # g => exec'[h] = exec[h]
  BY DEF Inv
<1>2. \A e \in Events : evPool[e] = 1 => \A h \in Execs : exec'[h].ev # e
  BY <1>1, NoneApart DEF Inv, EventsOK
<1>3. \A k, h \in Execs : exec'[k].ev = exec'[h].ev /\ exec'[k].ev # NoEvent => k = h
  BY <1>1 DEF Inv, EventsOK
<1>4. evPool' \in [Events -> {0, 1}]
  BY DEF Inv, EventsOK
<1> QED BY <1>2, <1>3, <1>4 DEF EventsOK

LEMMA EventTaken ==
  ASSUME Inv, NEW g \in Execs, NEW n, exec' = [exec EXCEPT ![g] = n],
         n.ev \in Events, \A h \in Execs : exec[h].ev # n.ev, evPool' = EventsLent(n.ev)
  PROVE  EventsOK'
<1>1. exec'[g] = n /\ \A h \in Execs : h # g => exec'[h] = exec[h]
  BY DEF Inv
<1>2. evPool' = [evPool EXCEPT ![n.ev] = 0]
  <2>1. evPool[n.ev] \in {0, 1}
    BY DEF Inv, EventsOK
  <2>2. (IF evPool[n.ev] > 0 THEN evPool[n.ev] - 1 ELSE 0) = 0
    BY <2>1
  <2> QED BY <2>2 DEF EventsLent
<1>3. \A e \in Events : evPool'[e] = 1 => evPool[e] = 1 /\ e # n.ev
  BY <1>2 DEF Inv, EventsOK
<1>4. \A e \in Events : evPool'[e] = 1 => \A h \in Execs : exec'[h].ev # e
  BY <1>1, <1>3 DEF Inv, EventsOK
<1>5. \A k, h \in Execs : exec'[k].ev = exec'[h].ev /\ exec'[k].ev # NoEvent => k = h
  BY <1>1 DEF Inv, EventsOK
<1>6. evPool' \in [Events -> {0, 1}]
  BY <1>2 DEF Inv, EventsOK
<1> QED BY <1>4, <1>5, <1>6 DEF EventsOK

LEMMA EventReturned ==
  ASSUME Inv, NEW g \in Execs, NEW n, exec' = [exec EXCEPT ![g] = n], n.ev = NoEvent,
         NEW e \in Events, e = exec[g].ev, evPool' = [evPool EXCEPT ![e] = @ + 1]
  PROVE  EventsOK'
<1>1. exec'[g] = n /\ \A h \in Execs : h # g => exec'[h] = exec[h]
  BY DEF Inv
<1>2. evPool[e] = 0 /\ e # NoEvent
  BY NoneApart DEF Inv, EventsOK
<1>3. evPool' = [evPool EXCEPT ![e] = 1]
  BY <1>2
<1>4. \A d \in Events : evPool'[d] = 1 => evPool[d] = 1 \/ d = e
  BY <1>3 DEF Inv, EventsOK
<1>5. \A d \in Events : evPool'[d] = 1 => \A h \in Execs : exec'[h].ev # d
  <2> SUFFICES ASSUME NEW d \in Events, evPool'[d] = 1, NEW h \in Execs PROVE exec'[h].ev # d
    OBVIOUS
  <2>1. CASE h = g
    BY <1>1, <2>1, NoneApart
  <2>2. CASE h # g /\ d = e
    BY <1>1, <1>2, <2>2 DEF Inv, EventsOK
  <2>3. CASE h # g /\ d # e
    BY <1>1, <1>4, <2>3 DEF Inv, EventsOK
  <2> QED BY <2>1, <2>2, <2>3
<1>6. \A k, h \in Execs : exec'[k].ev = exec'[h].ev /\ exec'[k].ev # NoEvent => k = h
  BY <1>1 DEF Inv, EventsOK
<1>7. evPool' \in [Events -> {0, 1}]
  BY <1>3 DEF Inv, EventsOK
<1> QED BY <1>5, <1>6, <1>7 DEF EventsOK

(* A step within a call that neither takes nor returns anything.             *)
LEMMA MoveKeeps ==
  ASSUME Inv, NEW g \in Execs, NEW n, exec' = [exec EXCEPT ![g] = n],
         n.obj \in {exec[g].obj, NoObject}, n.ev \in {exec[g].ev, NoEvent},
         pool' = pool, evPool' = evPool,
         MemOK', \A o \in Objects : o # exec[g].obj => mem'[o] = mem[o],
         ExecOK(n)', InjectOK(n)'
  PROVE  Inv'
<1>1. PoolOK'
  BY ObjectKept
<1>2. EventsOK'
  BY EventKept
<1> QED BY <1>1, <1>2, ExecKeeps

(* One that leaves the memory alone, too.                                    *)
LEMMA SameMemory ==
  ASSUME Inv, mem' = mem, NEW n, ExecOK(n), InjectOK(n)
  PROVE  MemOK' /\ ExecOK(n)' /\ InjectOK(n)' /\ \A o \in Objects : mem'[o] = mem[o]
<1>1. MemOK'
  BY DEF Inv, MemOK
<1>2. ExecOK(n)'
  BY DEF ExecOK, Clean
<1>3. InjectOK(n)'
  BY DEF InjectOK, Fitting
<1> QED BY <1>1, <1>2, <1>3

LEMMA QuietKeeps ==
  ASSUME Inv, NEW g \in Execs, NEW n, exec' = [exec EXCEPT ![g] = n],
         n.obj \in {exec[g].obj, NoObject}, n.ev \in {exec[g].ev, NoEvent}, Memory, Evented,
         ExecOK(n), InjectOK(n)
  PROVE  Inv'
<1>1. mem' = mem /\ pool' = pool /\ evPool' = evPool
  BY DEF Memory, Evented
<1> QED BY <1>1, SameMemory, MoveKeeps

-----------------------------------------------------------------------------
(* Executors between two injections.                                         *)

LEMMA NextItemOK ==
  ASSUME NEW x, ExecOK(x), x.kind # "none", x.todo # <<>>, x.got = <<>>, NEW n, n = NextItem(x)
  PROVE  /\ ExecOK(n) /\ InjectOK(n)
         /\ n.obj \in {x.obj, NoObject} /\ n.ev = x.ev
<1>1. IsExec(x)
  BY DEF ExecOK
<1>2. /\ IsExec(n) /\ n.pc = "next" /\ n.todo = Tail(x.todo)
      /\ n.i = 1 /\ n.win = 0 /\ n.last = <<>> /\ n.got = <<>>
      /\ n.kind = x.kind /\ n.ev = x.ev /\ n.hear = x.hear /\ n.all = x.all
      /\ n.obj = IF x.kind = "handler" THEN NoObject ELSE x.obj
  BY <1>1 DEF IsExec, NextItem
<1>3. InjectOK(n)
  BY <1>2 DEF InjectOK, Injecting
<1>4. ASSUME x.kind \in {"loop", "task"}
      PROVE  IsSeq(n.todo) /\ \A k \in DOMAIN n.todo : n.todo[k].sys = n.obj[1]
  BY <1>2, <1>4, TailIs DEF ExecOK
<1>5. ExecOK(n)
  BY <1>2, <1>4 DEF ExecOK, Injecting
<1> QED BY <1>2, <1>3, <1>5

LEMMA StartsOK ==
  ASSUME NEW x, ExecOK(x), x.pc = "next", x.todo # <<>>, x.kind # "handler",
         NEW n, n = [x EXCEPT !.pc = "inject"]
  PROVE  ExecOK(n) /\ InjectOK(n)
<1>1. /\ IsExec(n) /\ n.pc = "inject" /\ n.i = 1 /\ n.last = <<>> /\ n.got = <<>>
      /\ n.kind = x.kind /\ n.ev = x.ev /\ n.hear = x.hear /\ n.all = x.all
      /\ n.obj = x.obj /\ n.todo = x.todo
  BY DEF ExecOK, IsExec
<1>2. x.kind \in {"loop", "task"}
  BY DEF ExecOK
<1>3. Sys(n) = n.obj[1] /\ n.obj \in Objects
  BY <1>1, <1>2, TailIs DEF ExecOK, Sys
<1>4. ExecOK(n)
  BY <1>1, <1>2 DEF ExecOK, Injecting
<1>5. n.i \in DOMAIN Fields[Sys(n)]
  BY <1>1, <1>3, FieldsIs
<1>6. Given(n) = {}
  BY <1>1 DEF Given
<1> QED BY <1>1, <1>3, <1>4, <1>5, <1>6 DEF InjectOK, WayOK

LEMMA StartItemKeeps ==
  ASSUME Inv, NEW g \in Execs, StartItem(g)
  PROVE  Inv'
<1> PICK x : x = exec[g]
  OBVIOUS
<1>1. ExecOK(x) /\ x.pc = "next" /\ x.todo # <<>> /\ x.kind # "none" /\ x.got = <<>>
  BY DEF StartItem, Inv, ExecOK
<1>2. Memory /\ Evented
  BY DEF StartItem
<1>3. CASE ~CanRun(x)
  <2> PICK n : n = NextItem(x)
    OBVIOUS
  <2>1. exec' = [exec EXCEPT ![g] = n]
    BY <1>3 DEF StartItem, Move
  <2> QED BY <1>1, <1>2, <2>1, NextItemOK, QuietKeeps
<1>4. CASE CanRun(x) /\ x.kind = "handler"
  <2> PICK n : n = [x EXCEPT !.pc = "get"]
    OBVIOUS
  <2>1. exec' = [exec EXCEPT ![g] = n]
    BY <1>4 DEF StartItem, Move
  <2>2. ExecOK(n) /\ n.obj = x.obj /\ n.ev = x.ev
    BY <1>1, <1>4 DEF ExecOK, IsExec, Injecting
  <2>3. InjectOK(n)
    BY <1>1 DEF ExecOK, IsExec, InjectOK, Injecting
  <2> QED BY <1>2, <2>1, <2>2, <2>3, QuietKeeps
<1>5. CASE CanRun(x) /\ x.kind # "handler"
  <2> PICK n : n = [x EXCEPT !.pc = "inject"]
    OBVIOUS
  <2>1. exec' = [exec EXCEPT ![g] = n]
    BY <1>5 DEF StartItem, Move
  <2>2. n.obj = x.obj /\ n.ev = x.ev
    BY <1>1 DEF ExecOK, IsExec
  <2> QED BY <1>1, <1>2, <1>5, <2>1, <2>2, StartsOK, QuietKeeps
<1> QED BY <1>3, <1>4, <1>5

LEMMA AllSessionsKeeps ==
  ASSUME Inv, NEW g \in Execs, AllSessions(g)
  PROVE  Inv'
<1> PICK x : x = exec[g]
  OBVIOUS
<1>1. ExecOK(x) /\ x.pc = "next" /\ x.all
  BY DEF AllSessions, Inv
<1>2. Memory /\ Evented
  BY DEF AllSessions
<1> PICK ss : Move(g, [x EXCEPT !.all = FALSE, !.hear = ss])
  BY DEF AllSessions
<1> PICK n : n = [x EXCEPT !.all = FALSE, !.hear = ss]
  OBVIOUS
<1>3. exec' = [exec EXCEPT ![g] = n]
  BY DEF Move
<1>4. ExecOK(n) /\ n.obj = x.obj /\ n.ev = x.ev
  BY <1>1 DEF ExecOK, IsExec, Injecting
<1>5. InjectOK(n)
  BY <1>1 DEF ExecOK, IsExec, InjectOK, Injecting
<1> QED BY <1>2, <1>3, <1>4, <1>5, QuietKeeps

LEMMA EmitToKeeps ==
  ASSUME Inv, NEW g \in Execs, EmitTo(g)
  PROVE  Inv'
<1> PICK x : x = exec[g]
  OBVIOUS
<1>1. ExecOK(x) /\ x.pc = "next" /\ x.hear # <<>>
  BY DEF EmitTo, Inv
<1>2. Memory /\ Evented
  BY DEF EmitTo
<1> PICK td : td = IF closed[Head(x.hear)] THEN <<>>
                   ELSE [i \in DOMAIN Handlers |-> Item(Handlers[i], <<Head(x.hear)>>)]
  OBVIOUS
<1> PICK n : n = [x EXCEPT !.hear = Tail(@), !.todo = td]
  OBVIOUS
<1>3. exec' = [exec EXCEPT ![g] = n]
  BY DEF EmitTo, Move
<1>4. x.kind \notin {"loop", "task"}
  BY <1>1 DEF ExecOK
<1>5. ExecOK(n) /\ n.obj = x.obj /\ n.ev = x.ev
  BY <1>1, <1>4 DEF ExecOK, IsExec, Injecting
<1>6. InjectOK(n)
  BY <1>1 DEF ExecOK, IsExec, InjectOK, Injecting
<1> QED BY <1>2, <1>3, <1>5, <1>6, QuietKeeps

(* sync.Pool.Get gives out an object that nobody else has.                   *)
LEMMA GetsIs ==
  ASSUME Inv, NEW y, NEW o \in Objects, Gets(y, o)
  PROVE  /\ o[1] = y /\ pool' = [pool EXCEPT ![o] = 0]
         /\ \A h \in Execs : exec[h].obj # o
<1>1. pool[o] \in {0, 1}
  BY DEF Inv, PoolOK
<1>2. (IF pool[o] > 0 THEN pool[o] - 1 ELSE 0) = 0
  BY <1>1
<1>3. pool' = [pool EXCEPT ![o] = 0]
  BY <1>2 DEF Gets
<1>4. pool[o] = 1 \/ o \notin Held
  BY <1>1 DEF Gets
<1>5. \A h \in Execs : exec[h].obj # o
  BY <1>4 DEF Inv, PoolOK, Held
<1> QED BY <1>3, <1>5 DEF Gets

LEMMA GetHandlerKeeps ==
  ASSUME Inv, NEW g \in Execs, NEW o \in Pooled, GetHandler(g, o)
  PROVE  Inv'
<1> PICK x : x = exec[g]
  OBVIOUS
<1>1. ExecOK(x) /\ x.pc = "get" /\ o \in Objects
  BY DEF GetHandler, Inv, Pooled
<1>2. mem' = mem /\ evPool' = evPool /\ Gets(Head(x.todo).sys, o)
  BY DEF GetHandler, Evented
<1> PICK n : n = [x EXCEPT !.pc = "inject", !.obj = o]
  OBVIOUS
<1>3. exec' = [exec EXCEPT ![g] = n]
  BY DEF GetHandler, Move
<1>4. o[1] = Head(x.todo).sys /\ pool' = [pool EXCEPT ![o] = 0] /\ \A h \in Execs : exec[h].obj # o
  BY <1>1, <1>2, GetsIs
<1>5. /\ IsExec(n) /\ n.pc = "inject" /\ n.i = 1 /\ n.last = <<>> /\ n.got = <<>>
      /\ n.kind = x.kind /\ n.ev = x.ev /\ n.hear = x.hear /\ n.all = x.all
      /\ n.obj = o /\ n.todo = x.todo
  BY <1>1 DEF ExecOK, IsExec
<1>6. x.kind = "handler" /\ x.todo # <<>>
  BY <1>1 DEF ExecOK
<1>7. ExecOK(n)
  BY <1>1, <1>5, <1>6 DEF ExecOK, Injecting
<1>8. Sys(n) = o[1] /\ n.i \in DOMAIN Fields[Sys(n)] /\ Given(n) = {}
  BY <1>1, <1>4, <1>5, FieldsIs DEF Sys, Given
<1>9. InjectOK(n)
  BY <1>5, <1>8 DEF InjectOK, WayOK
<1>10. MemOK' /\ ExecOK(n)' /\ InjectOK(n)'
  BY <1>2, <1>7, <1>9, SameMemory
<1>11. PoolOK'
  <2>1. n.obj \in Objects /\ pool' = [pool EXCEPT ![n.obj] = 0] /\ \A h \in Execs : exec[h].obj # n.obj
    BY <1>1, <1>4, <1>5
  <2> QED BY <1>2, <1>3, <2>1, ObjectTaken
<1>12. EventsOK'
  BY <1>2, <1>3, <1>5, EventKept
<1> QED BY <1>2, <1>3, <1>10, <1>11, <1>12, ExecKeeps

-----------------------------------------------------------------------------
(* The calls.                                                                *)

LEMMA IdleOK == ExecOK(Idle) /\ InjectOK(Idle) /\ IsExec(Idle)
  BY DEF Idle, ExecOK, IsExec, InjectOK, Injecting

LEMMA HandleEventKeeps ==
  ASSUME Inv, NEW g \in Execs, NEW s, NEW e \in Events, NEW quit, HandleEvent(g, s, e, quit)
  PROVE  Inv'
<1> PICK n : n = [Idle EXCEPT !.pc = "next", !.kind = "handler", !.ev = e, !.of = s, !.quit = quit,
                              !.hear = <<s>>]
  OBVIOUS
<1>1. exec' = [exec EXCEPT ![g] = n]
  BY DEF HandleEvent, Starts
<1>2. mem' = mem /\ pool' = pool /\ evPool' = EventsLent(e)
  BY DEF HandleEvent, Memory
<1>3. n.pc = "next" /\ n.obj = NoObject /\ n.ev = e
  BY DEF Idle
<1>4. ExecOK(n)
  BY DEF Idle, ExecOK, IsExec, Injecting
<1>5. InjectOK(n)
  BY <1>3 DEF InjectOK, Injecting
<1>6. \A h \in Execs : exec[h].ev # e
  <2>1. evPool[e] \in {0, 1}
    BY DEF Inv, EventsOK
  <2>2. evPool[e] = 1 \/ \A h \in Execs : exec[h].ev # e
    BY <2>1 DEF HandleEvent
  <2> QED BY <2>2 DEF Inv, EventsOK
<1>7. EventsOK'
  <2>1. n.ev \in Events /\ evPool' = EventsLent(n.ev) /\ \A h \in Execs : exec[h].ev # n.ev
    BY <1>2, <1>3, <1>6
  <2> QED BY <1>1, <2>1, EventTaken
<1>8. PoolOK'
  BY <1>1, <1>2, <1>3, ObjectKept
<1>9. MemOK' /\ ExecOK(n)' /\ InjectOK(n)'
  BY <1>2, <1>4, <1>5, SameMemory
<1> QED BY <1>1, <1>2, <1>7, <1>8, <1>9, ExecKeeps

LEMMA EmitKeeps ==
  ASSUME Inv, NEW g \in Execs, NEW except, Emit(g, except)
  PROVE  Inv'
<1> PICK td : td = [i \in DOMAIN Globals |-> Item(Globals[i], <<>>)]
  OBVIOUS
<1> PICK n : n = [Idle EXCEPT !.pc = "next", !.kind = "handler", !.all = TRUE, !.except = except,
                              !.todo = td]
  OBVIOUS
<1>1. exec' = [exec EXCEPT ![g] = n]
  BY DEF Emit, Starts
<1>2. Memory /\ Evented
  BY DEF Emit
<1>3. n.pc = "next" /\ n.obj = NoObject /\ n.ev = NoEvent
  BY DEF Idle
<1>4. ExecOK(n)
  BY DEF Idle, ExecOK, IsExec, Injecting
<1>5. InjectOK(n)
  BY <1>3 DEF InjectOK, Injecting
<1> QED BY <1>1, <1>2, <1>3, <1>4, <1>5, QuietKeeps

(* What a loop or a task has to do is a sequence of items of its own system. *)
LEMMA ItemsOf ==
  ASSUME NEW y, NEW ss \in Orders
  PROVE  LET td == [i \in DOMAIN ss |-> Item(y, <<ss[i]>>)] IN
           IsSeq(td) /\ \A k \in DOMAIN td : td[k].sys = y
<1> PICK n \in Nat : n = Cardinality(Sessions)
  BY DispatchSessions, FS_CardinalityType
<1>1. DOMAIN ss = 1 .. n
  BY DEF Orders, SetToSeqs
<1> PICK td : td = [i \in DOMAIN ss |-> Item(y, <<ss[i]>>)]
  OBVIOUS
<1>2. td \in [1 .. n -> {td[i] : i \in DOMAIN td}] /\ DOMAIN td = 1 .. n
  BY <1>1
<1>3. td \in Seq({td[i] : i \in DOMAIN td})
  BY <1>2, SeqDef
<1>4. \A k \in DOMAIN td : td[k].sys = y
  BY <1>1 DEF Item
<1> QED BY <1>3, <1>4 DEF IsSeq

LEMMA ExecuteLoopKeeps ==
  ASSUME Inv, NEW g \in Execs, NEW y \in Loops, NEW k \in 1 .. PoolSize, NEW ss \in Orders,
         ExecuteLoop(g, y, ss, <<y, k>>)
  PROVE  Inv'
<1> PICK o : o = <<y, k>>
  OBVIOUS
<1>1. o \in Objects /\ o \in Pooled /\ o[1] = y /\ o \in Objects \cup {NoObject}
  BY DispatchSystems, DispatchBounds DEF Objects, Pooled
<1> PICK td : td = IF IsGlobal(y) THEN <<Item(y, <<>>)>> ELSE [i \in DOMAIN ss |-> Item(y, <<ss[i]>>)]
  OBVIOUS
<1> PICK n : n = [Idle EXCEPT !.pc = "next", !.kind = "loop", !.obj = o, !.todo = td]
  OBVIOUS
<1>2. exec' = [exec EXCEPT ![g] = n]
  BY DEF ExecuteLoop, Starts
<1>3. mem' = mem /\ evPool' = evPool /\ Gets(y, o)
  BY DEF ExecuteLoop, Evented
<1>4. pool' = [pool EXCEPT ![o] = 0] /\ \A h \in Execs : exec[h].obj # o
  BY <1>1, <1>3, GetsIs
<1>5. IsSeq(td) /\ \A i \in DOMAIN td : td[i].sys = y
  <2>1. CASE IsGlobal(y)
    <3>1. td = <<Item(y, <<>>)>> /\ Item(y, <<>>).sys = y
      BY <2>1 DEF Item
    <3> QED BY <3>1, OneIs
  <2>2. CASE ~IsGlobal(y)
    BY <2>2, ItemsOf
  <2> QED BY <2>1, <2>2
<1>6. /\ n.pc = "next" /\ n.kind = "loop" /\ n.obj = o /\ n.ev = NoEvent /\ n.todo = td
      /\ n.i = 1 /\ n.win = 0 /\ n.last = <<>> /\ n.got = <<>> /\ n.hear = <<>> /\ ~n.all
      /\ IsExec(n)
  BY DEF Idle, IsExec
<1>7. ExecOK(n)
  BY <1>1, <1>5, <1>6 DEF ExecOK, Injecting
<1>8. InjectOK(n)
  BY <1>6 DEF InjectOK, Injecting
<1>9. PoolOK'
  <2>1. n.obj \in Objects /\ pool' = [pool EXCEPT ![n.obj] = 0] /\ \A h \in Execs : exec[h].obj # n.obj
    BY <1>1, <1>4, <1>6
  <2> QED BY <1>2, <1>3, <2>1, ObjectTaken
<1>10. EventsOK'
  BY <1>2, <1>3, <1>6, EventKept
<1>11. MemOK' /\ ExecOK(n)' /\ InjectOK(n)'
  BY <1>3, <1>7, <1>8, SameMemory
<1> QED BY <1>2, <1>3, <1>9, <1>10, <1>11, ExecKeeps

LEMMA ExecuteTaskKeeps ==
  ASSUME Inv, NEW g \in Execs, NEW y \in Tasks, NEW ss, ExecuteTask(g, y, ss, <<y, 0>>)
  PROVE  Inv'
<1> PICK o : o = <<y, 0>>
  OBVIOUS
<1>1. o \in Objects /\ o \notin Pooled /\ o[1] = y
  BY DispatchSystems, DispatchBounds DEF Objects, Pooled
<1> PICK td : td = <<Item(y, ss)>>
  OBVIOUS
<1> PICK n : n = [Idle EXCEPT !.pc = "next", !.kind = "task", !.obj = o, !.todo = td]
  OBVIOUS
<1>2. exec' = [exec EXCEPT ![g] = n]
  BY DEF ExecuteTask, Starts
<1>3. mem' = mem /\ evPool' = evPool /\ pool' = pool
  BY DEF ExecuteTask, Evented, Memory
<1>4. \A h \in Execs : exec[h].obj # o
  BY DEF ExecuteTask, Held
<1>5. IsSeq(td) /\ \A i \in DOMAIN td : td[i].sys = y
  <2>1. Item(y, ss).sys = y
    BY DEF Item
  <2> QED BY <2>1, OneIs
<1>6. /\ n.pc = "next" /\ n.kind = "task" /\ n.obj = o /\ n.ev = NoEvent /\ n.todo = td
      /\ n.i = 1 /\ n.win = 0 /\ n.last = <<>> /\ n.got = <<>> /\ n.hear = <<>> /\ ~n.all
      /\ IsExec(n)
  BY DEF Idle, IsExec
<1>7. ExecOK(n)
  BY <1>1, <1>5, <1>6 DEF ExecOK, Injecting
<1>8. InjectOK(n)
  BY <1>6 DEF InjectOK, Injecting
<1>9. PoolOK'
  <2>1. pool[o] = 0
    BY <1>1 DEF Inv, PoolOK
  <2>2. pool' = [pool EXCEPT ![o] = 0]
    BY <1>3, <2>1 DEF Inv, PoolOK
  <2>3. n.obj \in Objects /\ pool' = [pool EXCEPT ![n.obj] = 0] /\ \A h \in Execs : exec[h].obj # n.obj
    BY <1>1, <1>4, <1>6, <2>2
  <2> QED BY <1>2, <1>3, <2>3, ObjectTaken
<1>10. EventsOK'
  BY <1>2, <1>3, <1>6, EventKept
<1>11. MemOK' /\ ExecOK(n)' /\ InjectOK(n)'
  BY <1>3, <1>7, <1>8, SameMemory
<1> QED BY <1>2, <1>3, <1>9, <1>10, <1>11, ExecKeeps

-----------------------------------------------------------------------------
(* injectSystem.                                                             *)

(* Fitting, of a value that is given instead of the one in memory.           *)
FitsWith(x, i, v) ==
  LET f   == Fields[Sys(x)][i]
      own == Head(x.todo).ss[WindowOf[Sys(x)][i] + 1]
  IN
  /\ f.kind \in {"payload", "with", "without"} => v = <<>>
  /\ f.kind = "resource" => v # <<>>
  /\ f.kind \notin {"payload", "with", "without", "resource"} =>
       /\ \A p \in ToSet(v) : p.via = own
       /\ f.kind \in {"session", "component"} => \A p \in ToSet(v) : p.of = own
       /\ f.kind # "session" => \A p \in ToSet(v) : p.comp = f.comp
       /\ v = <<>> => f.opt \/ f.kind \in {"relations", "remotes"}

LEMMA FittingIs ==
  ASSUME NEW x, NEW i
  PROVE  /\ Fitting(x, i) <=> FitsWith(x, i, Seen(mem[x.obj][i]))
         /\ Fitting(x, i)' <=> FitsWith(x, i, Seen(mem'[x.obj][i]))
<1>1. Fitting(x, i) <=> FitsWith(x, i, Seen(mem[x.obj][i]))
  BY Zenon DEF Fitting, FitsWith
<1>2. Fitting(x, i)' <=> FitsWith(x, i, Seen(mem'[x.obj][i]))
  BY Zenon DEF Fitting, FitsWith, Seen
<1> QED BY <1>1, <1>2

LEMMA FitsSame ==
  ASSUME NEW x, NEW y, y.todo = x.todo, NEW i, NEW v, FitsWith(x, i, v)
  PROVE  FitsWith(y, i, v)
<1>1. Sys(y) = Sys(x) /\ Head(y.todo) = Head(x.todo)
  BY DEF Sys
<1> QED BY <1>1, Zenon DEF FitsWith

LEMMA FittingMoves ==
  ASSUME NEW x, NEW n, n.todo = x.todo, n.obj = x.obj, NEW i, Fitting(x, i)
  PROVE  Fitting(n, i)
<1>1. FitsWith(x, i, Seen(mem[n.obj][i]))
  BY FittingIs
<1>2. FitsWith(n, i, Seen(mem[n.obj][i]))
  BY <1>1, FitsSame
<1> QED BY <1>2, FittingIs

(* An executor x in the middle of injecting the field x.i, in its window.    *)
Midway(x) ==
  /\ ExecOK(x) /\ InjectOK(x)
  /\ x.pc \in {"inject", "open?", "collect"} /\ x.win = WindowOf[Sys(x)][x.i]

LEMMA EnteredOK ==
  ASSUME NEW z, ExecOK(z), InjectOK(z), z.pc = "inject", NEW x, x = Entered(z)
  PROVE  /\ Midway(x) /\ x.pc = "inject" /\ x.got = <<>> /\ x.obj = z.obj /\ x.ev = z.ev
         /\ FieldOf(x) = FieldOf(z) /\ x.kind # "none"
<1>1. IsExec(z)
  BY DEF ExecOK
<1>2. /\ IsExec(x) /\ x.win = WindowOf[Sys(z)][z.i]
      /\ x.pc = z.pc /\ x.kind = z.kind /\ x.ev = z.ev /\ x.obj = z.obj /\ x.todo = z.todo
      /\ x.i = z.i /\ x.tgt = z.tgt /\ x.got = z.got /\ x.hear = z.hear /\ x.all = z.all
      /\ x.last # <<>> => x.last = z.last /\ x.win = z.win
  BY <1>1 DEF IsExec, Entered
<1>3. Sys(x) = Sys(z) /\ FieldOf(x) = FieldOf(z) /\ Given(x) = Given(z)
  BY <1>2 DEF Sys, FieldOf, Given
<1>4. ExecOK(x)
  BY <1>2 DEF ExecOK, Injecting
<1>5. WayOK(x)
  BY <1>2 DEF InjectOK, WayOK, Own, Injecting
<1>6. \A i \in Given(x) : Fitting(x, i)
  <2> TAKE i \in Given(x)
  <2>1. Fitting(z, i)
    BY <1>3 DEF InjectOK, Injecting
  <2>2. x.todo = z.todo /\ x.obj = z.obj
    BY <1>2
  <2> QED BY <2>1, <2>2, FittingMoves
<1>7. InjectOK(x)
  BY <1>2, <1>3, <1>5, <1>6 DEF InjectOK, Injecting
<1> QED BY <1>2, <1>3, <1>4, <1>7 DEF Midway, ExecOK

(* It gives up.                                                              *)
LEMMA FailsKeeps ==
  ASSUME Inv, NEW g \in Execs, NEW x, Midway(x), x.got = <<>>,
         x.obj = exec[g].obj, x.ev = exec[g].ev, Move(g, Fail(x)), Memory, Evented
  PROVE  Inv'
<1>1. ExecOK(x) /\ x.todo # <<>> /\ x.kind # "none" /\ x.pc \in {"inject", "open?", "collect"}
  BY DEF Midway, ExecOK, Injecting
<1>2. CASE x.kind = "task"
  <2> PICK n : n = NextItem(x)
    OBVIOUS
  <2>1. exec' = [exec EXCEPT ![g] = n]
    BY <1>2 DEF Move, Fail
  <2> QED BY <1>1, <2>1, NextItemOK, QuietKeeps
<1>3. CASE x.kind # "task"
  <2> PICK n : n = [x EXCEPT !.pc = "zero"]
    OBVIOUS
  <2>1. exec' = [exec EXCEPT ![g] = n]
    BY <1>3 DEF Move, Fail
  <2>2. /\ IsExec(n) /\ n.pc = "zero" /\ n.todo = x.todo /\ n.got = <<>> /\ n.hear = x.hear
        /\ n.all = x.all /\ n.kind = x.kind /\ n.ev = x.ev /\ n.obj = x.obj
    BY <1>1 DEF ExecOK, IsExec
  <2>3. ExecOK(n)
    BY <1>1, <1>3, <2>2 DEF ExecOK, Injecting
  <2>4. InjectOK(n)
    BY <2>2 DEF InjectOK, Injecting
  <2> QED BY <2>1, <2>2, <2>3, <2>4, QuietKeeps
<1> QED BY <1>2, <1>3

LEMMA NoWindowKeeps ==
  ASSUME Inv, NEW g \in Execs, NoWindow(g)
  PROVE  Inv'
<1> PICK z : z = exec[g]
  OBVIOUS
<1>1. ExecOK(z) /\ InjectOK(z) /\ z.pc = "inject"
  BY DEF NoWindow, Inv
<1>2. z.todo # <<>> /\ z.kind # "none" /\ z.got = <<>>
  BY <1>1 DEF ExecOK, Injecting
<1>3. Memory /\ Evented /\ Move(g, Fail(z))
  BY DEF NoWindow
<1>4. CASE z.kind = "task"
  <2> PICK n : n = NextItem(z)
    OBVIOUS
  <2>1. exec' = [exec EXCEPT ![g] = n]
    BY <1>3, <1>4 DEF Move, Fail
  <2> QED BY <1>1, <1>2, <1>3, <2>1, NextItemOK, QuietKeeps
<1>5. CASE z.kind # "task"
  <2> PICK n : n = [z EXCEPT !.pc = "zero"]
    OBVIOUS
  <2>1. exec' = [exec EXCEPT ![g] = n]
    BY <1>3, <1>5 DEF Move, Fail
  <2>2. /\ IsExec(n) /\ n.pc = "zero" /\ n.todo = z.todo /\ n.got = <<>> /\ n.hear = z.hear
        /\ n.all = z.all /\ n.kind = z.kind /\ n.ev = z.ev /\ n.obj = z.obj
    BY <1>1, <1>2 DEF ExecOK, IsExec
  <2>3. ExecOK(n)
    BY <1>1, <1>5, <2>2 DEF ExecOK, Injecting
  <2>4. InjectOK(n)
    BY <2>2 DEF InjectOK, Injecting
  <2> QED BY <1>3, <2>1, <2>2, <2>3, <2>4, QuietKeeps
<1> QED BY <1>4, <1>5

(* What a store does to the memory.                                          *)
LEMMA WriteIs ==
  ASSUME MemOK, NEW o \in Objects, NEW m, mem' = [mem EXCEPT ![o] = m], IsObject(o, m)
  PROVE  MemOK' /\ mem'[o] = m /\ \A p \in Objects : p # o => mem'[p] = mem[p]
<1>1. mem'[o] = m /\ \A p \in Objects : p # o => mem'[p] = mem[p]
  BY DEF MemOK
<1>2. mem' = [p \in Objects |-> mem'[p]]
  BY DEF MemOK
<1>3. \A p \in Objects : IsObject(p, mem'[p])
  BY <1>1 DEF MemOK
<1> QED BY <1>1, <1>2, <1>3 DEF MemOK, IsObject

LEMMA StoresKeeps ==
  ASSUME Inv, NEW g \in Execs, NEW x, Midway(x), x.obj = exec[g].obj, x.ev = exec[g].ev,
         NEW v, IsValue(v), FitsWith(x, x.i, Seen(v)), Stores(g, x, v)
  PROVE  Inv'
<1> PICK o : o = x.obj
  OBVIOUS
<1>1. /\ ExecOK(x) /\ o \in Objects /\ x.todo # <<>> /\ x.kind # "none"
      /\ x.pc \in {"inject", "open?", "collect"}
  BY DEF Midway, ExecOK, Injecting
<1>2. Sys(x) = o[1] /\ x.i \in DOMAIN Fields[o[1]] /\ WayOK(x) /\ \A j \in 1 .. x.i - 1 : Fitting(x, j)
  BY <1>1 DEF Midway, InjectOK, Injecting, Given
<1> PICK m : m = [mem[o] EXCEPT ![x.i] = v]
  OBVIOUS
<1>3. mem' = [mem EXCEPT ![o] = m]
  BY DEF Stores
<1>4. mem[o] = [j \in DOMAIN Fields[o[1]] |-> mem[o][j]] /\ \A j \in DOMAIN Fields[o[1]] : IsValue(mem[o][j])
  BY <1>1 DEF Inv, MemOK, IsObject
<1>5. /\ m = [j \in DOMAIN Fields[o[1]] |-> m[j]] /\ m[x.i] = v
      /\ \A j \in DOMAIN Fields[o[1]] : j # x.i => m[j] = mem[o][j]
  BY <1>2, <1>4
<1>6. IsObject(o, m)
  BY <1>4, <1>5 DEF IsObject
<1>7. MemOK' /\ mem'[o] = m /\ \A p \in Objects : p # o => mem'[p] = mem[p]
  <2>1. MemOK
    BY DEF Inv
  <2> QED BY <1>1, <1>3, <1>6, <2>1, WriteIs
<1> PICK n : n = Done(x)
  OBVIOUS
<1>8. exec' = [exec EXCEPT ![g] = n] /\ pool' = pool /\ evPool' = evPool
  BY DEF Stores, Move, Evented
<1>9. IsExec(x)
  BY <1>1 DEF ExecOK
<1>10. /\ IsExec(n) /\ n.got = <<>> /\ n.hear = x.hear /\ n.all = x.all
       /\ n.todo = x.todo /\ n.win = x.win /\ n.last = x.last
       /\ n.kind = x.kind /\ n.ev = x.ev /\ n.obj = x.obj
       /\ \/ x.i = Len(Fields[Sys(x)]) /\ n.pc = "run" /\ n.i = x.i
          \/ x.i # Len(Fields[Sys(x)]) /\ n.pc = "inject" /\ n.i = x.i + 1
  BY <1>9 DEF IsExec, Done
<1>11. ExecOK(n)'
  BY <1>1, <1>10 DEF ExecOK, Injecting
<1>12. Sys(n) = o[1] /\ n.i \in DOMAIN Fields[o[1]] /\ Given(n) \subseteq 1 .. x.i
  <2>1. Sys(n) = Sys(x)
    BY <1>10 DEF Sys
  <2>2. x.i \in Nat /\ DOMAIN Fields[o[1]] = 1 .. Len(Fields[o[1]]) /\ Len(Fields[o[1]]) \in Nat
    BY <1>1, <1>2, FieldsIs
  <2>3. CASE n.pc = "run"
    BY <1>2, <1>10, <2>1, <2>2, <2>3 DEF Given
  <2>4. CASE n.pc = "inject"
    BY <1>2, <1>10, <2>1, <2>2, <2>4 DEF Given
  <2> QED BY <1>10, <2>3, <2>4
<1>13. \A j \in 1 .. x.i : Fitting(n, j)'
  <2> SUFFICES ASSUME NEW j \in 1 .. x.i PROVE Fitting(n, j)'
    OBVIOUS
  <2>1. CASE j = x.i
    <3>1. Seen(mem'[n.obj][j]) = Seen(v) /\ FitsWith(x, j, Seen(v))
      BY <1>5, <1>7, <1>10, <2>1
    <3>2. FitsWith(n, j, Seen(v))
      BY <1>10, <3>1, FitsSame
    <3> QED BY <3>1, <3>2, FittingIs
  <2>2. CASE j # x.i
    <3>1. x.i \in Nat /\ DOMAIN Fields[o[1]] = 1 .. Len(Fields[o[1]]) /\ Len(Fields[o[1]]) \in Nat
      BY <1>1, <1>2, FieldsIs
    <3>2. j \in 1 .. x.i - 1 /\ j \in DOMAIN Fields[o[1]]
      BY <1>2, <2>2, <3>1
    <3>3. mem'[n.obj][j] = mem[x.obj][j] /\ Fitting(x, j)
      BY <1>2, <1>5, <1>7, <1>10, <2>2, <3>2
    <3>4. FitsWith(x, j, Seen(mem'[n.obj][j]))
      BY <3>3, FittingIs
    <3> QED BY <1>10, <3>4, FitsSame, FittingIs
  <2> QED BY <2>1, <2>2
<1>14. WayOK(n)
  BY <1>2, <1>10 DEF WayOK, Own
<1>15. InjectOK(n)'
  BY <1>10, <1>12, <1>13, <1>14 DEF InjectOK
<1> QED BY <1>7, <1>8, <1>10, <1>11, <1>15, MoveKeeps

(* The pointers ps were reached as the field of x asks.                      *)
Reached(x, ps) ==
  /\ IsSeq(ps)
  /\ \A p \in ToSet(ps) : p.via = Own(x) /\ p.comp = FieldOf(x).comp
                            /\ (FieldOf(x).kind = "component" => p.of = Own(x))

LEMMA ReachedFits ==
  ASSUME NEW x, Midway(x), NEW ps, Reached(x, ps),
         FieldOf(x).kind \in {"component", "relation", "remote", "relations", "remotes"},
         ps = <<>> => FieldOf(x).opt \/ FieldOf(x).kind \in {"relations", "remotes"}
  PROVE  FitsWith(x, x.i, ps)
<1>1. Own(x) = Head(x.todo).ss[WindowOf[Sys(x)][x.i] + 1] /\ FieldOf(x) = Fields[Sys(x)][x.i]
  BY DEF Midway, Own, FieldOf
<1>2. \A p \in ToSet(ps) : p.via = Own(x) /\ p.comp = FieldOf(x).comp
                            /\ (FieldOf(x).kind = "component" => p.of = Own(x))
  BY DEF Reached
<1> PICK f : f = FieldOf(x)
  OBVIOUS
<1> PICK own : own = Own(x)
  OBVIOUS
<1>3. /\ f.kind \notin {"payload", "with", "without", "resource", "session"}
      /\ \A p \in ToSet(ps) : p.via = own /\ p.comp = f.comp
      /\ f.kind \in {"session", "component"} => \A p \in ToSet(ps) : p.of = own
  BY <1>2
<1> QED BY <1>1, <1>3 DEF FitsWith

LEMMA SetPointerKeeps ==
  ASSUME Inv, NEW g \in Execs, NEW x, Midway(x), x.obj = exec[g].obj, x.ev = exec[g].ev,
         FieldOf(x).kind \in {"component", "relation", "remote"},
         NEW p, Reached(x, p), p = <<>> => x.got = <<>>, SetPointer(g, x, p)
  PROVE  Inv'
<1>1. CASE p = <<>> /\ ~FieldOf(x).opt
  <2>1. Move(g, Fail(x)) /\ Memory /\ Evented
    BY <1>1 DEF SetPointer, Fails
  <2> QED BY <1>1, <2>1, FailsKeeps
<1>2. CASE ~(p = <<>> /\ ~FieldOf(x).opt)
  <2>1. Stores(g, x, [buf |-> p, len |-> Len(p)])
    BY <1>2 DEF SetPointer
  <2>2. IsValue([buf |-> p, len |-> Len(p)]) /\ Seen([buf |-> p, len |-> Len(p)]) = p
    BY ValueIs DEF Reached
  <2>3. FitsWith(x, x.i, p)
    BY <1>2, ReachedFits
  <2> QED BY <2>1, <2>2, <2>3, StoresKeeps
<1> QED BY <1>1, <1>2

LEMMA SetSliceKeeps ==
  ASSUME Inv, NEW g \in Execs, NEW x, Midway(x), x.obj = exec[g].obj, x.ev = exec[g].ev,
         FieldOf(x).kind \in {"relations", "remotes"},
         NEW ps, Reached(x, ps), SetSlice(g, x, ps)
  PROVE  Inv'
<1> PICK v : v = Filled(mem[x.obj][x.i], ps)
  OBVIOUS
<1>1. IsValue(mem[x.obj][x.i])
  <2>1. x.obj \in Objects /\ x.i \in DOMAIN Fields[x.obj[1]]
    BY DEF Midway, ExecOK, InjectOK, Injecting
  <2> QED BY <2>1 DEF Inv, MemOK, IsObject
<1>2. IsValue(v) /\ Seen(v) = ps
  BY <1>1, FilledIs DEF Reached
<1>3. FitsWith(x, x.i, ps)
  BY ReachedFits
<1>4. Stores(g, x, v)
  BY DEF SetSlice
<1> QED BY <1>2, <1>3, <1>4, StoresKeeps

LEMMA NoneReached == \A x : Reached(x, <<>>)
<1> TAKE x
<1>1. ToSet(<<>>) = {}
  BY DEF ToSet
<1> QED BY <1>1, EmptyIs DEF Reached

LEMMA OneReached ==
  ASSUME NEW x, NEW p, p.via = Own(x), p.comp = FieldOf(x).comp,
         FieldOf(x).kind = "component" => p.of = Own(x)
  PROVE  Reached(x, <<p>>)
<1>1. ToSet(<<p>>) = {p}
  BY OneIs DEF ToSet
<1> QED BY <1>1, OneIs DEF Reached

(* Where the executor stands in its field.                                   *)
LEMMA InjectsIs ==
  ASSUME Inv, NEW g \in Execs, NEW kinds, Injects(g, kinds), NEW x, x = Entered(exec[g])
  PROVE  /\ Midway(x) /\ x.pc = "inject" /\ x.got = <<>> /\ x.obj = exec[g].obj /\ x.ev = exec[g].ev
         /\ FieldOf(x) = FieldOf(exec[g]) /\ FieldOf(x).kind \in kinds /\ x.kind # "none"
<1> PICK z : z = exec[g]
  OBVIOUS
<1>1. ExecOK(z) /\ InjectOK(z) /\ z.pc = "inject" /\ FieldOf(z).kind \in kinds
  BY DEF Inv, Injects
<1>2. x = Entered(z)
  OBVIOUS
<1> QED BY <1>1, <1>2, EnteredOK

LEMMA InjectSessionKeeps ==
  ASSUME Inv, NEW g \in Execs, InjectSession(g)
  PROVE  Inv'
<1> PICK x : x = Entered(exec[g])
  OBVIOUS
<1>1. Midway(x) /\ x.obj = exec[g].obj /\ x.ev = exec[g].ev /\ FieldOf(x).kind = "session"
  <2>1. Injects(g, {"session"})
    BY DEF InjectSession
  <2> QED BY <2>1, InjectsIs
<1> PICK p : p = [of |-> Own(x), comp |-> NoSystem, via |-> Own(x)]
  OBVIOUS
<1>2. Stores(g, x, [buf |-> <<p>>, len |-> 1])
  BY DEF InjectSession
<1>3. IsValue([buf |-> <<p>>, len |-> 1]) /\ Seen([buf |-> <<p>>, len |-> 1]) = <<p>>
  <2>1. IsSeq(<<p>>) /\ Len(<<p>>) = 1
    BY OneIs
  <2> QED BY <2>1, ValueIs
<1>4. FitsWith(x, x.i, <<p>>)
  <2>1. Own(x) = Head(x.todo).ss[WindowOf[Sys(x)][x.i] + 1] /\ FieldOf(x) = Fields[Sys(x)][x.i]
    BY <1>1 DEF Midway, Own, FieldOf
  <2>2. ToSet(<<p>>) = {p} /\ <<p>> # <<>>
    BY OneIs DEF ToSet
  <2>3. \A q \in ToSet(<<p>>) : q.via = Own(x) /\ q.of = Own(x)
    BY <2>2
  <2> QED BY <1>1, <2>1, <2>2, <2>3 DEF FitsWith
<1> QED BY <1>1, <1>2, <1>3, <1>4, StoresKeeps

LEMMA InjectResourceKeeps ==
  ASSUME Inv, NEW g \in Execs, InjectResource(g)
  PROVE  Inv'
<1> PICK x : x = Entered(exec[g])
  OBVIOUS
<1>1. /\ Midway(x) /\ x.obj = exec[g].obj /\ x.ev = exec[g].ev /\ FieldOf(x).kind = "resource"
      /\ x.got = <<>>
  <2>1. Injects(g, {"resource"})
    BY DEF InjectResource
  <2> QED BY <2>1, InjectsIs
<1>2. CASE FieldOf(x).comp \in Resources
  <2> PICK p : p = [of |-> Elsewhere, comp |-> FieldOf(x).comp, via |-> Elsewhere]
    OBVIOUS
  <2>1. Stores(g, x, [buf |-> <<p>>, len |-> 1])
    BY <1>2 DEF InjectResource
  <2>2. IsValue([buf |-> <<p>>, len |-> 1]) /\ Seen([buf |-> <<p>>, len |-> 1]) = <<p>>
    <3>1. IsSeq(<<p>>) /\ Len(<<p>>) = 1
      BY OneIs
    <3> QED BY <3>1, ValueIs
  <2>3. FitsWith(x, x.i, <<p>>)
    <3>1. FieldOf(x) = Fields[Sys(x)][x.i] /\ <<p>> # <<>>
      BY OneIs DEF FieldOf
    <3> QED BY <1>1, <3>1 DEF FitsWith
  <2> QED BY <1>1, <2>1, <2>2, <2>3, StoresKeeps
<1>3. CASE FieldOf(x).comp \notin Resources
  <2>1. Move(g, Fail(x)) /\ Memory /\ Evented
    BY <1>3 DEF InjectResource, Fails
  <2> QED BY <1>1, <2>1, FailsKeeps
<1> QED BY <1>2, <1>3

LEMMA InjectNothingKeeps ==
  ASSUME Inv, NEW g \in Execs, InjectNothing(g)
  PROVE  Inv'
<1> PICK x : x = Entered(exec[g])
  OBVIOUS
<1>1. /\ Midway(x) /\ x.obj = exec[g].obj /\ x.ev = exec[g].ev
      /\ FieldOf(x).kind \in {"payload", "with", "without"}
  <2>1. Injects(g, {"payload", "with", "without"})
    BY DEF InjectNothing
  <2> QED BY <2>1, InjectsIs
<1>2. Stores(g, x, Blank)
  BY DEF InjectNothing
<1>3. FitsWith(x, x.i, Seen(Blank))
  <2>1. FieldOf(x) = Fields[Sys(x)][x.i]
    BY DEF FieldOf
  <2> QED BY <1>1, <2>1, BlankIs DEF FitsWith
<1> QED BY <1>1, <1>2, <1>3, BlankIs, StoresKeeps

LEMMA InjectWithoutSourceKeeps ==
  ASSUME Inv, NEW g \in Execs, InjectWithoutSource(g)
  PROVE  Inv'
<1> PICK x : x = Entered(exec[g])
  OBVIOUS
<1>1. /\ Midway(x) /\ x.obj = exec[g].obj /\ x.ev = exec[g].ev /\ x.got = <<>>
      /\ FieldOf(x).kind \in {"relation", "relations", "remote", "remotes"}
  <2>1. Injects(g, {"relation", "relations", "remote", "remotes"})
    BY DEF InjectWithoutSource
  <2> QED BY <2>1, InjectsIs
<1>2. CASE FieldOf(x).kind \in {"relations", "remotes"}
  <2>1. SetSlice(g, x, <<>>)
    BY <1>2 DEF InjectWithoutSource
  <2> QED BY <1>1, <1>2, <2>1, NoneReached, SetSliceKeeps
<1>3. CASE FieldOf(x).kind \notin {"relations", "remotes"}
  <2>1. SetPointer(g, x, <<>>)
    BY <1>3 DEF InjectWithoutSource
  <2>2. FieldOf(x).kind \in {"component", "relation", "remote"}
    BY <1>1, <1>3
  <2> QED BY <1>1, <2>1, <2>2, NoneReached, SetPointerKeeps
<1> QED BY <1>2, <1>3

LEMMA InjectRemoteKeeps ==
  ASSUME Inv, NEW g \in Execs, InjectRemote(g)
  PROVE  Inv'
<1> PICK x : x = Entered(exec[g])
  OBVIOUS
<1>1. /\ Midway(x) /\ x.obj = exec[g].obj /\ x.ev = exec[g].ev /\ x.got = <<>> /\ x.pc = "inject"
      /\ FieldOf(x).kind \in {"remote", "remotes"}
  <2>1. Injects(g, {"remote", "remotes"})
    BY DEF InjectRemote
  <2> QED BY <2>1, InjectsIs
<1>2. x.last # <<>>
  BY DEF InjectRemote
<1> PICK p : p = [of |-> Elsewhere, comp |-> FieldOf(x).comp, via |-> x.last[1].of]
  OBVIOUS
<1>3. Reached(x, <<p>>)
  <2>1. p.via = Own(x)
    BY <1>1, <1>2 DEF Midway, InjectOK, Injecting, WayOK
  <2> QED BY <1>1, <2>1, OneReached
<1> PICK ps : /\ ps \in {<<>>, <<p>>}
              /\ IF FieldOf(x).kind = "remotes" THEN SetSlice(g, x, ps) ELSE SetPointer(g, x, ps)
  BY DEF InjectRemote
<1>4. Reached(x, ps)
  BY <1>3, NoneReached
<1>5. CASE FieldOf(x).kind = "remotes"
  <2>1. SetSlice(g, x, ps)
    BY <1>5
  <2> QED BY <1>1, <1>4, <1>5, <2>1, SetSliceKeeps
<1>6. CASE FieldOf(x).kind # "remotes"
  <2>1. SetPointer(g, x, ps) /\ FieldOf(x).kind \in {"component", "relation", "remote"}
    BY <1>1, <1>6
  <2> QED BY <1>1, <1>4, <2>1, SetPointerKeeps
<1> QED BY <1>5, <1>6

LEMMA InjectComponentKeeps ==
  ASSUME Inv, NEW g \in Execs, InjectComponent(g)
  PROVE  Inv'
<1> PICK x : x = Entered(exec[g])
  OBVIOUS
<1>1. /\ Midway(x) /\ x.obj = exec[g].obj /\ x.ev = exec[g].ev /\ x.got = <<>> /\ x.pc = "inject"
      /\ FieldOf(x).kind = "component"
  <2>1. Injects(g, {"component"})
    BY DEF InjectComponent
  <2> QED BY <2>1, InjectsIs
<1> PICK q : q = [of |-> Own(x), comp |-> FieldOf(x).comp, via |-> Own(x)]
  OBVIOUS
<1> PICK p : p = IF FieldOf(x).comp \in comps[Own(x)] THEN <<q>> ELSE <<>>
  OBVIOUS
<1> PICK y : y = [x EXCEPT !.last = p]
  OBVIOUS
<1>2. SetPointer(g, y, p)
  BY DEF InjectComponent
<1>3. p \in {<<>>, <<q>>} /\ q.of = Own(x) /\ q.via = Own(x) /\ q.comp = FieldOf(x).comp
  OBVIOUS
<1>4. /\ IsExec(y) /\ y.pc = "inject" /\ y.kind = x.kind /\ y.ev = x.ev /\ y.obj = x.obj
      /\ y.todo = x.todo /\ y.i = x.i /\ y.win = x.win /\ y.got = <<>> /\ y.hear = x.hear
      /\ y.all = x.all /\ y.last = p
  BY <1>1 DEF Midway, ExecOK, IsExec
<1>5. Sys(y) = Sys(x) /\ FieldOf(y) = FieldOf(x) /\ Own(y) = Own(x) /\ Given(y) = Given(x)
  BY <1>1, <1>4 DEF Sys, FieldOf, Own, Given
<1>6. ExecOK(y)
  BY <1>1, <1>4 DEF Midway, ExecOK, Injecting
<1>7. WayOK(y)
  <2>1. p # <<>> => p[1] = q
    BY <1>3, OneIs
  <2> QED BY <1>3, <1>4, <1>5, <2>1 DEF WayOK
<1>8. \A i \in Given(y) : Fitting(y, i)
  <2> TAKE i \in Given(y)
  <2>1. Fitting(x, i)
    BY <1>1, <1>5 DEF Midway, InjectOK, Injecting
  <2>2. y.todo = x.todo /\ y.obj = x.obj
    BY <1>4
  <2> QED BY <2>1, <2>2, FittingMoves
<1>9. Midway(y)
  <2>1. InjectOK(y)
    BY <1>1, <1>4, <1>5, <1>7, <1>8 DEF Midway, InjectOK, Injecting
  <2> QED BY <1>1, <1>4, <1>5, <1>6, <2>1 DEF Midway
<1>10. Reached(y, p)
  <2>1. Reached(y, <<q>>)
    BY <1>3, <1>5, OneReached
  <2> QED BY <1>3, <2>1, NoneReached
<1> QED BY <1>1, <1>2, <1>4, <1>5, <1>9, <1>10, SetPointerKeeps

(* An executor midway that has looked the targets up, or goes on to them.    *)
WithTargets(x, l, ss) == [x EXCEPT !.pc = l, !.tgt = ss]

LEMMA TargetsOK ==
  ASSUME NEW x, Midway(x), x.got = <<>>, x.last # <<>>,
         FieldOf(x).kind \in {"relation", "relations"},
         NEW l \in {"open?", "collect"}, NEW ss, NEW n, n = WithTargets(x, l, ss)
  PROVE  ExecOK(n) /\ InjectOK(n) /\ n.obj = x.obj /\ n.ev = x.ev
<1>1. /\ IsExec(n) /\ n.pc = l /\ n.kind = x.kind /\ n.ev = x.ev /\ n.obj = x.obj
      /\ n.todo = x.todo /\ n.i = x.i /\ n.win = x.win /\ n.got = <<>> /\ n.hear = x.hear
      /\ n.all = x.all /\ n.last = x.last
  BY DEF Midway, ExecOK, IsExec, WithTargets
<1>2. x.pc \in {"inject", "open?", "collect"} /\ x.win = WindowOf[Sys(x)][x.i]
  BY DEF Midway
<1>3. Sys(n) = Sys(x) /\ FieldOf(n) = FieldOf(x) /\ Own(n) = Own(x) /\ Given(n) = Given(x)
  BY <1>1, <1>2 DEF Sys, FieldOf, Own, Given
<1>4. ExecOK(n)
  BY <1>1, <1>2 DEF Midway, ExecOK, Injecting
<1>5. WayOK(n)
  BY <1>1, <1>2, <1>3 DEF Midway, InjectOK, Injecting, WayOK
<1>6. \A i \in Given(n) : Fitting(n, i)
  <2> TAKE i \in Given(n)
  <2>1. Fitting(x, i)
    BY <1>2, <1>3 DEF Midway, InjectOK, Injecting
  <2>2. n.todo = x.todo /\ n.obj = x.obj
    BY <1>1
  <2> QED BY <2>1, <2>2, FittingMoves
<1>7. IsSeq(n.got) /\ ToSet(n.got) = {}
  BY <1>1, EmptyIs DEF ToSet
<1>8. Sys(n) = n.obj[1] /\ n.i \in DOMAIN Fields[Sys(n)]
  BY <1>1, <1>2, <1>3 DEF Midway, InjectOK, Injecting
<1>9. InjectOK(n)
  BY <1>1, <1>2, <1>3, <1>5, <1>6, <1>7, <1>8 DEF InjectOK
<1> QED BY <1>1, <1>4, <1>9

LEMMA ReadTargetsKeeps ==
  ASSUME Inv, NEW g \in Execs, ReadTargets(g)
  PROVE  Inv'
<1> PICK x : x = Entered(exec[g])
  OBVIOUS
<1>1. /\ Midway(x) /\ x.obj = exec[g].obj /\ x.ev = exec[g].ev /\ x.got = <<>>
      /\ FieldOf(x).kind \in {"relation", "relations"}
  <2>1. Injects(g, {"relation", "relations"})
    BY DEF ReadTargets
  <2> QED BY <2>1, InjectsIs
<1>2. x.last # <<>> /\ Memory /\ Evented
  BY DEF ReadTargets
<1>3. \E l, ss : l \in {"open?", "collect"} /\ Move(g, WithTargets(x, l, ss))
  <2>1. CASE FieldOf(x).kind = "relations"
    <3>1. \E ss : Move(g, WithTargets(x, "collect", ss))
      BY <2>1 DEF ReadTargets, WithTargets
    <3> QED BY <3>1
  <2>2. CASE FieldOf(x).kind # "relations"
    <3>1. \E ss : Move(g, WithTargets(x, "open?", ss))
      BY <2>2 DEF ReadTargets, WithTargets
    <3> QED BY <3>1
  <2> QED BY <2>1, <2>2
<1> PICK l, ss : l \in {"open?", "collect"} /\ Move(g, WithTargets(x, l, ss))
  BY <1>3
<1> PICK n : n = WithTargets(x, l, ss)
  OBVIOUS
<1>4. exec' = [exec EXCEPT ![g] = n]
  BY DEF Move
<1>5. ExecOK(n) /\ InjectOK(n) /\ n.obj = x.obj /\ n.ev = x.ev
  BY <1>1, <1>2, TargetsOK
<1> QED BY <1>1, <1>2, <1>4, <1>5, QuietKeeps

(* An executor that waits with what it has looked up is midway.              *)
LEMMA WaitingIs ==
  ASSUME Inv, NEW g \in Execs, NEW x, x = exec[g], x.pc \in {"open?", "collect"}
  PROVE  /\ Midway(x) /\ x.last # <<>> /\ FieldOf(x).kind \in {"relation", "relations"}
         /\ x.pc = "open?" => x.got = <<>>
         /\ x.pc = "collect" => Reached(x, x.got)
<1>1. ExecOK(x) /\ InjectOK(x)
  BY DEF Inv
<1>2. /\ FieldOf(x).kind \in {"relation", "relations"} /\ x.win = WindowOf[Sys(x)][x.i] /\ x.last # <<>>
      /\ x.pc = "collect" =>
           IsSeq(x.got) /\ \A p \in ToSet(x.got) : p.via = Own(x) /\ p.comp = FieldOf(x).comp
  BY <1>1 DEF InjectOK, Injecting
<1>3. x.pc = "open?" => x.got = <<>>
  BY <1>1 DEF ExecOK
<1>4. x.pc = "collect" => Reached(x, x.got)
  BY <1>2 DEF Reached
<1> QED BY <1>1, <1>2, <1>3, <1>4 DEF Midway

LEMMA CheckTargetKeeps ==
  ASSUME Inv, NEW g \in Execs, CheckTarget(g)
  PROVE  Inv'
<1> PICK x : x = exec[g]
  OBVIOUS
<1>1. x.pc = "open?"
  BY DEF CheckTarget
<1>2. Midway(x) /\ x.last # <<>> /\ FieldOf(x).kind \in {"relation", "relations"} /\ x.got = <<>>
  BY <1>1, WaitingIs
<1>3. CASE SetPointer(g, x, <<>>)
  <2>1. CASE FieldOf(x).kind = "relation"
    BY <1>2, <1>3, <2>1, NoneReached, SetPointerKeeps
  <2>2. CASE FieldOf(x).kind = "relations"
    <3>1. CASE FieldOf(x).opt
      <4>1. Stores(g, x, [buf |-> <<>>, len |-> Len(<<>>)])
        BY <1>3, <3>1 DEF SetPointer
      <4>2. IsValue([buf |-> <<>>, len |-> Len(<<>>)]) /\ Seen([buf |-> <<>>, len |-> Len(<<>>)]) = <<>>
        BY EmptyIs, ValueIs
      <4>3. FitsWith(x, x.i, <<>>)
        BY <1>2, NoneReached, ReachedFits, <2>2
      <4> QED BY <1>2, <4>1, <4>2, <4>3, StoresKeeps
    <3>2. CASE ~FieldOf(x).opt
      <4>1. Move(g, Fail(x)) /\ Memory /\ Evented
        BY <1>3, <3>2 DEF SetPointer, Fails
      <4> QED BY <1>2, <4>1, FailsKeeps
    <3> QED BY <3>1, <3>2
  <2> QED BY <1>2, <2>1, <2>2
<1>4. CASE Move(g, [x EXCEPT !.pc = "collect"]) /\ Memory /\ Evented
  <2> PICK n : n = WithTargets(x, "collect", x.tgt)
    OBVIOUS
  <2>1. n = [x EXCEPT !.pc = "collect"]
    BY <1>2 DEF Midway, ExecOK, IsExec, WithTargets
  <2>2. exec' = [exec EXCEPT ![g] = n]
    BY <1>4, <2>1 DEF Move
  <2>3. ExecOK(n) /\ InjectOK(n) /\ n.obj = x.obj /\ n.ev = x.ev
    BY <1>2, TargetsOK
  <2> QED BY <1>4, <2>2, <2>3, QuietKeeps
<1> QED BY <1>3, <1>4 DEF CheckTarget

LEMMA CollectTargetKeeps ==
  ASSUME Inv, NEW g \in Execs, CollectTarget(g)
  PROVE  Inv'
<1> PICK x : x = exec[g]
  OBVIOUS
<1>1. x.pc = "collect" /\ Memory /\ Evented
  BY DEF CollectTarget
<1>2. Midway(x) /\ x.last # <<>> /\ FieldOf(x).kind \in {"relation", "relations"} /\ Reached(x, x.got)
  BY <1>1, WaitingIs
<1>p. PICK p : p = [of |-> Head(x.tgt), comp |-> FieldOf(x).comp, via |-> x.last[1].of]
  OBVIOUS
<1>got. PICK got : got = IF FieldOf(x).comp \in comps[Head(x.tgt)] THEN Append(x.got, p) ELSE x.got
  OBVIOUS
<1>n. PICK n : n = [x EXCEPT !.tgt = Tail(@), !.got = got]
  OBVIOUS
<1>3. exec' = [exec EXCEPT ![g] = n]
  BY <1>p, <1>got, <1>n DEF CollectTarget, Move
<1>4. p.via = Own(x) /\ p.comp = FieldOf(x).comp
  BY <1>1, <1>2, <1>p DEF Midway, InjectOK, Injecting, WayOK
<1>5. IsSeq(got) /\ \A q \in ToSet(got) : q.via = Own(x) /\ q.comp = FieldOf(x).comp
  <2>1. CASE got = x.got
    BY <1>2, <2>1 DEF Reached
  <2>2. CASE got = Append(x.got, p)
    <3>1. IsSeq(got) /\ ToSet(got) = ToSet(x.got) \cup {p}
      BY <1>2, <2>2, AppendIs DEF Reached
    <3> QED BY <1>2, <1>4, <3>1 DEF Reached
  <2> QED BY <1>got, <2>1, <2>2
<1>6. /\ IsExec(n) /\ n.pc = "collect" /\ n.kind = x.kind /\ n.ev = x.ev /\ n.obj = x.obj
      /\ n.todo = x.todo /\ n.i = x.i /\ n.win = x.win /\ n.got = got /\ n.hear = x.hear
      /\ n.all = x.all /\ n.last = x.last
  <2>1. IsExec(x)
    BY <1>2 DEF Midway, ExecOK
  <2> QED BY <1>1, <1>n, <2>1 DEF IsExec
<1>7. Sys(n) = Sys(x) /\ FieldOf(n) = FieldOf(x) /\ Own(n) = Own(x) /\ Given(n) = Given(x)
  BY <1>1, <1>6 DEF Sys, FieldOf, Own, Given
<1>8. ExecOK(n)
  <2>1. ExecOK(x) /\ x.pc = "collect"
    BY <1>1, <1>2 DEF Midway
  <2> QED BY <1>6, <2>1 DEF ExecOK, Injecting
<1>9. WayOK(n)
  BY <1>1, <1>2, <1>6, <1>7 DEF Midway, InjectOK, Injecting, WayOK
<1>10. \A i \in Given(n) : Fitting(n, i)
  <2> TAKE i \in Given(n)
  <2>1. Fitting(x, i)
    BY <1>1, <1>2, <1>7 DEF Midway, InjectOK, Injecting
  <2>2. n.todo = x.todo /\ n.obj = x.obj
    BY <1>6
  <2> QED BY <2>1, <2>2, FittingMoves
<1>11. Sys(n) = n.obj[1] /\ n.i \in DOMAIN Fields[Sys(n)] /\ n.win = WindowOf[Sys(n)][n.i]
  BY <1>1, <1>2, <1>6, <1>7 DEF Midway, InjectOK, Injecting
<1>12. InjectOK(n)
  <2>1. IsSeq(n.got) /\ \A q \in ToSet(n.got) : q.via = Own(n) /\ q.comp = FieldOf(n).comp
    <3>1. n.got = got /\ Own(n) = Own(x) /\ FieldOf(n) = FieldOf(x)
      BY <1>6, <1>7
    <3> QED BY <1>5, <3>1
  <2>2. FieldOf(n).kind \in {"relation", "relations"} /\ n.last # <<>>
    BY <1>2, <1>6, <1>7
  <2> QED BY <1>9, <1>10, <1>11, <2>1, <2>2 DEF InjectOK
<1> QED BY <1>1, <1>3, <1>6, <1>8, <1>12, QuietKeeps

LEMMA StoreTargetsKeeps ==
  ASSUME Inv, NEW g \in Execs, StoreTargets(g)
  PROVE  Inv'
<1> PICK x : x = exec[g]
  OBVIOUS
<1>1. x.pc = "collect"
  BY DEF StoreTargets
<1>2. Midway(x) /\ FieldOf(x).kind \in {"relation", "relations"} /\ Reached(x, x.got)
  BY <1>1, WaitingIs
<1>3. CASE FieldOf(x).kind = "relations"
  <2>1. SetSlice(g, x, x.got)
    BY <1>3 DEF StoreTargets
  <2> QED BY <1>2, <1>3, <2>1, SetSliceKeeps
<1>4. CASE FieldOf(x).kind = "relation"
  <2>1. SetPointer(g, x, x.got)
    BY <1>4 DEF StoreTargets
  <2> QED BY <1>2, <1>4, <2>1, SetPointerKeeps
<1> QED BY <1>2, <1>3, <1>4

-----------------------------------------------------------------------------
(* The system runs; its object is zeroed and put back.                       *)

LEMMA ZeroIs ==
  ASSUME NEW x, ExecOK(x), x.todo # <<>>, x.obj \in Objects, x.kind \notin {"none", "task"}, x.got = <<>>,
         NEW n, n = [x EXCEPT !.pc = "zero"]
  PROVE  ExecOK(n) /\ InjectOK(n) /\ n.obj = x.obj /\ n.ev = x.ev /\ n.pc = "zero"
<1>1. /\ IsExec(n) /\ n.pc = "zero" /\ n.todo = x.todo /\ n.got = <<>> /\ n.hear = x.hear
      /\ n.all = x.all /\ n.kind = x.kind /\ n.ev = x.ev /\ n.obj = x.obj
  BY DEF ExecOK, IsExec
<1>2. ExecOK(n)
  BY <1>1 DEF ExecOK, Injecting
<1>3. InjectOK(n)
  BY <1>1 DEF InjectOK, Injecting
<1> QED BY <1>1, <1>2, <1>3

(* Nothing is said of the memory of an executor that is done with it.        *)
LEMMA DoneWith ==
  ASSUME NEW n, ExecOK(n), n.pc \notin Injecting \cup {"put"}
  PROVE  ExecOK(n)' /\ InjectOK(n)'
<1>1. ExecOK(n)'
  BY DEF ExecOK
<1>2. InjectOK(n)'
  BY DEF InjectOK
<1> QED BY <1>1, <1>2

(* The object after the run: only payload fields may have changed.           *)
LEMMA RunWrites ==
  ASSUME NEW o \in Objects, NEW m, IsObject(o, m), NEW n, n = [i \in DOMAIN m |-> n[i]],
         \A i \in DOMAIN m : n[i] \in {[buf |-> <<Used>>, len |-> 1], m[i]}
  PROVE  IsObject(o, n)
<1>1. DOMAIN m = DOMAIN Fields[o[1]] /\ \A i \in DOMAIN m : IsValue(m[i])
  BY DEF IsObject
<1>2. IsValue([buf |-> <<Used>>, len |-> 1])
  <2>1. IsSeq(<<Used>>) /\ Len(<<Used>>) = 1
    BY OneIs
  <2> QED BY <2>1, ValueIs
<1>3. n = [i \in DOMAIN Fields[o[1]] |-> n[i]]
  BY <1>1
<1>4. \A i \in DOMAIN Fields[o[1]] : n[i] \in {[buf |-> <<Used>>, len |-> 1], m[i]}
  BY <1>1
<1> QED BY <1>1, <1>2, <1>3, <1>4 DEF IsObject

LEMMA RunKeeps ==
  ASSUME Inv, NEW g \in Execs, Run(g)
  PROVE  Inv'
<1> PICK x : x = exec[g]
  OBVIOUS
<1>1. /\ ExecOK(x) /\ x.pc = "run" /\ x.obj \in Objects /\ x.todo # <<>> /\ x.got = <<>>
      /\ x.kind # "none"
  BY DEF Run, Inv, ExecOK, Injecting
<1> PICK o : o = x.obj
  OBVIOUS
<1> PICK m : m = [i \in DOMAIN mem[o] |->
                   IF Fields[Sys(x)][i].kind = "payload" THEN [buf |-> <<Used>>, len |-> 1]
                   ELSE mem[o][i]]
  OBVIOUS
<1>2. mem' = [mem EXCEPT ![o] = m] /\ pool' = pool /\ evPool' = evPool
  BY DEF Run, Evented
<1>3. IsObject(o, mem[o]) /\ MemOK
  BY <1>1 DEF Inv, MemOK
<1>4. IsObject(o, m)
  <2>1. /\ m = [i \in DOMAIN mem[o] |-> m[i]]
        /\ \A i \in DOMAIN mem[o] : m[i] \in {[buf |-> <<Used>>, len |-> 1], mem[o][i]}
    OBVIOUS
  <2> QED BY <1>1, <1>3, <2>1, RunWrites
<1>5. MemOK' /\ mem'[o] = m /\ \A p \in Objects : p # o => mem'[p] = mem[p]
  <2>1. o \in Objects /\ mem' = [mem EXCEPT ![o] = m]
    BY <1>1, <1>2
  <2> QED BY <1>3, <1>4, <2>1, WriteIs
<1>6. CASE x.kind = "task"
  <2> PICK n : n = NextItem(x)
    OBVIOUS
  <2>1. exec' = [exec EXCEPT ![g] = n]
    BY <1>6 DEF Run, Move
  <2>2. ExecOK(n) /\ n.obj \in {x.obj, NoObject} /\ n.ev = x.ev /\ n.pc = "next"
    BY <1>1, NextItemOK, NextItemIs DEF ExecOK
  <2>3. ExecOK(n)' /\ InjectOK(n)'
    BY <2>2, DoneWith DEF Injecting
  <2> QED BY <1>2, <1>5, <2>1, <2>2, <2>3, MoveKeeps
<1>7. CASE x.kind # "task"
  <2> PICK n : n = [x EXCEPT !.pc = "zero"]
    OBVIOUS
  <2>1. exec' = [exec EXCEPT ![g] = n]
    BY <1>7 DEF Run, Move
  <2>2. ExecOK(n) /\ n.obj = x.obj /\ n.ev = x.ev /\ n.pc = "zero"
    BY <1>1, <1>7, ZeroIs
  <2>3. ExecOK(n)' /\ InjectOK(n)'
    BY <2>2, DoneWith DEF Injecting
  <2> QED BY <1>2, <1>5, <2>1, <2>2, <2>3, MoveKeeps
<1> QED BY <1>6, <1>7

(* What zeroSystem leaves holds nothing.                                     *)
LEMMA ZeroedIs ==
  ASSUME NEW o \in Objects, NEW m, IsObject(o, m), NEW n, n = Zeroed(o[1], m)
  PROVE  IsObject(o, n) /\ \A i \in DOMAIN Fields[o[1]] : Seen(n[i]) = <<>>
<1>1. DOMAIN m = DOMAIN Fields[o[1]] /\ \A i \in DOMAIN m : IsValue(m[i])
  BY DEF IsObject
<1>2. n = [i \in DOMAIN Fields[o[1]] |-> n[i]]
  BY <1>1 DEF Zeroed
<1>3. \A i \in DOMAIN Fields[o[1]] : n[i] = Blank \/ n[i] = [m[i] EXCEPT !.len = 0]
  BY <1>1 DEF Zeroed
<1>4. \A i \in DOMAIN Fields[o[1]] : IsValue(n[i]) /\ Seen(n[i]) = <<>>
  <2> TAKE i \in DOMAIN Fields[o[1]]
  <2>1. CASE n[i] = Blank
    BY <2>1, BlankIs
  <2>2. CASE n[i] = [m[i] EXCEPT !.len = 0]
    BY <1>1, <2>2, NoneSeen
  <2> QED BY <1>3, <2>1, <2>2
<1> QED BY <1>2, <1>4 DEF IsObject

LEMMA ZeroWrites ==
  ASSUME Inv, NEW o \in Objects, mem' = [mem EXCEPT ![o] = Zeroed(o[1], @)]
  PROVE  MemOK' /\ Clean(o)' /\ \A p \in Objects : p # o => mem'[p] = mem[p]
<1> PICK m : m = Zeroed(o[1], mem[o])
  OBVIOUS
<1>1. IsObject(o, mem[o]) /\ MemOK
  BY DEF Inv, MemOK
<1>2. IsObject(o, m) /\ \A i \in DOMAIN Fields[o[1]] : Seen(m[i]) = <<>>
  BY <1>1, ZeroedIs
<1>3. mem' = [mem EXCEPT ![o] = m]
  OBVIOUS
<1>4. MemOK' /\ mem'[o] = m /\ \A p \in Objects : p # o => mem'[p] = mem[p]
  BY <1>1, <1>2, <1>3, WriteIs
<1> QED BY <1>2, <1>4 DEF Clean

LEMMA ZeroKeeps ==
  ASSUME Inv, NEW g \in Execs, Zero(g)
  PROVE  Inv'
<1> PICK x : x = exec[g]
  OBVIOUS
<1>1. /\ ExecOK(x) /\ x.pc = "zero" /\ x.obj \in Objects /\ x.todo # <<>> /\ x.got = <<>>
      /\ x.kind \notin {"none", "task"}
  BY DEF Zero, Inv, ExecOK, Injecting
<1> PICK o : o = x.obj
  OBVIOUS
<1>2. mem' = [mem EXCEPT ![o] = Zeroed(o[1], @)] /\ pool' = pool /\ evPool' = evPool
  BY DEF Zero, Evented
<1>3. MemOK' /\ Clean(o)' /\ \A p \in Objects : p # o => mem'[p] = mem[p]
  BY <1>1, <1>2, ZeroWrites
<1>4. CASE x.kind = "handler"
  <2> PICK n : n = [x EXCEPT !.pc = "put"]
    OBVIOUS
  <2>1. exec' = [exec EXCEPT ![g] = n]
    BY <1>4 DEF Zero, Move
  <2>2. /\ IsExec(n) /\ n.pc = "put" /\ n.todo = x.todo /\ n.got = <<>> /\ n.hear = x.hear
        /\ n.all = x.all /\ n.kind = x.kind /\ n.ev = x.ev /\ n.obj = o
    BY <1>1 DEF ExecOK, IsExec
  <2>3. Clean(n.obj)'
    BY <1>3, <2>2 DEF Clean
  <2>4. ExecOK(n)'
    BY <1>1, <1>4, <2>2, <2>3 DEF ExecOK, Injecting
  <2>5. InjectOK(n)'
    BY <2>2 DEF InjectOK, Injecting
  <2> QED BY <1>2, <1>3, <2>1, <2>2, <2>4, <2>5, MoveKeeps
<1>5. CASE x.kind # "handler"
  <2> PICK n : n = NextItem(x)
    OBVIOUS
  <2>1. exec' = [exec EXCEPT ![g] = n]
    BY <1>5 DEF Zero, Move
  <2>2. ExecOK(n) /\ n.obj \in {x.obj, NoObject} /\ n.ev = x.ev /\ n.pc = "next"
    BY <1>1, NextItemOK, NextItemIs DEF ExecOK
  <2>3. ExecOK(n)' /\ InjectOK(n)'
    BY <2>2, DoneWith DEF Injecting
  <2> QED BY <1>2, <1>3, <2>1, <2>2, <2>3, MoveKeeps
<1> QED BY <1>4, <1>5

LEMMA PutHandlerKeeps ==
  ASSUME Inv, NEW g \in Execs, PutHandler(g)
  PROVE  Inv'
<1> PICK x : x = exec[g]
  OBVIOUS
<1>1. /\ ExecOK(x) /\ x.pc = "put" /\ x.obj \in Objects /\ x.todo # <<>> /\ x.got = <<>>
      /\ x.kind = "handler" /\ Clean(x.obj)
  BY DEF PutHandler, Inv, ExecOK, Injecting
<1> PICK o : o = x.obj
  OBVIOUS
<1>2. o \in Pooled
  BY <1>1, NoneApart DEF ExecOK
<1> PICK n : n = NextItem(x)
  OBVIOUS
<1>3. exec' = [exec EXCEPT ![g] = n] /\ pool' = PutBack(o) /\ mem' = mem /\ evPool' = evPool
  BY DEF PutHandler, Move, Evented
<1>4. ExecOK(n) /\ InjectOK(n) /\ n.obj = NoObject /\ n.ev = x.ev
  BY <1>1, NextItemOK, NextItemIs DEF ExecOK
<1>5. MemOK' /\ ExecOK(n)' /\ InjectOK(n)'
  BY <1>3, <1>4, SameMemory
<1>6. Clean(o)'
  BY <1>1, <1>3 DEF Clean
<1>7. PoolOK'
  BY <1>2, <1>3, <1>4, <1>6, ObjectReturned
<1>8. EventsOK'
  BY <1>3, <1>4, EventKept
<1> QED BY <1>3, <1>5, <1>7, <1>8, ExecKeeps

LEMMA EndLoopKeeps ==
  ASSUME Inv, NEW g \in Execs, EndLoop(g)
  PROVE  Inv'
<1> PICK x : x = exec[g]
  OBVIOUS
<1>1. ExecOK(x) /\ x.kind = "loop" /\ x.obj \in Objects
  BY DEF EndLoop, Inv, ExecOK
<1> PICK o : o = x.obj
  OBVIOUS
<1>2. o \in Pooled
  BY <1>1, NoneApart DEF ExecOK
<1>3. /\ mem' = [mem EXCEPT ![o] = Zeroed(o[1], @)] /\ pool' = PutBack(o) /\ evPool' = evPool
      /\ exec' = [exec EXCEPT ![g] = Idle]
  BY DEF EndLoop, Evented, Move
<1>4. MemOK' /\ Clean(o)' /\ \A p \in Objects : p # o => mem'[p] = mem[p]
  BY <1>1, <1>3, ZeroWrites
<1> PICK n : n = Idle
  OBVIOUS
<1>5. n.obj = NoObject /\ n.ev = NoEvent /\ n.pc = "idle" /\ ExecOK(n)
  BY IdleOK DEF Idle
<1>6. ExecOK(n)' /\ InjectOK(n)'
  BY <1>5, DoneWith DEF Injecting
<1>7. PoolOK'
  BY <1>2, <1>3, <1>4, <1>5, ObjectReturned
<1>8. EventsOK'
  BY <1>3, <1>5, EventKept
<1> QED BY <1>3, <1>4, <1>6, <1>7, <1>8, ExecKeeps

(* An executor that becomes idle, or closes the session that quits.          *)
LEMMA IdleKeeps ==
  ASSUME Inv, NEW g \in Execs, Move(g, Idle), mem' = mem, pool' = pool, evPool' = evPool
  PROVE  Inv'
<1> PICK n : n = Idle
  OBVIOUS
<1>1. n.obj = NoObject /\ n.ev = NoEvent /\ ExecOK(n) /\ InjectOK(n)
  BY IdleOK DEF Idle
<1>2. exec' = [exec EXCEPT ![g] = n]
  BY DEF Move
<1>3. Memory
  BY DEF Memory
<1>4. MemOK' /\ ExecOK(n)' /\ InjectOK(n)' /\ \A o \in Objects : mem'[o] = mem[o]
  BY <1>1, SameMemory
<1> QED BY <1>1, <1>2, <1>4, MoveKeeps

Closing(l, s) == [Idle EXCEPT !.pc = l, !.of = s]

LEMMA ClosingOK ==
  ASSUME NEW l \in {"close", "clear"}, NEW s
  PROVE  /\ ExecOK(Closing(l, s)) /\ InjectOK(Closing(l, s))
         /\ Closing(l, s).obj = NoObject /\ Closing(l, s).ev = NoEvent
<1> PICK n : n = Closing(l, s)
  OBVIOUS
<1>1. /\ IsExec(n) /\ n.pc = l /\ n.kind = "none" /\ n.ev = NoEvent /\ n.obj = NoObject
      /\ n.got = <<>>
  BY DEF Closing, Idle, IsExec
<1>2. ExecOK(n)
  BY <1>1 DEF ExecOK, Injecting
<1>3. InjectOK(n)
  BY <1>1 DEF InjectOK, Injecting
<1> QED BY <1>1, <1>2, <1>3

LEMMA EndEventKeeps ==
  ASSUME Inv, NEW g \in Execs, EndEvent(g)
  PROVE  Inv'
<1> PICK x : x = exec[g]
  OBVIOUS
<1> PICK e : e = x.ev
  OBVIOUS
<1>1. e \in Events
  BY DEF EndEvent, Inv, ExecOK
<1>2. mem' = mem /\ pool' = pool /\ evPool' = [evPool EXCEPT ![e] = @ + 1]
  BY DEF EndEvent, Memory
<1> PICK n : n = IF x.quit THEN Closing("close", x.of) ELSE Idle
  OBVIOUS
<1>3. exec' = [exec EXCEPT ![g] = n]
  BY DEF EndEvent, Move, Closing
<1>4. ExecOK(n) /\ InjectOK(n) /\ n.obj = NoObject /\ n.ev = NoEvent
  <2>1. CASE x.quit
    BY <2>1, ClosingOK
  <2>2. CASE ~x.quit
    BY <2>2, IdleOK DEF Idle
  <2> QED BY <2>1, <2>2
<1>5. MemOK' /\ ExecOK(n)' /\ InjectOK(n)' /\ \A o \in Objects : mem'[o] = mem[o]
  BY <1>2, <1>4, SameMemory
<1>6. PoolOK'
  BY <1>2, <1>3, <1>4, <1>5, ObjectKept
<1>7. EventsOK'
  BY <1>1, <1>2, <1>3, <1>4, EventReturned
<1> QED BY <1>3, <1>5, <1>6, <1>7, ExecKeeps

LEMMA QuitCloseKeeps ==
  ASSUME Inv, NEW g \in Execs, QuitClose(g)
  PROVE  Inv'
<1> PICK x : x = exec[g]
  OBVIOUS
<1>1. x.pc = "close" /\ ExecOK(x) /\ mem' = mem /\ pool' = pool /\ evPool' = evPool
  BY DEF QuitClose, Memory, Evented, Inv
<1>2. CASE closed[x.of]
  <2>1. Move(g, Idle)
    BY <1>2 DEF QuitClose
  <2> QED BY <1>1, <2>1, IdleKeeps
<1>3. CASE ~closed[x.of]
  <2> PICK n : n = [x EXCEPT !.pc = "clear"]
    OBVIOUS
  <2>1. exec' = [exec EXCEPT ![g] = n]
    BY <1>3 DEF QuitClose, Move
  <2>2. /\ IsExec(n) /\ n.pc = "clear" /\ n.todo = x.todo /\ n.got = x.got /\ n.hear = x.hear
        /\ n.all = x.all /\ n.kind = x.kind /\ n.ev = x.ev /\ n.obj = x.obj
    BY <1>1 DEF ExecOK, IsExec
  <2>3. ExecOK(n)
    BY <1>1, <2>2 DEF ExecOK, Injecting
  <2>4. InjectOK(n)
    BY <2>2 DEF InjectOK, Injecting
  <2>5. MemOK' /\ ExecOK(n)' /\ InjectOK(n)' /\ \A o \in Objects : mem'[o] = mem[o]
    BY <1>1, <2>3, <2>4, SameMemory
  <2> QED BY <1>1, <2>1, <2>2, <2>5, MoveKeeps
<1> QED BY <1>2, <1>3

-----------------------------------------------------------------------------
(* The invariant.                                                            *)

LEMMA InitInv == Init => Inv
<1> SUFFICES ASSUME Init PROVE Inv
  OBVIOUS
<1>1. \A o \in Objects : IsObject(o, mem[o])
  <2> TAKE o \in Objects
  <2>1. mem[o] = [i \in DOMAIN Fields[o[1]] |-> Blank]
    BY DEF Init
  <2> QED BY <2>1, BlankIs DEF IsObject
<1>2. MemOK
  BY <1>1 DEF Init, MemOK
<1>3. \A g \in Execs : exec[g] = Idle
  BY DEF Init
<1>4. Idle.obj = NoObject /\ Idle.ev = NoEvent
  BY DEF Idle
<1>5. PoolOK
  BY <1>3, <1>4 DEF Init, PoolOK
<1>6. EventsOK
  BY <1>3, <1>4 DEF Init, EventsOK
<1>7. \A g \in Execs : ExecOK(exec[g]) /\ InjectOK(exec[g])
  BY <1>3, IdleOK
<1> QED BY <1>2, <1>5, <1>6, <1>7 DEF Init, Inv

(* Steps that leave objects, events and executors alone.                     *)
LEMMA ElsewhereKeeps ==
  ASSUME Inv, UNCHANGED <<mem, pool, evPool, exec>>
  PROVE  Inv'
<1>1. MemOK' /\ PoolOK' /\ EventsOK'
  BY DEF Inv, MemOK, PoolOK, EventsOK, Clean
<1>2. \A g \in Execs : ExecOK(exec[g])' /\ InjectOK(exec[g])'
  <2> TAKE g \in Execs
  <2> PICK x : x = exec[g]
    OBVIOUS
  <2>1. exec'[g] = x /\ ExecOK(x) /\ InjectOK(x)
    BY DEF Inv
  <2>2. ExecOK(x)'
    BY <2>1 DEF ExecOK, Clean
  <2>3. InjectOK(x)'
    <3>1. \A i \in Given(x) : x.pc \in Injecting => Fitting(x, i)'
      BY <2>1, FittingStays DEF InjectOK
    <3> QED BY <2>1, <3>1 DEF InjectOK
  <2>4. ExecOK(exec[g])'
    BY <2>1, <2>2 DEF ExecOK
  <2> QED BY <2>1, <2>3, <2>4, InjectOf
<1>3. exec' = [g \in Execs |-> exec'[g]]
  BY DEF Inv
<1> QED BY <1>1, <1>2, <1>3 DEF Inv

LEMMA CallKeeps ==
  ASSUME Inv, NEW g \in Execs, Call(g)
  PROVE  Inv'
<1>1. ASSUME NEW s \in Sessions, NEW e \in Events, NEW quit \in BOOLEAN, HandleEvent(g, s, e, quit)
      PROVE Inv'
  BY <1>1, HandleEventKeeps
<1>2. ASSUME NEW except \in Excepts, Emit(g, except) PROVE Inv'
  BY <1>2, EmitKeeps
<1>3. ASSUME NEW y \in Loops, NEW n \in 1 .. PoolSize, NEW ss \in Orders, ExecuteLoop(g, y, ss, <<y, n>>)
      PROVE Inv'
  BY <1>3, ExecuteLoopKeeps
<1>4. ASSUME NEW y \in Tasks, NEW ss \in Parties, ExecuteTask(g, y, ss, <<y, 0>>) PROVE Inv'
  BY <1>4, ExecuteTaskKeeps
<1> QED BY <1>1, <1>2, <1>3, <1>4 DEF Call

LEMMA InjectKeeps ==
  ASSUME Inv, NEW g \in Execs, Inject(g)
  PROVE  Inv'
  BY NoWindowKeeps, InjectSessionKeeps, InjectComponentKeeps, InjectResourceKeeps, InjectNothingKeeps,
     InjectWithoutSourceKeeps, ReadTargetsKeeps, CheckTargetKeeps, CollectTargetKeeps,
     StoreTargetsKeeps, InjectRemoteKeeps DEF Inject

LEMMA ProceedKeeps ==
  ASSUME Inv, NEW g \in Execs, Proceed(g)
  PROVE  Inv'
<1>1. CASE AllSessions(g) \/ EmitTo(g) \/ StartItem(g) \/ Inject(g) \/ Run(g) \/ Zero(g)
           \/ PutHandler(g) \/ EndLoop(g) \/ EndEvent(g) \/ QuitClose(g)
  BY <1>1, AllSessionsKeeps, EmitToKeeps, StartItemKeeps, InjectKeeps, RunKeeps, ZeroKeeps,
     PutHandlerKeeps, EndLoopKeeps, EndEventKeeps, QuitCloseKeeps
<1>2. ASSUME NEW o \in Pooled, GetHandler(g, o) PROVE Inv'
  BY <1>2, GetHandlerKeeps
<1>3. CASE EndTask(g) \/ EndEmit(g) \/ QuitClear(g)
  <2>1. Move(g, Idle) /\ mem' = mem /\ pool' = pool /\ evPool' = evPool
    BY <1>3 DEF EndTask, EndEmit, QuitClear, Memory, Evented
  <2> QED BY <2>1, IdleKeeps
<1> QED BY <1>1, <1>2, <1>3 DEF Proceed

LEMMA NextInv == Inv /\ [Next]_vars => Inv'
<1> SUFFICES ASSUME Inv, [Next]_vars PROVE Inv'
  OBVIOUS
<1>1. ASSUME NEW g \in Execs, Call(g) \/ Proceed(g) PROVE Inv'
  BY <1>1, CallKeeps, ProceedKeeps
<1>2. CASE Change
  <2>1. UNCHANGED <<mem, pool, evPool, exec>>
    BY <1>2 DEF Change, AddOrRemove, Relate, Close, Changes
  <2> QED BY <2>1, ElsewhereKeeps
<1>3. CASE UNCHANGED vars
  BY <1>3, ElsewhereKeeps DEF vars
<1> QED BY <1>1, <1>2, <1>3 DEF Next

(* Every state satisfies the invariant.                                      *)
THEOREM Inductive == Spec => []Inv
<1> QED BY InitInv, NextInv, PTL DEF Spec

(* An object that lies in a pool holds nothing of the session it last        *)
(* served, whichever way its last use ended.                                 *)
THEOREM PoolsAreClean == Spec => []CleanPool
<1>1. Inv => CleanPool
  <2> SUFFICES ASSUME Inv, NEW o \in Objects, pool[o] > 0, NEW i \in DOMAIN mem[o]
               PROVE  Seen(mem[o][i]) = <<>>
    BY DEF CleanPool
  <2>1. pool[o] = 1
    BY DEF Inv, PoolOK
  <2>2. Clean(o) /\ DOMAIN mem[o] = DOMAIN Fields[o[1]]
    BY <2>1 DEF Inv, PoolOK, MemOK, IsObject
  <2> QED BY <2>2 DEF Clean
<1> QED BY <1>1, Inductive, PTL

(* Of a set in which all elements are equal.                                 *)
LEMMA AtMostOne ==
  ASSUME NEW S, \A a, b \in S : a = b
  PROVE  Cardinality(S) \in {0, 1} /\ (S = {} => Cardinality(S) = 0)
<1>1. CASE S = {}
  BY <1>1, FS_EmptySet
<1>2. CASE S # {}
  <2> PICK a \in S : TRUE
    BY <1>2
  <2>1. S = {a}
    OBVIOUS
  <2> QED BY <1>2, <2>1, FS_Singleton
<1> QED BY <1>1, <1>2

(* An object or an event serves one executor, and lies in its pool at most   *)
(* once and not meanwhile.                                                   *)
THEOREM EachServesOne == Spec => []Exclusive
<1>1. Inv => Exclusive
  <2> SUFFICES ASSUME Inv PROVE Exclusive
    OBVIOUS
  <2>1. \A o \in Objects : pool[o] + Cardinality({g \in Execs : exec[g].obj = o}) <= 1
    <3> TAKE o \in Objects
    <3> PICK S : S = {g \in Execs : exec[g].obj = o}
      OBVIOUS
    <3>1. pool[o] \in {0, 1} /\ (pool[o] = 1 => S = {})
      BY DEF Inv, PoolOK
    <3>2. \A a, b \in S : a = b
      BY NoneApart DEF Inv, PoolOK
    <3> QED BY <3>1, <3>2, AtMostOne
  <2>2. \A e \in Events : evPool[e] + Cardinality({g \in Execs : exec[g].ev = e}) <= 1
    <3> TAKE e \in Events
    <3> PICK S : S = {g \in Execs : exec[g].ev = e}
      OBVIOUS
    <3>1. evPool[e] \in {0, 1} /\ (evPool[e] = 1 => S = {})
      BY DEF Inv, EventsOK
    <3>2. \A a, b \in S : a = b
      BY NoneApart DEF Inv, EventsOK
    <3> QED BY <3>1, <3>2, AtMostOne
  <2> QED BY <2>1, <2>2 DEF Exclusive
<1> QED BY <1>1, Inductive, PTL

(* The pointers a system runs with are those of the sessions it runs for,    *)
(* and what it requires is there.                                            *)
THEOREM RunsWithOwnFields == Spec => []OwnFields
<1>1. Inv => OwnFields
  <2> SUFFICES ASSUME Inv, NEW g \in Execs, exec[g].pc = "run",
                      NEW i \in DOMAIN Fields[Sys(exec[g])]
               PROVE  Fitting(exec[g], i)
    BY DEF OwnFields
  <2>1. i \in Given(exec[g])
    BY DEF Given
  <2> QED BY <2>1 DEF Inv, InjectOK, Injecting
<1> QED BY <1>1, Inductive, PTL
=============================================================================
