------------------------------- MODULE Dispatch ------------------------------
(****************************************************************************)
(* From an event, a loop or a task to the code it runs: handler.go and      *)
(* event.go (emitting to the registered handlers), inject.go (filling and   *)
(* zeroing a system's fields), the windows of meta.go, and the ways in which*)
(* scheduler.go and manager.go call them.                                   *)
(*                                                                          *)
(* A system is an object of a pool that is filled for one session, run, and *)
(* zeroed for the next. An executor is a goroutine that does so: a world's  *)
(* transaction with an event of Dragonfly, a loop of a batch, a task, or    *)
(* any caller of Manager.Emit; an event that a running handler emits is     *)
(* one more executor. A step is an access to what others may change (a      *)
(* session's components under its lock, a relation, a closed flag, a pool)  *)
(* with the private work that follows it.                                   *)
(*                                                                          *)
(* A pointer is a record: the component comp of session "of", and "via",    *)
(* the session from whose component the way to it started.                  *)
(****************************************************************************)
EXTENDS Integers, Sequences, FiniteSets, SequencesExt

CONSTANTS
  Sessions, Comps,
  Linked,        \* components with a relation or a set of them
  Fields,        \* of each system: its fields as analyzeSystem found them
  Registered,    \* the handlers in the order of their registration
  Loops, Tasks,  \* systems that are run by the scheduler
  Resources,     \* the resources that exist
  Execs,
  Parties,       \* the lists of sessions that tasks are scheduled for
  Excepts,       \* the sets of sessions that EmitExcept leaves out
  PoolSize,      \* bound: objects of a system
  Events,        \* bound: events of one pool
  MaxCalls,      \* bound: calls of all executors
  MaxChanges,    \* bound: changes of components, relations and closed flags
  NoSession, NoSystem, NoObject, NoEvent, Elsewhere, Used

Systems == DOMAIN Fields
Kinds   == {"session", "component", "relation", "relations", "remote", "remotes",
            "resource", "payload", "with", "without"}

ASSUME DispatchSystems ==
  /\ Registered \in Seq(Systems) /\ Loops \cup Tasks \subseteq Systems
  /\ \A y \in Systems : Fields[y] # <<>> /\
       Fields[y] \in Seq([kind : Kinds, comp : Comps \cup Resources \cup {NoSystem}, opt : BOOLEAN])
ASSUME DispatchBounds == {PoolSize, MaxCalls, MaxChanges} \subseteq Nat
ASSUME DispatchSessions == IsFiniteSet(Sessions)
ASSUME DispatchNone == NoObject \notin Systems \X Nat /\ NoEvent \notin Events

-----------------------------------------------------------------------------
(* What analyzeSystem knows of a system: a Session field starts a window.    *)

SessionsUpTo ==
  [y \in Systems |-> [i \in DOMAIN Fields[y] |->
     Cardinality({j \in 1 .. i : Fields[y][j].kind = "session"})]]

WindowOf ==
  [y \in Systems |-> [i \in DOMAIN Fields[y] |->
     IF SessionsUpTo[y][i] = 0 THEN 0 ELSE SessionsUpTo[y][i] - 1]]

Windows(y) == SessionsUpTo[y][Len(Fields[y])]

IsGlobal(y) == \A i \in DOMAIN Fields[y] : Fields[y][i].kind \in {"resource", "payload"}

(* registerHandler keeps global and session handlers apart.                  *)
Globals  == SelectSeq(Registered, IsGlobal)
Handlers == SelectSeq(Registered, LAMBDA y : ~IsGlobal(y))

(* RequireMask and ExcludeMask, of the system and of its windows.            *)
Masked(y, is) ==
  LET of(p(_)) == {Fields[y][i].comp : i \in {j \in is : p(Fields[y][j])}} IN
  [require |-> of(LAMBDA f : f.kind = "with" \/ (f.kind = "component" /\ ~f.opt)),
   exclude |-> of(LAMBDA f : f.kind = "without")]

MaskOf == [y \in Systems |-> Masked(y, DOMAIN Fields[y])]

WindowMask ==
  [y \in Systems |-> [w \in 1 .. Windows(y) |->
     Masked(y, {i \in DOMAIN Fields[y] : SessionsUpTo[y][i] = w})]]

-----------------------------------------------------------------------------
VARIABLES
  comps,    \* the components of each session
  targets,  \* the targets of the relation in each component
  closed,
  mem,      \* the fields of each object
  pool,     \* how often each object lies in the pool of its system
  events,   \* the contents of each event, NoSession when zeroed
  evPool,   \* how often each event lies in its pool
  exec,     \* the executors
  calls, changes

vars == <<comps, targets, closed, mem, pool, events, evPool, exec, calls, changes>>

(* Number 0 is an object that a caller of Schedule has made; it is of no     *)
(* pool.                                                                     *)
Objects == Systems \X (0 .. PoolSize)
Pooled  == {o \in Objects : o[2] # 0}

(* A field holds a pointer or a slice of pointers; a slice keeps its backing *)
(* array when its length becomes 0.                                          *)
Blank == [buf |-> <<>>, len |-> 0]

Seen(v) == SubSeq(v.buf, 1, v.len)

Idle ==
  [pc |-> "idle", kind |-> "none", ev |-> NoEvent, of |-> NoSession, quit |-> FALSE,
   all |-> FALSE, except |-> {}, hear |-> <<>>, todo |-> <<>>, obj |-> NoObject,
   i |-> 1, win |-> 0, last |-> <<>>, tgt |-> <<>>, got |-> <<>>]

Init ==
  /\ comps \in [Sessions -> SUBSET Comps]
  /\ targets \in [Sessions -> [Linked -> SUBSET Sessions]]
  /\ closed = [s \in Sessions |-> FALSE]
  /\ mem = [o \in Objects |-> [i \in DOMAIN Fields[o[1]] |-> Blank]]
  /\ pool = [o \in Objects |-> 0]
  /\ events = [e \in Events |-> NoSession] /\ evPool = [e \in Events |-> 0]
  /\ exec = [g \in Execs |-> Idle]
  /\ calls = 0 /\ changes = 0

World   == UNCHANGED <<comps, targets, closed, changes>>
Memory  == UNCHANGED <<mem, pool>>
Evented == UNCHANGED <<events, evPool>>

-----------------------------------------------------------------------------
(* The calls that start an executor.                                         *)

Starts(g, x) == calls' = calls + 1 /\ exec' = [exec EXCEPT ![g] = x]

Held == {exec[g].obj : g \in Execs}

(* sync.Pool.Get: one that was put back, or a new one.                       *)
Gets(y, o) ==
  /\ o[1] = y
  /\ \/ pool[o] > 0
     \/ pool[o] = 0 /\ o \notin Held /\ \A n \in 1 .. o[2] - 1 : pool[<<y, n>>] > 0 \/ <<y, n>> \in Held
  /\ pool' = [pool EXCEPT ![o] = IF @ > 0 THEN @ - 1 ELSE 0]

Item(y, ss) == [sys |-> y, ss |-> ss]

EventsLent(e) == [evPool EXCEPT ![e] = IF @ > 0 THEN @ - 1 ELSE 0]

(* A Handle method of SessionHandler, NewHandler or HandleQuit: an event of  *)
(* the pool is filled and emitted.                                           *)
HandleEvent(g, s, e, quit) ==
  /\ evPool[e] > 0 \/ \A h \in Execs : exec[h].ev # e
  /\ Starts(g, [Idle EXCEPT !.pc = "next", !.kind = "handler", !.ev = e, !.of = s, !.quit = quit,
                            !.hear = <<s>>])
  /\ evPool' = EventsLent(e)
  /\ events' = [events EXCEPT ![e] = s]
  /\ World /\ Memory

(* Manager.Emit, EmitExcept and EmitGlobal: the global handlers first.       *)
Emit(g, except) ==
  /\ Starts(g, [Idle EXCEPT !.pc = "next", !.kind = "handler", !.all = TRUE, !.except = except,
                            !.todo = [i \in DOMAIN Globals |-> Item(Globals[i], <<>>)]])
  /\ World /\ Memory /\ Evented

(* executeLoopForSessions, and the same for a global loop.                   *)
ExecuteLoop(g, y, ss, o) ==
  /\ y \in Loops /\ Gets(y, o)
  /\ Starts(g, [Idle EXCEPT !.pc = "next", !.kind = "loop", !.obj = o,
       !.todo = IF IsGlobal(y) THEN <<Item(y, <<>>)>>
                ELSE [i \in DOMAIN ss |-> Item(y, <<ss[i]>>)]])
  /\ World /\ UNCHANGED mem /\ Evented

(* executeTask, its sessions being in the transaction; its object keeps what *)
(* an earlier run left in it.                                                *)
ExecuteTask(g, y, ss, o) ==
  /\ y \in Tasks /\ o \notin Held
  /\ Starts(g, [Idle EXCEPT !.pc = "next", !.kind = "task", !.obj = o, !.todo = <<Item(y, ss)>>])
  /\ World /\ Memory /\ Evented

-----------------------------------------------------------------------------
(* The loops over sessions and handlers.                                     *)

Move(g, x) == exec' = [exec EXCEPT ![g] = x] /\ UNCHANGED calls

(* AllSessions, in the order of a map.                                       *)
AllSessions(g) ==
  /\ exec[g].pc = "next" /\ exec[g].todo = <<>> /\ exec[g].all
  /\ \E ss \in SetToSeqs(Sessions \ exec[g].except) :
       Move(g, [exec[g] EXCEPT !.all = FALSE, !.hear = ss])
  /\ World /\ Memory /\ Evented

(* Session.Emit: nothing for a closed session, else each handler in turn.    *)
EmitTo(g) ==
  LET x == exec[g]
      s == Head(x.hear)
  IN
  /\ x.pc = "next" /\ x.todo = <<>> /\ ~x.all /\ x.hear # <<>>
  /\ Move(g, [x EXCEPT !.hear = Tail(@),
       !.todo = IF closed[s] THEN <<>>
                ELSE [i \in DOMAIN Handlers |-> Item(Handlers[i], <<s>>)]])
  /\ World /\ Memory /\ Evented

Fits(s, m) == m.require \subseteq comps[s] /\ m.exclude \cap comps[s] = {}

(* canRun, or for a task of several sessions the masks of their windows.     *)
CanRun(x) ==
  LET t == Head(x.todo) IN
  \/ t.ss = <<>>
  \/ IF x.kind = "task" /\ Windows(t.sys) > 1
     THEN \A w \in 1 .. Len(t.ss) : w <= Windows(t.sys) => Fits(t.ss[w], WindowMask[t.sys][w])
     ELSE Fits(t.ss[1], MaskOf[t.sys])

(* Mutant: the loop keeps using a handler that was put back.                 *)
NextItemHolds(x) == [x EXCEPT !.pc = "next", !.todo = Tail(@), !.i = 1, !.win = 0, !.last = <<>>]

NextItem(x) ==
  [x EXCEPT !.pc = "next", !.todo = Tail(@), !.i = 1, !.win = 0, !.last = <<>>,
            !.obj = IF x.kind = "handler" THEN NoObject ELSE @]

StartItem(g) ==
  LET x == exec[g] IN
  /\ x.pc = "next" /\ x.todo # <<>>
  /\ Move(g, IF ~CanRun(x) THEN NextItem(x)
             ELSE IF x.kind = "handler" THEN [x EXCEPT !.pc = "get"] ELSE [x EXCEPT !.pc = "inject"])
  /\ World /\ Memory /\ Evented

GetHandler(g, o) ==
  /\ exec[g].pc = "get" /\ Gets(Head(exec[g].todo).sys, o)
  /\ Move(g, [exec[g] EXCEPT !.pc = "inject", !.obj = o])
  /\ World /\ UNCHANGED mem /\ Evented

-----------------------------------------------------------------------------
(* injectSystem: the fields in their order.                                  *)

Sys(x)   == Head(x.todo).sys
FieldOf(x) == Fields[Sys(x)][x.i]

(* It gives up: the caller zeroes the object, except a task's.               *)
Fail(x) == IF x.kind = "task" THEN NextItem(x) ELSE [x EXCEPT !.pc = "zero"]

Done(x) ==
  IF x.i = Len(Fields[Sys(x)]) THEN [x EXCEPT !.pc = "run", !.tgt = <<>>, !.got = <<>>]
  ELSE [x EXCEPT !.pc = "inject", !.i = @ + 1, !.tgt = <<>>, !.got = <<>>]

(* Mutant: the component of the window before is still followed.             *)
EnteredKeepsLast(x) == [x EXCEPT !.win = WindowOf[Sys(x)][x.i]]

Entered(x) ==
  LET w == WindowOf[Sys(x)][x.i] IN
  IF w = x.win THEN x ELSE [x EXCEPT !.win = w, !.last = <<>>]

(* There is no session for the field's window, or none at all.               *)
TooFew(x) ==
  LET ss == Head(x.todo).ss IN
  \/ ss = <<>> /\ ~IsGlobal(Sys(x))
  \/ WindowOf[Sys(x)][x.i] # x.win /\ WindowOf[Sys(x)][x.i] >= Len(ss)

NoWindow(g) ==
  /\ exec[g].pc = "inject" /\ TooFew(exec[g])
  /\ Move(g, Fail(exec[g]))
  /\ World /\ Memory /\ Evented

(* A field of one of the kinds is next; x is the executor in its window.     *)
Injects(g, kinds) ==
  exec[g].pc = "inject" /\ ~TooFew(exec[g]) /\ FieldOf(exec[g]).kind \in kinds

Own(x) == Head(x.todo).ss[x.win + 1]

Stores(g, x, v) ==
  /\ mem' = [mem EXCEPT ![x.obj][x.i] = v]
  /\ Move(g, Done(x))
  /\ World /\ UNCHANGED pool /\ Evented

Fails(g, x) == Move(g, Fail(x)) /\ World /\ Memory /\ Evented

(* setFieldPtr, unless a required pointer is nil; p has at most one element. *)
SetPointer(g, x, p) ==
  IF p = <<>> /\ ~FieldOf(x).opt THEN Fails(g, x) ELSE Stores(g, x, [buf |-> p, len |-> Len(p)])

(* setSliceFromPtrs: the backing array is used again when it is large        *)
(* enough.                                                                   *)
Filled(v, ps) ==
  IF ps = <<>> THEN [v EXCEPT !.len = 0]
  ELSE [buf |-> ps \o SubSeq(v.buf, Len(ps) + 1, Len(v.buf)), len |-> Len(ps)]

SetSlice(g, x, ps) == Stores(g, x, Filled(mem[x.obj][x.i], ps))

InjectSession(g) ==
  LET x == Entered(exec[g]) IN
  /\ Injects(g, {"session"})
  /\ Stores(g, x, [buf |-> <<[of |-> Own(x), comp |-> NoSystem, via |-> Own(x)]>>, len |-> 1])

InjectComponent(g) ==
  LET x == Entered(exec[g])
      p == IF FieldOf(x).comp \in comps[Own(x)]
           THEN <<[of |-> Own(x), comp |-> FieldOf(x).comp, via |-> Own(x)]>> ELSE <<>>
  IN
  /\ Injects(g, {"component"})
  /\ SetPointer(g, [x EXCEPT !.last = p], p)

(* Manager and resources.                                                    *)
InjectResource(g) ==
  LET x == Entered(exec[g])
      c == FieldOf(x).comp
  IN
  /\ Injects(g, {"resource"})
  /\ IF c \in Resources THEN Stores(g, x, [buf |-> <<[of |-> Elsewhere, comp |-> c, via |-> Elsewhere]>>,
                                           len |-> 1])
     ELSE Fails(g, x)

(* Phantom fields are passed over, payload is zeroed.                        *)
InjectNothing(g) ==
  LET x == Entered(exec[g]) IN
  /\ Injects(g, {"payload", "with", "without"})
  /\ Stores(g, x, Blank)

(* Fields that are reached through the last component, when there is none.   *)
InjectWithoutSource(g) ==
  LET x == Entered(exec[g]) IN
  /\ Injects(g, {"relation", "relations", "remote", "remotes"}) /\ x.last = <<>>
  /\ IF FieldOf(x).kind \in {"relations", "remotes"} THEN SetSlice(g, x, <<>>)
     ELSE SetPointer(g, x, <<>>)

(* The target of a relation, or the open targets of a relation set, are      *)
(* read.                                                                     *)
ReadTargets(g) ==
  LET x    == Entered(exec[g])
      all  == targets[x.last[1].of][x.last[1].comp]
      open == {s \in all : ~closed[s]}
  IN
  /\ Injects(g, {"relation", "relations"}) /\ x.last # <<>>
  /\ IF FieldOf(x).kind = "relations"
     THEN \E ss \in SetToSeqs(open) : Move(g, [x EXCEPT !.pc = "collect", !.tgt = ss])
     ELSE \E ss \in IF all = {} THEN {<<>>} ELSE {<<s>> : s \in all} :
            Move(g, [x EXCEPT !.pc = "open?", !.tgt = ss])
  /\ World /\ Memory /\ Evented

CheckTarget(g) ==
  LET x == exec[g] IN
  /\ x.pc = "open?"
  /\ IF x.tgt = <<>> \/ closed[Head(x.tgt)] THEN SetPointer(g, x, <<>>)
     ELSE Move(g, [x EXCEPT !.pc = "collect"]) /\ World /\ Memory /\ Evented

(* collectComponentPtrs and the last step of a relation.                     *)
CollectTarget(g) ==
  LET x == exec[g]
      s == Head(x.tgt)
      c == FieldOf(x).comp
  IN
  /\ x.pc = "collect" /\ x.tgt # <<>>
  /\ Move(g, [x EXCEPT !.tgt = Tail(@),
       !.got = IF c \in comps[s] THEN Append(@, [of |-> s, comp |-> c, via |-> x.last[1].of]) ELSE @])
  /\ World /\ Memory /\ Evented

StoreTargets(g) ==
  LET x == exec[g] IN
  /\ x.pc = "collect" /\ x.tgt = <<>>
  /\ IF FieldOf(x).kind = "relations" THEN SetSlice(g, x, x.got) ELSE SetPointer(g, x, x.got)

(* Peers and shared entities; whether one is found is the caches' business.  *)
InjectRemote(g) ==
  LET x == Entered(exec[g])
      p == [of |-> Elsewhere, comp |-> FieldOf(x).comp, via |-> x.last[1].of]
  IN
  /\ Injects(g, {"remote", "remotes"}) /\ x.last # <<>>
  /\ \E ps \in {<<>>, <<p>>} :
       IF FieldOf(x).kind = "remotes" THEN SetSlice(g, x, ps) ELSE SetPointer(g, x, ps)

-----------------------------------------------------------------------------
(* The system runs and leaves something in its payload; then the object is   *)
(* zeroed and, a handler's, put back.                                        *)

Run(g) ==
  LET x == exec[g]
      f(i) == Fields[Sys(x)][i].kind
  IN
  /\ x.pc = "run"
  /\ mem' = [mem EXCEPT ![x.obj] =
       [i \in DOMAIN @ |-> IF f(i) = "payload" THEN [buf |-> <<Used>>, len |-> 1] ELSE @[i]]]
  /\ Move(g, IF x.kind = "task" THEN NextItem(x) ELSE [x EXCEPT !.pc = "zero"])
  /\ World /\ UNCHANGED pool /\ Evented

(* Mutant: payload is left to the next injection.                            *)
ZeroedNotPayload(y, v) ==
  [i \in DOMAIN v |->
     IF Fields[y][i].kind = "payload" THEN v[i]
     ELSE IF Fields[y][i].kind \in {"relations", "remotes"} THEN [v[i] EXCEPT !.len = 0] ELSE Blank]

(* zeroSystem.                                                               *)
Zeroed(y, v) ==
  [i \in DOMAIN v |->
     IF Fields[y][i].kind \in {"relations", "remotes"} THEN [v[i] EXCEPT !.len = 0] ELSE Blank]

Zero(g) ==
  LET x == exec[g] IN
  /\ x.pc = "zero"
  /\ mem' = [mem EXCEPT ![x.obj] = Zeroed(x.obj[1], @)]
  /\ Move(g, IF x.kind = "handler" THEN [x EXCEPT !.pc = "put"] ELSE NextItem(x))
  /\ World /\ UNCHANGED pool /\ Evented

PutBack(o) == [pool EXCEPT ![o] = @ + 1]

PutHandler(g) ==
  /\ exec[g].pc = "put"
  /\ pool' = PutBack(exec[g].obj)
  /\ Move(g, NextItem(exec[g]))
  /\ World /\ UNCHANGED mem /\ Evented

Finished(x) == x.pc = "next" /\ x.todo = <<>> /\ ~x.all /\ x.hear = <<>>

(* The deferred zeroing and Put of a loop.                                   *)
EndLoop(g) ==
  LET x == exec[g] IN
  /\ Finished(x) /\ x.kind = "loop"
  /\ mem' = [mem EXCEPT ![x.obj] = Zeroed(x.obj[1], @)]
  /\ pool' = PutBack(x.obj)
  /\ Move(g, Idle)
  /\ World /\ Evented

EndTask(g) ==
  /\ Finished(exec[g]) /\ exec[g].kind = "task"
  /\ Move(g, Idle)
  /\ World /\ Memory /\ Evented

EndEmit(g) ==
  /\ Finished(exec[g]) /\ exec[g].kind = "handler" /\ exec[g].ev = NoEvent
  /\ Move(g, Idle)
  /\ World /\ Memory /\ Evented

(* The event is zeroed and put back; a quit then closes the session.         *)
EndEvent(g) ==
  LET x == exec[g] IN
  /\ Finished(x) /\ x.ev # NoEvent
  /\ events' = [events EXCEPT ![x.ev] = NoSession]
  /\ evPool' = [evPool EXCEPT ![x.ev] = @ + 1]
  /\ Move(g, IF x.quit THEN [Idle EXCEPT !.pc = "close", !.of = x.of] ELSE Idle)
  /\ World /\ Memory

(* Session.close from HandleQuit: the flag, then the components.             *)
QuitClose(g) ==
  LET s == exec[g].of IN
  /\ exec[g].pc = "close"
  /\ IF closed[s] THEN Move(g, Idle) ELSE Move(g, [exec[g] EXCEPT !.pc = "clear"])
  /\ closed' = [closed EXCEPT ![s] = TRUE]
  /\ UNCHANGED <<comps, targets, changes>> /\ Memory /\ Evented

QuitClear(g) ==
  /\ exec[g].pc = "clear"
  /\ comps' = [comps EXCEPT ![exec[g].of] = {}]
  /\ Move(g, Idle)
  /\ UNCHANGED <<targets, closed, changes>> /\ Memory /\ Evented

-----------------------------------------------------------------------------
(* What other goroutines and running systems do to a session.                *)

Changes == changes < MaxChanges /\ changes' = changes + 1
             /\ UNCHANGED <<mem, pool, events, evPool, exec, calls>>

AddOrRemove(s, c) ==
  /\ Changes /\ UNCHANGED <<targets, closed>>
  /\ comps' = [comps EXCEPT ![s] = IF c \in @ THEN @ \ {c} ELSE @ \cup {c}]

Relate(s, c, ss) ==
  /\ Changes /\ UNCHANGED <<comps, closed>>
  /\ ss # targets[s][c] /\ targets' = [targets EXCEPT ![s][c] = ss]

Close(s) ==
  /\ Changes /\ UNCHANGED <<comps, targets>>
  /\ ~closed[s] /\ closed' = [closed EXCEPT ![s] = TRUE]

-----------------------------------------------------------------------------
Orders == SetToSeqs(Sessions)

Inject(g) ==
  \/ NoWindow(g) \/ InjectSession(g) \/ InjectComponent(g) \/ InjectResource(g)
  \/ InjectNothing(g) \/ InjectWithoutSource(g) \/ ReadTargets(g) \/ CheckTarget(g)
  \/ CollectTarget(g) \/ StoreTargets(g) \/ InjectRemote(g)

Call(g) ==
  /\ exec[g].pc = "idle" /\ calls < MaxCalls
  /\ \/ \E s \in Sessions, e \in Events, quit \in BOOLEAN : HandleEvent(g, s, e, quit)
     \/ \E except \in Excepts : Emit(g, except)
     \/ \E y \in Loops, n \in 1 .. PoolSize, ss \in Orders : ExecuteLoop(g, y, ss, <<y, n>>)
     \/ \E y \in Tasks, ss \in Parties : ExecuteTask(g, y, ss, <<y, 0>>)

Proceed(g) ==
  \/ AllSessions(g) \/ EmitTo(g) \/ StartItem(g) \/ (\E o \in Pooled : GetHandler(g, o))
  \/ Inject(g) \/ Run(g) \/ Zero(g) \/ PutHandler(g)
  \/ EndLoop(g) \/ EndTask(g) \/ EndEmit(g) \/ EndEvent(g) \/ QuitClose(g) \/ QuitClear(g)

Change ==
  \E s \in Sessions :
    \/ Close(s)
    \/ \E c \in Comps : AddOrRemove(s, c)
    \/ \E c \in Linked, ss \in SUBSET Sessions : Relate(s, c, ss)

Next == (\E g \in Execs : Call(g) \/ Proceed(g)) \/ Change

Spec == Init /\ [][Next]_vars

-----------------------------------------------------------------------------
(* Properties.                                                               *)

(* An object that lies in a pool holds nothing of the session it last served,*)
(* whichever way its last use ended.                                         *)
CleanPool == \A o \in Objects : pool[o] > 0 => \A i \in DOMAIN mem[o] : Seen(mem[o][i]) = <<>>

(* An object or an event serves one executor, and lies in its pool at most   *)
(* once and not meanwhile.                                                   *)
Exclusive ==
  /\ \A o \in Objects : pool[o] + Cardinality({g \in Execs : exec[g].obj = o}) <= 1
  /\ \A e \in Events : evPool[e] + Cardinality({g \in Execs : exec[g].ev = e}) <= 1

(* The pointers a system runs with: what it requires is there although it    *)
(* was removed after the mask was checked, each is of the wanted type, and   *)
(* each belongs to the session of its window or was reached through one of   *)
(* that session's components, never to the session the object served before. *)
(* Fields of other kinds are empty, the payload of a task too: so it is in   *)
(* the code, while readme.md:470-506 lets a task run with its payload.       *)
Fitting(x, i) ==
  LET f == Fields[Sys(x)][i]
      v == Seen(mem[x.obj][i])
      own == Head(x.todo).ss[WindowOf[Sys(x)][i] + 1]
  IN
  /\ f.kind \in {"payload", "with", "without"} => v = <<>>
  /\ f.kind = "resource" => v # <<>>
  /\ f.kind \notin {"payload", "with", "without", "resource"} =>
       /\ \A p \in ToSet(v) : p.via = own
       /\ f.kind \in {"session", "component"} => \A p \in ToSet(v) : p.of = own
       /\ f.kind # "session" => \A p \in ToSet(v) : p.comp = f.comp
       /\ v = <<>> => f.opt \/ f.kind \in {"relations", "remotes"}

OwnFields == \A g \in Execs : exec[g].pc = "run" => \A i \in DOMAIN Fields[Sys(exec[g])] : Fitting(exec[g], i)

=============================================================================
