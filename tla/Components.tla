----------------------------- MODULE Components ------------------------------
(****************************************************************************)
(* The components of one session: Add, AddUntil, GetOrAdd and Remove of     *)
(* component.go, processExpirations and removeComponentByID of session.go,  *)
(* the part of close that detaches and clears components, and the updates   *)
(* of providers in manager.go.                                              *)
(*                                                                          *)
(* A component object (Insts) is added once. s.mu makes each change of the  *)
(* slots and the mask one step; the Attach and Detach hooks, and the map of *)
(* expirations with its own lock, come in steps of their own.               *)
(****************************************************************************)
EXTENDS Integers, FiniteSets

CONSTANTS
  Types,       \* registered component types
  Insts,       \* component objects given to Add, AddUntil, GetOrAdd or by a provider
  TypeOf,      \* the type of an object
  Callers,     \* goroutines that call the API or serve a provider's subscription
  MaxTime,     \* bound on the clock
  Untils,      \* expiry times given to AddUntil
  Mortal,      \* bound: whether the session may be closed
  NoInst, NoTime

ASSUME TimeAssumption == MaxTime \in Nat /\ NoTime \notin Int /\ Untils \subseteq 0 .. MaxTime
ASSUME InstAssumption == NoInst \notin Insts /\ TypeOf \in [Insts -> Types]
ASSUME MortalAssumption == Mortal \in BOOLEAN

VARIABLES
  now,
  unnamed,     \* types whose register call has yet to store them in typesArr
  slot,        \* Session.components
  mask,        \* Session.mask
  content,     \* the object whose data the component of a type holds
  expiry,      \* Session.expirations
  pc, arg, until,      \* a caller: where it is, its object, its expiry time
  tpc, expired, targ,  \* processExpirations: where it is, the types it collected
  cpc, toDetach,       \* close: where it is, the components it collected
  added,       \* objects given to an Add so far
  placed,      \* objects that have been in a slot (history)
  detaches,    \* how often Detach has been called on an object (history)
  missed       \* objects that expired while their type was unnamed (history)

callVars  == <<pc, arg, until>>
tickVars  == <<tpc, expired, targ>>
closeVars == <<cpc, toDetach>>
histVars  == <<added, placed, detaches, missed>>
vars == <<now, unnamed, slot, mask, content, expiry, callVars, tickVars, closeVars, histVars>>

Times == 0 .. MaxTime

TypeOK ==
  /\ now \in Times /\ unnamed \in SUBSET Types
  /\ slot \in [Types -> Insts \cup {NoInst}] /\ mask \in SUBSET Types
  /\ content \in [Types -> Insts \cup {NoInst}]
  /\ expiry \in [Types -> Times \cup {NoTime}]
  /\ pc \in [Callers -> {"idle", "attach", "expire", "detach", "provide"}]
  /\ arg \in [Callers -> Insts \cup {NoInst}]
  /\ until \in [Callers -> Times \cup {NoTime}]
  /\ tpc \in {"idle", "removing", "detach"} /\ expired \in SUBSET Types
  /\ targ \in Insts \cup {NoInst} /\ (tpc = "detach" => targ \in Insts)
  /\ cpc \in {"open", "closed", "collected", "cleared", "done"} /\ toDetach \in SUBSET Insts
  /\ added \in SUBSET Insts /\ placed \in SUBSET Insts
  /\ detaches \in [Insts -> Nat] /\ missed \in SUBSET Insts

Init ==
  /\ now = 0 /\ unnamed \in SUBSET Types
  /\ slot = [c \in Types |-> NoInst] /\ mask = {} /\ content = slot
  /\ expiry = [c \in Types |-> NoTime]
  /\ pc = [p \in Callers |-> "idle"] /\ arg = [p \in Callers |-> NoInst]
  /\ until = [p \in Callers |-> NoTime]
  /\ tpc = "idle" /\ expired = {} /\ targ = NoInst
  /\ cpc = "open" /\ toDetach = {}
  /\ added = {} /\ placed = {} /\ detaches = [i \in Insts |-> 0] /\ missed = {}

Tick ==
  /\ now < MaxTime /\ now' = now + 1
  /\ UNCHANGED <<unnamed, slot, mask, content, expiry, callVars, tickVars, closeVars, histVars>>

(* register, component.go: the first call for a type gives it an ID that all *)
(* others find at once, and stores the type under that ID after it.          *)
NameType(c) ==
  /\ c \in unnamed
  /\ unnamed' = unnamed \ {c}
  /\ UNCHANGED <<now, slot, mask, content, expiry, callVars, tickVars, closeVars, histVars>>

-----------------------------------------------------------------------------
(* The API, component.go.                                                    *)

(* Mutant: the new object takes the place of the old one.                    *)
StoredAnew(c, i) == i

(* An Add over a component copies the data into the old object, so that      *)
(* pointers handed out before see it.                                        *)
Stored(c, i) == IF slot[c] = NoInst THEN i ELSE slot[c]

(* Mutant: AddUntil forgets the expiry when it has only copied.              *)
AfterCopyNothing(e) == "idle"

AfterCopy(e) == IF e = NoTime THEN "idle" ELSE "expire"

(* Add when e is NoTime, else AddUntil, and AddFor through it. Nothing asks  *)
(* whether the session is closed.                                            *)
Add(p, i, e) ==
  LET c == TypeOf[i]
      fresh == slot[c] = NoInst
  IN
  /\ pc[p] = "idle" /\ i \notin added
  /\ added' = added \cup {i}
  /\ slot' = [slot EXCEPT ![c] = Stored(c, i)]
  /\ content' = [content EXCEPT ![c] = i]
  /\ mask' = mask \cup {c}
  /\ placed' = placed \cup {slot'[c]}
  /\ arg' = [arg EXCEPT ![p] = i] /\ until' = [until EXCEPT ![p] = e]
  /\ pc' = [pc EXCEPT ![p] = IF fresh THEN "attach" ELSE AfterCopy(e)]
  /\ UNCHANGED <<now, unnamed, expiry, tickVars, closeVars, detaches, missed>>

(* GetOrAdd, when the component is missing.                                  *)
GetOrAdd(p, i) == slot[TypeOf[i]] = NoInst /\ Add(p, i, NoTime)

(* The Attach hook and the event, after the unlock.                          *)
Attach(p) ==
  /\ pc[p] = "attach"
  /\ pc' = [pc EXCEPT ![p] = AfterCopy(until[p])]
  /\ UNCHANGED <<now, unnamed, slot, mask, content, expiry, arg, until, tickVars, closeVars,
                 histVars>>

SetExpiry(p) ==
  /\ pc[p] = "expire"
  /\ expiry' = [expiry EXCEPT ![TypeOf[arg[p]]] = until[p]]
  /\ pc' = [pc EXCEPT ![p] = "idle"]
  /\ UNCHANGED <<now, unnamed, slot, mask, content, arg, until, tickVars, closeVars, histVars>>

(* Mutant: the slot is left for the Detach hook to find.                     *)
EmptiedLater(c) == slot

Emptied(c) == [slot EXCEPT ![c] = NoInst]

(* Mutant: the bit of the component stays set.                               *)
UnmaskedNot(c) == mask

Unmasked(c) == mask \ {c}

(* Remove clears the slot first and calls Detach after the unlock.           *)
Remove(p, c) ==
  /\ pc[p] = "idle" /\ slot[c] # NoInst
  /\ slot' = Emptied(c) /\ mask' = Unmasked(c)
  /\ pc' = [pc EXCEPT ![p] = "detach"] /\ arg' = [arg EXCEPT ![p] = slot[c]]
  /\ UNCHANGED <<now, unnamed, content, expiry, until, tickVars, closeVars, histVars>>

Detach(p) ==
  /\ pc[p] = "detach"
  /\ detaches' = [detaches EXCEPT ![arg[p]] = @ + 1]
  /\ pc' = [pc EXCEPT ![p] = "idle"]
  /\ UNCHANGED <<now, unnamed, slot, mask, content, expiry, arg, until, tickVars, closeVars, added,
                 placed, missed>>

(* processProviderUpdates, manager.go, for one update: it asks whether the   *)
(* session is closed.                                                        *)
ReceiveUpdate(p, i) ==
  /\ pc[p] = "idle" /\ i \notin added /\ cpc = "open"
  /\ added' = added \cup {i}
  /\ arg' = [arg EXCEPT ![p] = i] /\ until' = [until EXCEPT ![p] = NoTime]
  /\ pc' = [pc EXCEPT ![p] = "provide"]
  /\ UNCHANGED <<now, unnamed, slot, mask, content, expiry, tickVars, closeVars, placed,
                 detaches, missed>>

(* addComponentToSession: as Add, but without the hook, and whatever has     *)
(* happened to the session.                                                  *)
AddProvided(p) ==
  LET c == TypeOf[arg[p]] IN
  /\ pc[p] = "provide"
  /\ slot' = [slot EXCEPT ![c] = Stored(c, arg[p])]
  /\ content' = [content EXCEPT ![c] = arg[p]]
  /\ mask' = mask \cup {c}
  /\ placed' = placed \cup {slot'[c]}
  /\ pc' = [pc EXCEPT ![p] = "idle"]
  /\ UNCHANGED <<now, unnamed, expiry, arg, until, tickVars, closeVars, added,
                 detaches, missed>>

-----------------------------------------------------------------------------
(* processExpirations, session.go, on the scheduler's goroutine. A closed    *)
(* session is ticked until removeSession has taken it from the manager.      *)

Due == {c \in Types : expiry[c] # NoTime /\ expiry[c] <= now}

CollectExpired ==
  /\ tpc = "idle" /\ cpc # "done" /\ Due # {}
  /\ expired' = Due
  /\ expiry' = [c \in Types |-> IF c \in Due THEN NoTime ELSE expiry[c]]
  /\ tpc' = "removing"
  /\ UNCHANGED <<now, unnamed, slot, mask, content, callVars, targ, closeVars, histVars>>

(* removeComponentByID.                                                      *)
RemoveExpired(c) ==
  /\ tpc = "removing" /\ c \in expired
  /\ expired' = expired \ {c}
  /\ \/ /\ slot[c] = NoInst
        /\ UNCHANGED <<slot, mask, tpc, targ>>
     \/ /\ slot[c] # NoInst
        /\ slot' = Emptied(c) /\ mask' = Unmasked(c)
        /\ tpc' = "detach" /\ targ' = slot[c]
  /\ UNCHANGED <<now, unnamed, content, expiry, callVars, closeVars, histVars>>

(* Detach is found through getType, which answers nil until the type is      *)
(* stored: then neither the hook nor the event comes.                        *)
DetachExpired ==
  /\ tpc = "detach"
  /\ \/ /\ TypeOf[targ] \notin unnamed
        /\ detaches' = [detaches EXCEPT ![targ] = @ + 1]
        /\ UNCHANGED missed
     \/ /\ TypeOf[targ] \in unnamed
        /\ missed' = missed \cup {targ}
        /\ UNCHANGED detaches
  /\ tpc' = "removing"
  /\ UNCHANGED <<now, unnamed, slot, mask, content, expiry, callVars, expired, targ, closeVars,
                 added, placed>>

ExpirationsDone ==
  /\ tpc = "removing" /\ expired = {}
  /\ tpc' = "idle"
  /\ UNCHANGED <<now, unnamed, slot, mask, content, expiry, callVars, expired, targ, closeVars,
                 histVars>>

-----------------------------------------------------------------------------
(* The components' part of Session.close.                                    *)

CloseSwap ==
  /\ Mortal /\ cpc = "open"
  /\ cpc' = "closed"
  /\ UNCHANGED <<now, unnamed, slot, mask, content, expiry, callVars, tickVars, toDetach, histVars>>

CloseCollect ==
  /\ cpc = "closed"
  /\ cpc' = "collected"
  /\ toDetach' = {slot[c] : c \in Types \ unnamed} \ {NoInst}
  /\ UNCHANGED <<now, unnamed, slot, mask, content, expiry, callVars, tickVars, histVars>>

CloseDetach(i) ==
  /\ cpc = "collected" /\ i \in toDetach
  /\ toDetach' = toDetach \ {i}
  /\ detaches' = [detaches EXCEPT ![i] = @ + 1]
  /\ UNCHANGED <<now, unnamed, slot, mask, content, expiry, callVars, tickVars, cpc, added, placed,
                 missed>>

CloseClear ==
  /\ cpc = "collected" /\ toDetach = {}
  /\ cpc' = "cleared"
  /\ slot' = [c \in Types |-> NoInst] /\ mask' = {}
  /\ UNCHANGED <<now, unnamed, content, expiry, callVars, tickVars, toDetach, histVars>>

CloseDone ==
  /\ cpc = "cleared"
  /\ cpc' = "done"
  /\ UNCHANGED <<now, unnamed, slot, mask, content, expiry, callVars, tickVars, toDetach, histVars>>

-----------------------------------------------------------------------------
Call(p) ==
  \/ \E i \in Insts : GetOrAdd(p, i) \/ \E e \in Untils \cup {NoTime} : Add(p, i, e)
  \/ \E c \in Types : Remove(p, c)
  \/ \E i \in Insts : ReceiveUpdate(p, i)

CallerStep(p) == Attach(p) \/ SetExpiry(p) \/ Detach(p) \/ AddProvided(p)

SchedulerStep ==
  CollectExpired \/ (\E c \in Types : RemoveExpired(c)) \/ DetachExpired \/ ExpirationsDone

CloseStep ==
  CloseCollect \/ (\E i \in Insts : CloseDetach(i)) \/ CloseClear \/ CloseDone

Next ==
  \/ Tick
  \/ \E c \in Types : NameType(c)
  \/ \E p \in Callers : Call(p) \/ CallerStep(p)
  \/ SchedulerStep
  \/ CloseSwap
  \/ CloseStep

(* The clock and the scheduler go on, and a call that has begun ends.        *)
Fairness ==
  /\ WF_vars(Tick) /\ WF_vars(SchedulerStep)
  /\ \A p \in Callers : WF_vars(CallerStep(p))

Spec == Init /\ [][Next]_vars
FairSpec == Spec /\ Fairness

-----------------------------------------------------------------------------
(* Properties.                                                               *)

(* What canRun tests is what injectSystem finds: a bit of the mask is set    *)
(* exactly when the slot of its component is taken.                          *)
MaskMatches == mask = {c \in Types : slot[c] # NoInst}

(* A pointer to a component that a handler or a loop was given stays the     *)
(* component's own as long as it is not removed: an Add never puts another   *)
(* object in its place.                                                      *)
PointerStable ==
  [][\A c \in Types : slot[c] # NoInst => slot'[c] \in {slot[c], NoInst}]_vars

(* As long as the session is open, a component that has left its slot is     *)
(* detached exactly once, whether Remove or its expiry took it, and none is  *)
(* detached while it is in its slot. One that expired before register had    *)
(* stored its type, so that getType did not know it, is never detached.      *)
Detaching(i) ==
  Cardinality({p \in Callers : pc[p] = "detach" /\ arg[p] = i})
  + (IF tpc = "detach" /\ targ = i THEN 1 ELSE 0)

Left(i) == i \in placed /\ slot[TypeOf[i]] # i

Served(i) == detaches[i] + (IF i \in missed THEN 1 ELSE 0)

DetachedOnce ==
  cpc = "open" =>
    \A i \in Insts : Served(i) + Detaching(i) = IF Left(i) THEN 1 ELSE 0

(* A component that was given an expiry does not stay: in the end it is      *)
(* removed, other data took its place, or the session is closed.             *)
Holds(i) == slot[TypeOf[i]] # NoInst /\ content[TypeOf[i]] = i

EveryLeaseEnds ==
  \A p \in Callers, i \in Insts :
     arg[p] = i /\ until[p] # NoTime /\ Holds(i) ~> ~Holds(i) \/ cpc # "open"

=============================================================================
