-------------------------------- MODULE IdSet --------------------------------
(****************************************************************************)
(* What PeerSet and SharedSet promise: a set of IDs on which each call has  *)
(* its effect at one moment between its beginning and its end. RefSets      *)
(* implements it.                                                           *)
(****************************************************************************)

CONSTANTS Ids, Users, Lists, NoCall

VARIABLES
  members,  \* the IDs in the set
  call      \* what each user has asked for and not yet got

Calls ==
  [op : {"add", "remove"}, id : Ids] \cup [op : {"set"}, ids : Lists] \cup [op : {"clear"}]

(* Set is given a list: the set of the IDs in it.                            *)
After(c, ids) ==
  CASE c.op = "add"    -> ids \cup {c.id}
    [] c.op = "remove" -> ids \ {c.id}
    [] c.op = "set"    -> {c.ids[i] : i \in DOMAIN c.ids}
    [] c.op = "clear"  -> {}

Init == members = {} /\ call = [u \in Users |-> NoCall]

Begin(u, c) ==
  /\ call[u] = NoCall /\ call' = [call EXCEPT ![u] = c]
  /\ UNCHANGED members

Perform(u) ==
  /\ call[u] # NoCall /\ call' = [call EXCEPT ![u] = NoCall]
  /\ members' = After(call[u], members)

Next == \E u \in Users : (\E c \in Calls : Begin(u, c)) \/ Perform(u)

Spec == Init /\ [][Next]_<<members, call>>

=============================================================================
