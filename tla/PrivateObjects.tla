--------------------------- MODULE PrivateObjects ---------------------------
(***************************************************************************)
(* What every guest cluster may take the host cluster for: a place of its  *)
(* own, where only its own calls create and delete, apart from objects     *)
(* that are known to be contested.  HostCluster is the model of one such   *)
(* place.                                                                  *)
(***************************************************************************)
CONSTANTS
  Ids, Kinds,
  Inside,    \* what a kind lies in: another kind, or "host"
  Refused,   \* the <<kind, id>> that cannot be created at all
  Contested  \* the <<kind, id>> that another cluster may create or delete as well

VARIABLES
  owned,    \* the kinds of which a cluster has an object of its own
  call      \* the last call and how it went

vars == <<owned, call>>

Possible(k, id) == <<k, id>> \notin Refused /\ (Inside[k] = "host" \/ Inside[k] \in owned[id])

Init ==
  /\ owned = [id \in Ids |-> {}]
  /\ call = <<>>

Own(k, id) == <<k, id>> \notin Contested

Create(k, id) ==
  /\ call' = <<"create", k, id>>
  /\ Own(k, id) /\ Possible(k, id)
  /\ owned' = [owned EXCEPT ![id] = owned[id] \cup {k}]

CreateFails(k, id) ==
  /\ call' = <<"fail", k, id>>
  /\ Own(k, id) /\ ~Possible(k, id)
  /\ UNCHANGED owned

Delete(k, id) ==
  /\ call' = <<"delete", k, id>>
  /\ Own(k, id)
  /\ owned' = [owned EXCEPT ![id] = {l \in owned[id] : l # k /\ Inside[l] # k}]

(* Nothing is known of a contested object, and nobody owns it.             *)
CallContested(k, id) ==
  /\ call' \in {<<"create", k, id>>, <<"fail", k, id>>, <<"delete", k, id>>}
  /\ ~Own(k, id)
  /\ UNCHANGED owned

Next ==
  \E k \in Kinds, id \in Ids :
    Create(k, id) \/ CreateFails(k, id) \/ Delete(k, id) \/ CallContested(k, id)

Spec == Init /\ [][Next]_vars
=============================================================================
