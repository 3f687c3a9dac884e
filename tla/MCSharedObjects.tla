--------------------------- MODULE MCSharedObjects ---------------------------
(* An instance of SharedObjects for TLC: bindings of different clusters meet*)
(* in two ways, two clusters have the same VNI, and the third has one that  *)
(* is too large for its port.                                               *)
EXTENDS SharedObjects, FiniteSets

CONSTANT MaxObjects  \* bound on the objects that exist at a time

MCIds == {<<"a">>, <<"a", "psp">>, <<"a", "deletion">>}
MCVni == [id \in MCIds |-> IF id = <<"a">> THEN 44536 ELSE 44535]

Few == Cardinality(objects) <= MaxObjects

(* The view of a state: no step depends on the last call.                  *)
WithoutCall == objects

MCNext == SharedNext /\ Few'
MCSpec == SharedInit /\ [][MCNext]_<<objects, call>>
=============================================================================
