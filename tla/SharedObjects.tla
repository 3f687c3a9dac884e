---------------------------- MODULE SharedObjects ----------------------------
(***************************************************************************)
(* The objects of all guest clusters side by side: one API server, and the *)
(* links, files and ports of one node.  An object is found by its name     *)
(* alone.  Creating one that exists already counts as success, whoever it  *)
(* was created for, and deleting goes by the name, too, so that clusters   *)
(* whose names coincide use and delete each other's objects.               *)
(*                                                                         *)
(* The calls of all clusters come in any order: passes for several         *)
(* FlannelConfigs take turns, any of them may break off anywhere, agents   *)
(* and cleanup jobs work on their own.                                     *)
(***************************************************************************)
EXTENDS Names

CONSTANTS
  Ids,  \* the ids of the guest clusters
  Vni   \* the VNI of each

(* Nobody checks ids and VNIs: ids may be parts of each other, VNIs may be *)
(* given twice or be no VNIs at all.                                       *)
ASSUME SharedAssumption ==
  /\ \A id \in Ids : id \in Seq(STRING) /\ id # <<>>
  /\ Vni \in [Ids -> Int]

VARIABLES
  objects,  \* the objects that exist, each as the <<kind, id>> it was created for
  call      \* the last call and how it went

Objects == Kinds \X Ids

(* Where an object is, and where it is looked for to delete it.            *)
PathOf == [o \in Objects |-> Path(o[1], NameOf(o[1], o[2], Vni[o[2]]), o[2], Vni[o[2]])]
Target == [o \in Objects |-> Path(o[1], DeletedName(o[1], o[2], Vni[o[2]]), o[2], Vni[o[2]])]

Exists(p) == \E o \in objects : PathOf[o] = p

(* A daemon set with a port that is none is refused.                       *)
Refused ==
  {o \in Objects : o[1] \in {"daemonSet", "healthPort"} /\ ~ValidPort(livenessProbePort(Vni[o[2]]))}

(* A path and what lies in it: a namespace goes with all its objects.      *)
Under(p, q) == p = q \/ p = <<q[1]>>

----------------------------------------------------------------------------
SharedInit ==
  /\ objects = {}
  /\ call = <<>>

(* AlreadyExists is no error: the object is taken as it is.                *)
CreateExisting(k, id) ==
  /\ Exists(PathOf[<<k, id>>])
  /\ call' = <<"create", k, id>>
  /\ UNCHANGED objects

Creatable(k, id) ==
  /\ <<k, id>> \notin Refused
  /\ Inside[k] # "host" => Exists(PathOf[<<Inside[k], id>>])

CreateNew(k, id) ==
  /\ ~Exists(PathOf[<<k, id>>])
  /\ Creatable(k, id)
  /\ objects' = objects \cup {<<k, id>>}
  /\ call' = <<"create", k, id>>

CreateFails(k, id) ==
  /\ ~Exists(PathOf[<<k, id>>])
  /\ ~Creatable(k, id)
  /\ call' = <<"fail", k, id>>
  /\ UNCHANGED objects

(* NotFound is no error either.                                            *)
Delete(k, id) ==
  /\ objects' = {o \in objects : ~Under(Target[<<k, id>>], PathOf[o])}
  /\ call' = <<"delete", k, id>>

SharedNext ==
  \E k \in Kinds, id \in Ids :
    CreateExisting(k, id) \/ CreateNew(k, id) \/ CreateFails(k, id) \/ Delete(k, id)

SharedSpec == SharedInit /\ [][SharedNext]_<<objects, call>>

----------------------------------------------------------------------------
(* Types: of whatever exists, what it lies in exists as well.              *)
SharedTypeOK ==
  /\ objects \subseteq Objects
  /\ \A o \in objects : o \notin Refused /\ (Inside[o[1]] # "host" => <<Inside[o[1]], o[2]>> \in objects)

(* Where two clusters do meet: the cluster "a-psp" has a binding called    *)
(* like one of the cluster "a", and networks of one VNI have one device    *)
(* and one port.                                                           *)
Meets(k, i, l, j) ==
  \/ k = "network"    /\ l = "networkPsp"  /\ i = j \o <<"psp">>
  \/ k = "network"    /\ l = "deletionPsp" /\ i = j \o <<"deletion", "psp">>
  \/ k = "networkPsp" /\ l = "deletionPsp" /\ i = j \o <<"deletion">>
  \/ k = "network"    /\ l = "deletion"    /\ networkApp \o i = j \o <<"deletion">>
  \/ k = "device"     /\ l = "device"      /\ Vni[i] = Vni[j]
  \/ k = "healthPort" /\ l = "healthPort"  /\ livenessProbePort(Vni[i]) = livenessProbePort(Vni[j])

Contested ==
  {o \in Objects : \E p \in Objects :
     o # p /\ (Meets(o[1], o[2], p[1], p[2]) \/ Meets(p[1], p[2], o[1], o[2]))}

(* Nowhere else does a cluster notice the others, whatever their ids and   *)
(* VNIs are and whatever they do to contested objects: what it creates it  *)
(* has until it deletes it itself, and a call fails only where it would    *)
(* fail without the others.                                                *)
Private == INSTANCE PrivateObjects WITH
             owned <- [id \in Ids |-> {k \in Kinds : <<k, id>> \in objects /\ <<k, id>> \notin Contested}]

ImplementsPrivate == Private!Spec
=============================================================================
