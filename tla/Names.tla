-------------------------------- MODULE Names --------------------------------
(***************************************************************************)
(* The names that the operator derives from the id of a guest cluster and  *)
(* from the VNI of its network (v3/key, keys.go of the legacy resource,    *)
(* desired.go of the flanneld resource).  A name that the code joins with  *)
(* "-" is the sequence of its parts, and an id may have several parts, so  *)
(* that two names are the same sequence just when they are the same string.*)
(***************************************************************************)
EXTENDS Integers, Sequences

NetworkID    == <<"flannel", "network">>
networkApp   == <<"flannel", "network">>
destroyerApp == <<"flannel", "destroyer">>

(* Mutant: both namespaces of a cluster have one name.                     *)
OneNamespace(id) == NetworkID \o id

NetworkNamespace(id)   == NetworkID \o id
destroyerNamespace(id) == destroyerApp \o id
serviceAccountName(id) == id

clusterRoleBinding(id)                     == networkApp \o id
clusterRoleBindingForPodSecurityPolicy(id) == networkApp \o id \o <<"psp">>
clusterRoleBindingForDeletion(id)          == id \o <<"deletion">>
clusterRoleBindingForPodSecurityPolicyForDeletion(id) == networkApp \o id \o <<"deletion", "psp">>

(* What the agents of a network put on a node.  All run directories are    *)
(* taken for one.                                                          *)
NetworkBridgeName(id)     == <<"br">> \o id
NetworkEnvFilePath(id)    == NetworkBridgeName(id)
NetworkTapName(id)        == <<"tap">> \o id
NetworkFlannelDevice(vni) == <<"flannel.", vni>>

(* Mutant: the cleanup job looks for the agents' other link.               *)
networkBridgeNameOfTap(id) == <<"tap">> \o id

(* What the cleanup job is told to remove: the legacy resource has its own *)
(* functions for it.                                                       *)
networkBridgeName(id)     == <<"br">> \o id
networkEnvFilePath(id)    == networkBridgeName(id)
networkFlannelDevice(vni) == <<"flannel.", vni>>

(* The conversion to int32 keeps the lower 32 bits.                        *)
Int32(x) == IF -2147483647 <= x /\ x <= 2147483647 THEN x ELSE ((x + 2^31) % 2^32) - 2^31

portBase == 21000
livenessProbePort(vni) == Int32(portBase + vni)

(* What a port must be for the API server to accept the daemon set.        *)
ValidPort(p) == 1 <= p /\ p <= 65535

----------------------------------------------------------------------------
(* What exists for a cluster, by kind, and what each kind lies in: the     *)
(* host cluster, or a namespace of the guest cluster.                      *)
Inside ==
  [networkAccount |-> "networkNamespace", daemonSet |-> "networkNamespace",
   destroyerAccount |-> "destroyerNamespace", job |-> "destroyerNamespace",
   networkNamespace |-> "host", destroyerNamespace |-> "host",
   network |-> "host", networkPsp |-> "host", deletion |-> "host", deletionPsp |-> "host",
   bridge |-> "host", tap |-> "host", device |-> "host", envFile |-> "host", healthPort |-> "host"]

Kinds == DOMAIN Inside

(* Objects of the same sort share their names: bindings, links of a node.  *)
Sort(k) ==
  CASE k \in {"networkNamespace", "destroyerNamespace"} -> "namespace"
    [] k \in {"network", "networkPsp", "deletion", "deletionPsp"} -> "binding"
    [] k \in {"networkAccount", "destroyerAccount"} -> "account"
    [] k \in {"bridge", "tap", "device"} -> "link"
    [] OTHER -> k

(* The name of the object of kind k for the cluster id with the VNI vni.   *)
NameOf(k, id, vni) ==
  CASE k = "networkNamespace"   -> NetworkNamespace(id)
    [] k = "destroyerNamespace" -> destroyerNamespace(id)
    [] k \in {"networkAccount", "destroyerAccount"} -> serviceAccountName(id)
    [] k = "daemonSet"          -> NetworkID
    [] k = "job"                -> destroyerApp
    [] k = "network"            -> clusterRoleBinding(id)
    [] k = "networkPsp"         -> clusterRoleBindingForPodSecurityPolicy(id)
    [] k = "deletion"           -> clusterRoleBindingForDeletion(id)
    [] k = "deletionPsp"        -> clusterRoleBindingForPodSecurityPolicyForDeletion(id)
    [] k = "bridge"             -> NetworkBridgeName(id)
    [] k = "envFile"            -> NetworkEnvFilePath(id)
    [] k = "tap"                -> NetworkTapName(id)
    [] k = "device"             -> NetworkFlannelDevice(vni)
    [] k = "healthPort"         -> livenessProbePort(vni)

(* The name it is deleted by.                                              *)
DeletedName(k, id, vni) ==
  CASE k = "bridge"  -> networkBridgeName(id)
    [] k = "envFile" -> networkEnvFilePath(id)
    [] k = "device"  -> networkFlannelDevice(vni)
    [] OTHER         -> NameOf(k, id, vni)

(* Where an object with the name name is found: two objects are taken for  *)
(* one just if they have the same path.                                    *)
Path(k, name, id, vni) ==
  LET own == <<Sort(k), name>>
  IN  IF Inside[k] = "host" THEN <<own>> ELSE << <<Sort(Inside[k]), NameOf(Inside[k], id, vni)>>, own>>
=============================================================================
