---------------------------- MODULE HostCluster ----------------------------
(***************************************************************************)
(* What surrounds flannel-operator, as far as its code relies on it: the   *)
(* FlannelConfig resource, etcd, the objects of the Kubernetes API of one  *)
(* host cluster, its nodes, and whoever else changes them (the user, the   *)
(* operator that owns the guest cluster, the controllers of Kubernetes,    *)
(* the agents of the flanneld daemon set and the pods of the cleanup job). *)
(* None of this is code of the repository: each definition is read off the *)
(* calls the repository makes and the answers it is prepared for.          *)
(*                                                                         *)
(* The model follows one FlannelConfig, that is, one guest cluster.        *)
(***************************************************************************)
EXTENDS Naturals, FiniteSets

CONSTANTS
  Configs,           \* the values spec.flannel.spec may have
  NoConfig,          \* "no network config stored"
  Unreadable,        \* what is stored is no JSON
  Nodes,             \* the nodes of the host cluster
  SharedDaemonSets,  \* do extensions/v1beta1 and apps/v1 show the same objects?
  MaxChurn           \* bound on the disturbances from outside

ASSUME HostAssumption ==
  /\ NoConfig \notin Configs /\ Unreadable \notin Configs \cup {NoConfig}
  /\ IsFiniteSet(Nodes)
  /\ SharedDaemonSets \in BOOLEAN
  /\ MaxChurn \in Nat

VARIABLES
  cr,           \* the FlannelConfig: "live", "deleting" (marked) or "gone"
  finalizer,    \* does it carry the operator's finalizer?
  spec,         \* its network config
  config,       \* the value of <network path>/config in etcd
  namespaces,   \* the phase of the three namespaces the operator looks at
  pods,         \* are there pods in the namespace of the guest cluster?
  daemonSets,   \* the API groups through which a daemon set was created
  agents,       \* the nodes on which a pod of the daemon set runs
  accounts,     \* the namespaces that hold the operator's service account
  bindings,     \* the cluster role bindings of the operator
  job,          \* the job that cleans up network bridges
  envFiles,     \* the nodes with an environment file of flanneld
  bridges,      \* the nodes that carry a bridge of the guest cluster
  schedulable,  \* the nodes that are not cordoned
  churn         \* how many disturbances there were

userVars  == <<cr, finalizer, spec>>
groupVars == <<namespaces, pods>>
loadVars  == <<daemonSets, agents, job>>
rbacVars  == <<accounts, bindings>>
nodeVars  == <<envFiles, bridges, schedulable>>
hostVars  == <<userVars, config, groupVars, loadVars, rbacVars, nodeVars, churn>>

Phases     == {"Absent", "Active", "Terminating"}
Namespaces == {"network", "cluster", "destroyer"}
Groups     == {"extensions", "apps"}
Bindings   == {"network", "networkPsp", "deletion", "deletionPsp"}

Jobs  == [created : BOOLEAN, completions : Nat, running : SUBSET Nodes, succeeded : Nat]
NoJob == [created |-> FALSE, completions |-> 0, running |-> {}, succeeded |-> 0]
NewJob(n) == [created |-> TRUE, completions |-> n, running |-> {}, succeeded |-> 0]

(* What the bindings say: in which namespace the service account is that   *)
(* they bind, and to which cluster role.                                   *)
Subject == [network  |-> "network",   networkPsp  |-> "network",
            deletion |-> "destroyer", deletionPsp |-> "destroyer"]
RoleOf  == [network  |-> "flannel-operator", networkPsp  |-> "flannel-operator-psp",
            deletion |-> "flannel-operator", deletionPsp |-> "flannel-operator-psp"]

HostTypeOK ==
  /\ cr \in {"live", "deleting", "gone"}
  /\ finalizer \in BOOLEAN
  /\ spec \in Configs
  /\ config \in Configs \cup {NoConfig, Unreadable}
  /\ namespaces \in [Namespaces -> Phases]
  /\ pods \in BOOLEAN
  /\ daemonSets \subseteq Groups
  /\ agents \subseteq Nodes
  /\ accounts \subseteq {"network", "destroyer"}
  /\ bindings \subseteq Bindings
  /\ job \in Jobs
  /\ envFiles \subseteq Nodes /\ bridges \subseteq Nodes
  /\ schedulable \subseteq Nodes
  /\ churn \in 0 .. MaxChurn

----------------------------------------------------------------------------
(* The writes of the API server and of etcd, each one atomic.              *)

PutConfig(c) ==
  /\ config' = c
  /\ UNCHANGED <<userVars, groupVars, loadVars, rbacVars, nodeVars, churn>>

PutNamespace(n, phase) ==
  /\ namespaces' = [namespaces EXCEPT ![n] = phase]
  /\ UNCHANGED <<userVars, config, pods, loadVars, rbacVars, nodeVars, churn>>

PutDaemonSets(ds) ==
  /\ daemonSets' = ds
  /\ UNCHANGED <<userVars, config, groupVars, agents, job, rbacVars, nodeVars, churn>>

PutAccounts(sa) ==
  /\ accounts' = sa
  /\ UNCHANGED <<userVars, config, groupVars, loadVars, bindings, nodeVars, churn>>

PutBindings(b) ==
  /\ bindings' = b
  /\ UNCHANGED <<userVars, config, groupVars, loadVars, accounts, nodeVars, churn>>

PutJob(j) ==
  /\ job' = j
  /\ UNCHANGED <<userVars, config, groupVars, daemonSets, agents, rbacVars, nodeVars, churn>>

PutFinalizer(f, phase) ==
  /\ finalizer' = f
  /\ cr' = phase
  /\ UNCHANGED <<spec, config, groupVars, loadVars, rbacVars, nodeVars, churn>>

(* A namespaced object can be created in an active namespace only.         *)
Accepts(n) == namespaces[n] = "Active"

(* Privileged pods run in a namespace with a service account that a binding*)
(* allows to use the pod security policy.                                  *)
Admitted(n) ==
  /\ Accepts(n)
  /\ n \in accounts
  /\ \E b \in bindings : Subject[b] = n /\ RoleOf[b] = "flannel-operator-psp"

(* The view of the daemon set that one API group gives.                    *)
HasDaemonSet(group) == group \in daemonSets \/ (SharedDaemonSets /\ daemonSets # {})

WithoutDaemonSet(group) == IF SharedDaemonSets THEN {} ELSE daemonSets \ {group}

----------------------------------------------------------------------------
(* The user and the operator that owns the guest cluster.                  *)

Disturb == churn < MaxChurn /\ churn' = churn + 1

(* kubectl delete: the object stays as long as it carries a finalizer.     *)
UserDeletes ==
  /\ cr = "live"
  /\ cr' = IF finalizer THEN "deleting" ELSE "gone"
  /\ UNCHANGED <<finalizer, spec, config, groupVars, loadVars, rbacVars, nodeVars, churn>>

UserChangesSpec ==
  /\ cr = "live"
  /\ Disturb
  /\ spec' \in Configs \ {spec}
  /\ UNCHANGED <<cr, finalizer, config, groupVars, loadVars, rbacVars, nodeVars>>

(* Pods of the guest cluster come up while it lives; while it is drained a *)
(* pod may still come back, which is a disturbance.                        *)
PodsAppear ==
  /\ ~pods
  /\ namespaces["cluster"] = "Active"
  /\ IF cr = "live" THEN UNCHANGED churn ELSE Disturb
  /\ pods' = TRUE
  /\ UNCHANGED <<userVars, config, namespaces, loadVars, rbacVars, nodeVars>>

PodsDrained ==
  /\ cr # "live"
  /\ pods
  /\ pods' = FALSE
  /\ UNCHANGED <<userVars, config, namespaces, loadVars, rbacVars, nodeVars, churn>>

ClusterNamespaceDeleted ==
  /\ cr # "live"
  /\ namespaces["cluster"] = "Active"
  /\ PutNamespace("cluster", "Terminating")

(* Somebody removes the network namespace by hand.                         *)
NetworkNamespaceRemoved ==
  /\ namespaces["network"] = "Active"
  /\ Disturb
  /\ namespaces' = [namespaces EXCEPT !["network"] = "Terminating"]
  /\ UNCHANGED <<userVars, config, pods, loadVars, rbacVars, nodeVars>>

CordonChanges ==
  /\ Disturb
  /\ \E n \in Nodes : schedulable' = (schedulable \ {n}) \cup ({n} \ schedulable)
  /\ UNCHANGED <<userVars, config, groupVars, loadVars, rbacVars, envFiles, bridges>>

(* Somebody spoils the stored config.                                      *)
ConfigSpoiled ==
  /\ config \in Configs
  /\ Disturb
  /\ config' = Unreadable
  /\ UNCHANGED <<userVars, groupVars, loadVars, rbacVars, nodeVars>>

----------------------------------------------------------------------------
(* The namespace controller: a terminating namespace loses its objects one *)
(* by one, and is removed once it is empty.                                *)

CollectAccount ==
  \E n \in {"network", "destroyer"} :
    /\ namespaces[n] = "Terminating"
    /\ n \in accounts
    /\ PutAccounts(accounts \ {n})

CollectDaemonSets ==
  /\ namespaces["network"] = "Terminating"
  /\ daemonSets # {}
  /\ PutDaemonSets({})

CollectJob ==
  /\ namespaces["destroyer"] = "Terminating"
  /\ job.created
  /\ PutJob(NoJob)

IsEmpty(n) ==
  /\ n \notin accounts
  /\ n = "network"   => daemonSets = {} /\ agents = {}
  /\ n = "destroyer" => ~job.created
  /\ n = "cluster"   => ~pods

RemoveNamespace(n) ==
  /\ namespaces[n] = "Terminating"
  /\ IsEmpty(n)
  /\ PutNamespace(n, "Absent")

----------------------------------------------------------------------------
(* The pods of the daemon set: they run with the service account and need  *)
(* its pod security policy; cordoned nodes run them too.                   *)
AgentStarts(n) ==
  /\ daemonSets # {}
  /\ Admitted("network")
  /\ n \notin agents
  /\ agents' = agents \cup {n}
  /\ UNCHANGED <<userVars, config, groupVars, daemonSets, job, rbacVars, nodeVars, churn>>

(* flanneld reads the network config from etcd and writes what it got to   *)
(* an environment file, on a path of the node that outlives the pod.       *)
AgentWritesEnvFile(n) ==
  /\ n \in agents \ envFiles
  /\ config \in Configs
  /\ envFiles' = envFiles \cup {n}
  /\ UNCHANGED <<userVars, config, groupVars, loadVars, rbacVars, bridges, schedulable, churn>>

(* The pod's other container waits for that file, whoever wrote it, and    *)
(* builds the bridge.                                                      *)
AgentBuildsBridge(n) ==
  /\ n \in (agents \cap envFiles) \ bridges
  /\ bridges' = bridges \cup {n}
  /\ UNCHANGED <<userVars, config, groupVars, loadVars, rbacVars, envFiles, schedulable, churn>>

AgentStops(n) ==
  /\ daemonSets = {}
  /\ n \in agents
  /\ agents' = agents \ {n}
  /\ UNCHANGED <<userVars, config, groupVars, daemonSets, job, rbacVars, nodeVars, churn>>

(* The pods of the cleanup job: the job controller creates them while they *)
(* are admitted, the scheduler avoids cordoned nodes and nodes on which    *)
(* another pod of the job still runs (a finished pod repels no other).     *)
JobPodStarts(n) ==
  /\ job.created
  /\ Admitted("destroyer")
  /\ n \in schedulable \ job.running
  /\ job.succeeded + Cardinality(job.running) < job.completions
  /\ PutJob([job EXCEPT !.running = @ \cup {n}])

(* A pod removes the bridge of its node; the job names the environment     *)
(* file to it as well, which may stay or go.                               *)
JobPodSucceeds(n) ==
  /\ n \in job.running
  /\ job' = [created |-> job.created, completions |-> job.completions,
             running |-> job.running \ {n}, succeeded |-> job.succeeded + 1]
  /\ bridges' = bridges \ {n}
  /\ envFiles' \in {envFiles, envFiles \ {n}}
  /\ UNCHANGED <<userVars, config, groupVars, daemonSets, agents, rbacVars, schedulable, churn>>

----------------------------------------------------------------------------
Controllers ==
  \/ CollectAccount \/ CollectDaemonSets \/ CollectJob
  \/ \E n \in Namespaces : RemoveNamespace(n)
  \/ \E n \in Nodes : AgentStarts(n) \/ AgentWritesEnvFile(n) \/ AgentBuildsBridge(n) \/ AgentStops(n)
  \/ \E n \in Nodes : JobPodStarts(n) \/ JobPodSucceeds(n)

Users ==
  \/ UserDeletes \/ UserChangesSpec \/ PodsAppear \/ PodsDrained
  \/ ClusterNamespaceDeleted \/ NetworkNamespaceRemoved \/ CordonChanges \/ ConfigSpoiled

HostNext == Controllers \/ Users
=============================================================================
