--------------------------- MODULE FlannelOperator ---------------------------
(***************************************************************************)
(* The operator as a whole: one worker that reconciles one FlannelConfig   *)
(* again and again through its resources, in the host cluster that goes on *)
(* around it.                                                              *)
(***************************************************************************)
EXTENDS NetworkConfigResource, NamespaceResource, LegacyResource, FlanneldResource

vars == <<hostVars, workerVars>>

(* The user has just created the FlannelConfig, on nodes where an earlier  *)
(* network of that id may have left its environment file, or an older      *)
(* version of the operator, which used extensions/v1beta1, has set up its  *)
(* network.                                                                *)
Created ==
  /\ finalizer = FALSE /\ config = NoConfig
  /\ namespaces = [network |-> "Absent", cluster |-> "Active", destroyer |-> "Absent"]
  /\ daemonSets = {} /\ agents = {} /\ accounts = {} /\ bindings = {}
  /\ envFiles \in SUBSET Nodes /\ bridges = {}

Upgraded ==
  /\ finalizer = TRUE /\ config = spec
  /\ namespaces = [network |-> "Active", cluster |-> "Active", destroyer |-> "Absent"]
  /\ daemonSets = {"extensions"} /\ agents = Nodes /\ accounts = {"network"}
  /\ bindings = {"network", "networkPsp"} /\ envFiles = Nodes /\ bridges = Nodes

(* The network of either, as far as the operator could change it.          *)
AsFound ==
  /\ namespaces["destroyer"] = "Absent" /\ ~job.created
  /\ IF finalizer
     THEN config # NoConfig /\ namespaces["network"] = "Active" /\ daemonSets = {"extensions"}
     ELSE config = NoConfig /\ namespaces["network"] = "Absent" /\ bindings = {}

Init ==
  /\ cr = "live" /\ spec \in Configs /\ pods = FALSE
  /\ Created \/ Upgraded
  /\ job = NoJob /\ schedulable = Nodes /\ churn = 0
  /\ pass = "none" /\ step = "Idle"
  /\ object = NoConfig /\ stored = NoConfig /\ found = FALSE /\ replicas = 0
  /\ kept = FALSE /\ attempts = 0 /\ faults = 0

----------------------------------------------------------------------------
(* operatorkit: a FlannelConfig without finalizer gets one first.          *)
AddFinalizer ==
  /\ pass = "none"
  /\ cr = "live" /\ ~finalizer
  /\ PutFinalizer(TRUE, cr)
  /\ UNCHANGED workerVars

(* A pass works with the FlannelConfig as it is when the pass starts.      *)
StartPass ==
  /\ pass = "none"
  /\ cr # "gone" /\ finalizer
  /\ pass' = IF cr = "live" THEN "create" ELSE "delete"
  /\ step' = ConfigEntry
  /\ object' = spec
  /\ UNCHANGED <<stored, found, replicas, kept, attempts, faults, hostVars>>

(* A delete pass that neither failed nor kept the finalizer removes it,    *)
(* and with it the FlannelConfig; a canceled reconciliation is no failure. *)
FinishPass ==
  /\ At("Finish") \/ At("Canceled")
  /\ IF pass = "delete" /\ ~kept THEN PutFinalizer(FALSE, "gone") ELSE UNCHANGED hostVars
  /\ EndPass
  /\ UNCHANGED faults

OperatorNext ==
  \/ AddFinalizer \/ StartPass \/ FinishPass
  \/ NetworkConfigNext \/ NamespaceNext \/ LegacyNext \/ FlanneldNext

HostStep == HostNext /\ UNCHANGED workerVars

(* Nobody watches a FlannelConfig that is gone.                            *)
Rest == cr = "gone" /\ pass = "none" /\ UNCHANGED vars

Next == OperatorNext \/ CallFails \/ Crash \/ HostStep \/ Rest

(* The worker goroutine goes on; so do the controllers of Kubernetes, the  *)
(* agents and the pods of the job.  Once the FlannelConfig is deleted, the *)
(* guest cluster is drained and its owner deletes its namespace.           *)
Collects    == CollectAccount \/ CollectDaemonSets \/ CollectJob
AgentMoves  ==
  \E n \in Nodes :
    AgentStarts(n) \/ AgentWritesEnvFile(n) \/ AgentBuildsBridge(n) \/ AgentStops(n)
JobPodMoves == \E n \in Nodes : JobPodStarts(n) \/ JobPodSucceeds(n)

Fairness ==
  /\ WF_vars(OperatorNext)
  /\ WF_vars(Collects /\ UNCHANGED workerVars)
  /\ \A n \in Namespaces : WF_vars(RemoveNamespace(n) /\ UNCHANGED workerVars)
  /\ WF_vars(AgentMoves /\ UNCHANGED workerVars)
  /\ WF_vars(JobPodMoves /\ UNCHANGED workerVars)
  /\ WF_vars(PodsDrained /\ UNCHANGED workerVars)
  /\ WF_vars(ClusterNamespaceDeleted /\ UNCHANGED workerVars)

Spec     == Init /\ [][Next]_vars
FairSpec == Spec /\ Fairness

----------------------------------------------------------------------------
(* Types: every variable of the host and of the worker stays in its set.   *)
TypeOK == HostTypeOK /\ WorkerTypeOK

(* The cleanup job removes bridges from the nodes only once nothing is     *)
(* left that could build them again: legacy waits for the network          *)
(* namespace to be gone before it creates the job.                         *)
CleanupAloneOnNodes ==
  job.created => namespaces["network"] = "Absent" /\ daemonSets = {} /\ agents = {}

(* A job whose namespace is in use has the service account and the         *)
(* bindings its privileged pods need, also when a pass was cut off between *)
(* creating them and a later one found some of them there.                 *)
CleanupJobHasItsRights ==
  job.created /\ namespaces["destroyer"] = "Active"
    => "destroyer" \in accounts /\ {"deletion", "deletionPsp"} \subseteq bindings

(* In a network that is in use the daemon set never lacks its rights, and  *)
(* while one of its pods runs, on creation or on deletion, the bindings of *)
(* its service account are there.                                          *)
RightsBeforeUse ==
  /\ cr = "live" /\ namespaces["network"] = "Active" /\ daemonSets # {}
       => "network" \in accounts
  /\ daemonSets # {} \/ agents # {} => {"network", "networkPsp"} \subseteq bindings

(* A delete pass that went through all resources and kept no finalizer has *)
(* nothing left to do: whatever was there, also of a create pass that was  *)
(* still running when the FlannelConfig was deleted, is gone or going.     *)
Clean ==
  /\ config = NoConfig
  /\ namespaces["network"] = "Absent"
  /\ namespaces["destroyer"] # "Active"
  /\ bindings = {}

FinishedIsClean == pass = "delete" /\ step = "Finish" /\ ~kept => Clean

(* "In case a cluster deletion happens, we want to delete the guest        *)
(* cluster network" (legacy/resource.go): whichever pass releases the      *)
(* FlannelConfig, also one that a terminating namespace has cut short, the *)
(* network namespace is gone or going, and nobody creates it again.        *)
DeletedNetworkIsDown == cr = "gone" => namespaces["network"] # "Active"

(* Whatever else such a pass has left unfinished stands still: no daemon   *)
(* set can be created any more, agents that have not stopped yet find no   *)
(* network config in etcd (all they may still do is build a bridge on a    *)
(* node that has its environment file), and no cleanup job is in an active *)
(* namespace, to be stopped at its work.                                   *)
ReleasedIsQuiet ==
  cr = "gone" =>
    /\ config = NoConfig
    /\ DeletedNetworkIsDown
    /\ namespaces["destroyer"] # "Active"

(* As long as the guest cluster is drained its network stays: only without *)
(* pods does the deletion take the namespace or a daemon set away.         *)
TakesDown ==
  \/ namespaces["network"] = "Active" /\ namespaces'["network"] # "Active"
  \/ namespaces["network"] = "Active" /\ daemonSets # {} /\ daemonSets' = {}

DrainBeforeTeardown == [][cr # "live" /\ TakesDown => ~pods]_vars

(* The namespace controller finds no pod of the cleanup job at work when   *)
(* it empties the destroyer namespace: legacy deletes that namespace only  *)
(* after as many pods have succeeded as the job has.                       *)
NoPodInterrupted == [][job.created /\ ~job'.created => job.running = {}]_vars

(* A deleted FlannelConfig is released some day, whatever call failed.     *)
DeletionCompletes == cr = "deleting" ~> cr = "gone"

(* A FlannelConfig that stays gets its network, with the config it asks    *)
(* for, and keeps it.                                                      *)
Converged ==
  /\ config = spec
  /\ namespaces["network"] = "Active"
  /\ daemonSets # {}
  /\ agents = Nodes /\ bridges = Nodes

Converges == <>[](cr = "live") => <>[]Converged

----------------------------------------------------------------------------
(* How far the network of the FlannelConfig is.  It is down for good when  *)
(* its namespace is gone and no pass can create the namespace again: the   *)
(* FlannelConfig is deleted and no create pass is still on its way.        *)
Stage ==
  IF job.created THEN "cleaning"
  ELSE IF namespaces["network"] = "Absent" /\ cr # "live" /\ pass # "create" THEN "closed"
  ELSE "open"

Lifecycle == INSTANCE NetworkLifecycle WITH stage <- Stage, cleaners <- job.running

(* The operator, its failures and crashes, and everybody who interferes    *)
(* implement the life cycle that was promised: agents and cleanup job      *)
(* never at work together, nothing brought up again after the teardown.    *)
ImplementsLifecycle == Lifecycle!Spec

(* In particular, once the network namespace of a deleted FlannelConfig is *)
(* gone, no late call of a pass brings back the network or a bridge.       *)
NoBridgeReturns == Lifecycle!NoBridgeReturns

----------------------------------------------------------------------------
(* What comments of the code say, and the code does not do.                *)

(* legacy/resource.go, of the deletion: "as long as pods are there we      *)
(* delay the deletion of the network".                                     *)
NetworkKeptForPods ==
  [][pass = "delete" /\ pods /\ config # NoConfig => config' # NoConfig]_vars

(* namespace/current.go: "In case the namespace is already terminating we  *)
(* do not need to do any further work."                                    *)
ReleasedIsClean == [][cr = "deleting" /\ cr' = "gone" => Clean]_vars

(* legacy/resource.go: "Wait for the cleanup job to complete." The wait    *)
(* does not end before the job is complete ...                             *)
WaitsForJob == step = "DeleteDestroyer" /\ job.created => job.succeeded = job.completions

(* ... and it ends once the job is complete, so that the job is removed.   *)
CompletedJobEndsWait == job.created /\ job.succeeded = job.completions ~> ~job.created

(* legacy/resource.go: "Schedule flannel resources cleanup on every node   *)
(* using anti affinity with hostname topology."                            *)
EveryNodeCleaned == step = "DeleteDestroyer" /\ job.created => bridges \cap schedulable = {}
=============================================================================
