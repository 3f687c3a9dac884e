------------------------ MODULE FlannelOperatorProofs ------------------------
(***************************************************************************)
(* Proofs, for every set of nodes and configs and every bound, of the      *)
(* invariants of FlannelOperator.                                          *)
(***************************************************************************)
EXTENDS FlannelOperator, FiniteSetTheorems, TLAPS

----------------------------------------------------------------------------
(* The inductive invariant, in parts.                                      *)

CreateSteps ==
  {"GetConfig", "CreateConfig", "ClearConfig", "WriteConfig",
   "GetNamespace", "CreateNamespace"} \cup GrantSteps \cup
  {"GetLegacyDaemonSet", "GetDaemonSet", "CreateDaemonSet", "Finish", "Canceled"}

DeleteSteps ==
  {"GetConfig", "DeleteConfig", "GetNamespace", "ListNamespacePods", "DeleteNamespace"}
  \cup TearDownSteps \cup SetupSteps \cup CleanUpSteps \cup
  {"GetLegacyDaemonSet", "ListAgentPods", "GetDaemonSet", "DeleteDaemonSet",
   "Finish", "Canceled"}

UnbindSteps == {"UnbindDeletion", "UnbindNetwork", "UnbindNetworkPsp", "UnbindDeletionPsp"}

(* A pass runs only while the finalizer holds the FlannelConfig, and a     *)
(* delete pass only once it is deleted; each kind of pass has its steps.   *)
PassInv ==
  /\ (pass = "none") <=> (step = "Idle")
  /\ pass = "create" => finalizer /\ cr # "gone" /\ step \in CreateSteps
  /\ pass = "delete" => finalizer /\ cr = "deleting" /\ step \in DeleteSteps

(* A namespace that is gone holds nothing, a job that is gone has no pods. *)
ContentInv ==
  /\ namespaces["network"] = "Absent" => daemonSets = {} /\ agents = {}
  /\ namespaces["destroyer"] = "Absent" => ~job.created
  /\ ~job.created => job.running = {}

(* The cleanup starts when the network namespace is gone, and from then on *)
(* no pass creates it again.                                               *)
TornDownInv ==
  /\ step \in SetupSteps \cup CleanUpSteps => namespaces["network"] = "Absent"
  /\ namespaces["destroyer"] # "Absent"
       => namespaces["network"] = "Absent" /\ cr # "live" /\ pass # "create"

(* The rights of the cleanup job come before the job and go after it.      *)
DestroyerInv ==
  /\ CleanupJobHasItsRights
  /\ namespaces["destroyer"] = "Active" =>
       /\ step \in {"BindDeletionPsp", "CreateDestroyerAccount", "CountNodes", "CreateJob"}
            => "deletion" \in bindings
       /\ step \in {"CreateDestroyerAccount", "CountNodes", "CreateJob"}
            => "deletionPsp" \in bindings
       /\ step \in {"CountNodes", "CreateJob"} => "destroyer" \in accounts
  /\ step \in UnbindSteps => namespaces["destroyer"] # "Active"

(* The rights of the daemon set come before it and go after its pods.      *)
NetworkRightsInv ==
  /\ RightsBeforeUse
  /\ step = "BindNetworkPsp" => "network" \in bindings
  /\ pass = "create" /\ step \in FlanneldSteps => {"network", "networkPsp"} \subseteq bindings
  /\ pass = "create" /\ step \in {"BindNetwork", "BindNetworkPsp"} \cup FlanneldSteps
       => (namespaces["network"] = "Active" => "network" \in accounts)

(* What a delete pass has achieved when it reaches a step: the config is   *)
(* gone after the first resource, the bindings go one by one, and behind   *)
(* the legacy resource everything is gone unless a resource kept the       *)
(* finalizer.                                                              *)
ProgressInv ==
  /\ pass = "delete" /\ step \notin ConfigSteps \cup {"Canceled"} => config = NoConfig
  /\ step \in UnbindSteps \ {"UnbindDeletion"} => "deletion" \notin bindings
  /\ step \in {"UnbindNetworkPsp", "UnbindDeletionPsp"} => "network" \notin bindings
  /\ step = "UnbindDeletionPsp" => "networkPsp" \notin bindings
  /\ pass = "delete" /\ ~kept /\ step \in FlanneldSteps \cup {"Finish"} => Clean

OrderInv ==
  PassInv /\ ContentInv /\ TornDownInv /\ DestroyerInv /\ NetworkRightsInv /\ ProgressInv

IInv == TypeOK /\ OrderInv

(* What a deletion relies on: while the guest cluster is drained no pod    *)
(* comes back, and nobody removes the network namespace by hand.           *)
NoReturn == cr # "live" => ~PodsAppear /\ ~NetworkNamespaceRemoved

----------------------------------------------------------------------------
(* Types.  The ways control moves on, and the writes of the host, keep     *)
(* every variable in its set.                                              *)

(* Going on within a resource changes nothing but the step.                *)
LEMMA GotoType == ASSUME WorkerTypeOK, NEW s \in Steps, Goto(s) PROVE WorkerTypeOK'
BY DEF WorkerTypeOK, Goto, dataVars

(* The resource that comes next starts with one of the steps.              *)
LEMMA AfterResourceType == ASSUME AfterResource PROVE step' \in Steps
BY DEF AfterResource, NamespaceEntry, LegacyEntry, FlanneldEntry, Steps, CallSteps,
       NamespaceSteps, LegacySteps, GrantSteps, TearDownSteps, FlanneldSteps

(* Going on with the next resource keeps the worker in its types.          *)
LEMMA NextResourceType == ASSUME WorkerTypeOK, NextResource PROVE WorkerTypeOK'
BY AfterResourceType, ReconcileAssumption DEF WorkerTypeOK, NextResource, dataVars

(* So does canceling a resource with the finalizer kept.                   *)
LEMMA KeepType == ASSUME WorkerTypeOK, KeepAndCancelResource PROVE WorkerTypeOK'
BY AfterResourceType, ReconcileAssumption DEF WorkerTypeOK, KeepAndCancelResource, dataVars

(* So does canceling the reconciliation.                                   *)
LEMMA CancelType == ASSUME WorkerTypeOK, CancelReconciliation PROVE WorkerTypeOK'
BY DEF WorkerTypeOK, CancelReconciliation, dataVars, Steps

(* The end of a pass resets the worker to values of its types, provided    *)
(* the count of faults has been kept within its bound.                     *)
LEMMA EndPassType ==
  ASSUME EndPass, faults' \in 0 .. MaxFaults
  PROVE  WorkerTypeOK'
<1>1. pass' \in {"none", "create", "delete"} /\ step' \in Steps
  BY DEF EndPass, Steps
<1>2. object' \in Configs \cup {NoConfig} /\ stored' \in Configs \cup {NoConfig}
  BY DEF EndPass
<1>3. found' \in BOOLEAN /\ kept' \in BOOLEAN
  BY DEF EndPass
<1>4. replicas' \in Nat /\ attempts' \in 0 .. MaxRetries
  BY ReconcileAssumption DEF EndPass
<1>5. QED
  BY <1>1, <1>2, <1>3, <1>4 DEF WorkerTypeOK

(* A retry resumes at one of the steps.                                    *)
LEMMA RetryPointType == ASSUME WorkerTypeOK, RetryPoint PROVE step' \in Steps
BY DEF WorkerTypeOK, RetryPoint, ConfigEntry, NamespaceEntry, LegacyEntry, FlanneldEntry,
       Steps, CallSteps, ConfigSteps, NamespaceSteps, LegacySteps, GrantSteps,
       TearDownSteps, FlanneldSteps

(* A failure, retried or not, keeps the worker in its types: the retries   *)
(* are counted only up to MaxRetries.                                      *)
LEMMA RetryType ==
  ASSUME WorkerTypeOK, Retry \/ GiveUp, faults' \in 0 .. MaxFaults
  PROVE  WorkerTypeOK'
<1>1. CASE Retry
  BY <1>1, RetryPointType, ReconcileAssumption DEF WorkerTypeOK, Retry, dataVars
<1>2. CASE GiveUp
  BY <1>2, EndPassType DEF GiveUp
<1>3. QED
  BY <1>1, <1>2

(* A worker that does nothing keeps its types.                             *)
LEMMA UnchangedWorkerType == ASSUME WorkerTypeOK, UNCHANGED workerVars PROVE WorkerTypeOK'
BY DEF WorkerTypeOK, workerVars, passVars, dataVars

(* A host cluster in which nothing happens keeps its types.                *)
LEMMA UnchangedHostType == ASSUME HostTypeOK, UNCHANGED hostVars PROVE HostTypeOK'
BY DEF HostTypeOK, hostVars, userVars, groupVars, loadVars, rbacVars, nodeVars

(* The error of a resource keeps all types.                                *)
LEMMA FailType == ASSUME TypeOK, Fail PROVE TypeOK'
BY RetryType, UnchangedHostType DEF TypeOK, Fail, WorkerTypeOK

(* A write of etcd stores a config or none.                                *)
LEMMA PutConfigType ==
  ASSUME HostTypeOK, NEW c \in Configs \cup {NoConfig, Unreadable}, PutConfig(c)
  PROVE  HostTypeOK'
BY DEF HostTypeOK, PutConfig, userVars, groupVars, loadVars, rbacVars, nodeVars

(* A write of a namespace leaves it in one of the phases.                  *)
LEMMA PutNamespaceType ==
  ASSUME HostTypeOK, NEW n \in Namespaces, NEW phase \in Phases, PutNamespace(n, phase)
  PROVE  HostTypeOK'
BY DEF HostTypeOK, PutNamespace, userVars, loadVars, rbacVars, nodeVars

(* A write of daemon sets leaves one of each API group at most.            *)
LEMMA PutDaemonSetsType ==
  ASSUME HostTypeOK, NEW ds \in SUBSET Groups, PutDaemonSets(ds)
  PROVE  HostTypeOK'
BY DEF HostTypeOK, PutDaemonSets, userVars, groupVars, rbacVars, nodeVars

(* A write of a service account puts it in one of the two namespaces.      *)
LEMMA PutAccountsType ==
  ASSUME HostTypeOK, NEW sa \in SUBSET {"network", "destroyer"}, PutAccounts(sa)
  PROVE  HostTypeOK'
BY DEF HostTypeOK, PutAccounts, userVars, groupVars, loadVars, nodeVars

(* A write of a cluster role binding writes one of the four there are.     *)
LEMMA PutBindingsType ==
  ASSUME HostTypeOK, NEW b \in SUBSET Bindings, PutBindings(b)
  PROVE  HostTypeOK'
BY DEF HostTypeOK, PutBindings, userVars, groupVars, loadVars, nodeVars

(* A write of the job leaves a job.                                        *)
LEMMA PutJobType ==
  ASSUME HostTypeOK, NEW j \in Jobs, PutJob(j)
  PROVE  HostTypeOK'
BY DEF HostTypeOK, PutJob, userVars, groupVars, rbacVars, nodeVars

(* A write of the FlannelConfig leaves it in one of its phases.            *)
LEMMA PutFinalizerType ==
  ASSUME HostTypeOK, NEW f \in BOOLEAN, NEW phase \in {"live", "deleting", "gone"},
         PutFinalizer(f, phase)
  PROVE  HostTypeOK'
BY DEF HostTypeOK, PutFinalizer, groupVars, loadVars, rbacVars, nodeVars

(* The steps of the host, whoever takes them.                              *)
LEMMA HostNextType == ASSUME HostTypeOK, HostNext PROVE HostTypeOK'
<1> USE DEF HostTypeOK, userVars, groupVars, loadVars, rbacVars, nodeVars
<1>1. CASE CollectAccount
  BY <1>1, PutAccountsType DEF CollectAccount
<1>2. CASE CollectDaemonSets
  BY <1>2, PutDaemonSetsType DEF CollectDaemonSets
<1>3. CASE CollectJob
  BY <1>3, PutJobType DEF CollectJob, NoJob, Jobs
<1>4. ASSUME NEW n \in Namespaces, RemoveNamespace(n) PROVE HostTypeOK'
  BY <1>4, PutNamespaceType DEF RemoveNamespace, Phases
<1>5. ASSUME NEW n \in Nodes, AgentStarts(n) PROVE HostTypeOK'
  BY <1>5 DEF AgentStarts
<1>6. ASSUME NEW n \in Nodes, AgentWritesEnvFile(n) \/ AgentBuildsBridge(n) PROVE HostTypeOK'
  BY <1>6 DEF AgentWritesEnvFile, AgentBuildsBridge
<1>7. ASSUME NEW n \in Nodes, AgentStops(n) PROVE HostTypeOK'
  BY <1>7 DEF AgentStops
<1>8. ASSUME NEW n \in Nodes, JobPodStarts(n) PROVE HostTypeOK'
  BY <1>8, PutJobType DEF JobPodStarts, Jobs
<1>9. ASSUME NEW n \in Nodes, JobPodSucceeds(n) PROVE HostTypeOK'
  BY <1>9 DEF JobPodSucceeds, Jobs
<1>10. CASE UserDeletes
  BY <1>10 DEF UserDeletes
<1>11. CASE UserChangesSpec
  BY <1>11, HostAssumption DEF UserChangesSpec, Disturb
<1>12. CASE PodsAppear
  BY <1>12, HostAssumption DEF PodsAppear, Disturb
<1>13. CASE PodsDrained
  BY <1>13 DEF PodsDrained
<1>14. CASE ClusterNamespaceDeleted
  BY <1>14, PutNamespaceType DEF ClusterNamespaceDeleted, Namespaces, Phases
<1>15. CASE NetworkNamespaceRemoved
  <2>1. namespaces' \in [Namespaces -> Phases]
    BY <1>15 DEF NetworkNamespaceRemoved, Phases
  <2>2. churn' \in 0 .. MaxChurn
    BY <1>15, HostAssumption DEF NetworkNamespaceRemoved, Disturb
  <2>3. QED
    BY <1>15, <2>1, <2>2 DEF NetworkNamespaceRemoved
<1>16. CASE CordonChanges
  BY <1>16, HostAssumption DEF CordonChanges, Disturb
<1>17. CASE ConfigSpoiled
  BY <1>17, HostAssumption DEF ConfigSpoiled, Disturb
<1>18. QED
  BY <1>1, <1>2, <1>3, <1>4, <1>5, <1>6, <1>7, <1>8, <1>9, <1>10, <1>11, <1>12, <1>13,
     <1>14, <1>15, <1>16, <1>17
  DEF HostNext, Controllers, Users

(* What they may do to a network: an agent or a pod of the cleanup job     *)
(* starts or is through, or the job is collected ...                       *)
HostWorksOnBridges ==
  /\ UNCHANGED <<cr, namespaces>>
  /\ \/ /\ namespaces["network"] = "Active"
        /\ \E n \in Nodes : agents' = agents \cup {n}
        /\ UNCHANGED <<job, bridges>>
     \/ (\E n \in Nodes : agents' = agents \ {n}) /\ UNCHANGED <<job, bridges>>
     \/ (\E n \in Nodes \cap agents : bridges' = bridges \cup {n}) /\ UNCHANGED <<agents, job>>
     \/ /\ job.created /\ job'.created
        /\ \E n \in Nodes : job'.running = job.running \cup {n}
        /\ UNCHANGED <<agents, bridges>>
     \/ /\ UNCHANGED agents /\ job'.created = job.created
        /\ \E n \in Nodes \cap job.running :
             bridges' = bridges \ {n} /\ job'.running = job.running \ {n}
     \/ job.created /\ job' = NoJob /\ UNCHANGED <<agents, bridges>>

(* ... or none of these; and nobody revives the FlannelConfig or the       *)
(* network.                                                                *)
LEMMA HostEffect ==
  ASSUME HostTypeOK, HostNext
  PROVE  /\ cr # "live" => cr' # "live"
         /\ namespaces["network"] = "Absent" => namespaces'["network"] = "Absent"
         /\ HostWorksOnBridges \/ UNCHANGED <<agents, job, bridges>>
<1>0. namespaces \in [Namespaces -> Phases] /\ job \in Jobs
  BY DEF HostTypeOK
<1> DEFINE Goal == /\ cr # "live" => cr' # "live"
                   /\ namespaces["network"] = "Absent" => namespaces'["network"] = "Absent"
                   /\ HostWorksOnBridges \/ UNCHANGED <<agents, job, bridges>>
<1> USE <1>0 DEF Namespaces, userVars, groupVars, loadVars, nodeVars
<1>1. CASE CollectAccount \/ CollectDaemonSets
  BY <1>1 DEF CollectAccount, PutAccounts, CollectDaemonSets, PutDaemonSets
<1>2. CASE CollectJob
  BY <1>2 DEF CollectJob, PutJob, HostWorksOnBridges
<1>3. ASSUME NEW n \in Namespaces, RemoveNamespace(n) PROVE Goal
  BY <1>3 DEF RemoveNamespace, PutNamespace
<1>4. ASSUME NEW n \in Nodes, AgentStarts(n) PROVE Goal
  BY <1>4 DEF AgentStarts, Admitted, Accepts, HostWorksOnBridges
<1>5. ASSUME NEW n \in Nodes, AgentWritesEnvFile(n) \/ AgentBuildsBridge(n) PROVE Goal
  BY <1>5 DEF AgentWritesEnvFile, AgentBuildsBridge, HostWorksOnBridges
<1>6. ASSUME NEW n \in Nodes, AgentStops(n) PROVE Goal
  BY <1>6 DEF AgentStops, HostWorksOnBridges
<1>7. ASSUME NEW n \in Nodes, JobPodStarts(n) PROVE Goal
  <2>1. job' = [job EXCEPT !.running = @ \cup {n}] /\ job.created
        /\ UNCHANGED <<cr, namespaces, agents, bridges>>
    BY <1>7 DEF JobPodStarts, PutJob
  <2>2. job'.created /\ job'.running = job.running \cup {n}
    BY <2>1 DEF Jobs
  <2>3. QED
    BY <2>1, <2>2 DEF HostWorksOnBridges
<1>8. ASSUME NEW n \in Nodes, JobPodSucceeds(n) PROVE Goal
  <2>1. job'.created = job.created /\ job'.running = job.running \ {n}
    BY <1>8 DEF JobPodSucceeds
  <2>2. QED
    BY <1>8, <2>1 DEF JobPodSucceeds, HostWorksOnBridges
<1>9. CASE UserDeletes \/ UserChangesSpec \/ PodsAppear \/ PodsDrained \/ CordonChanges \/ ConfigSpoiled
  BY <1>9 DEF UserDeletes, UserChangesSpec, PodsAppear, PodsDrained, CordonChanges, ConfigSpoiled
<1>10. CASE ClusterNamespaceDeleted \/ NetworkNamespaceRemoved
  BY <1>10 DEF ClusterNamespaceDeleted, NetworkNamespaceRemoved, PutNamespace
<1>11. QED
  BY <1>1, <1>2, <1>3, <1>4, <1>5, <1>6, <1>7, <1>8, <1>9, <1>10
  DEF HostNext, Controllers, Users

(* Nobody but the operator stores a config, or creates the namespace of    *)
(* the cleanup job.                                                        *)
LEMMA HostBringsNothing ==
  ASSUME HostTypeOK, HostNext
  PROVE  /\ UNCHANGED finalizer /\ (config = NoConfig => config' = NoConfig)
         /\ cr' = cr \/ (cr = "live" /\ cr' = IF finalizer THEN "deleting" ELSE "gone")
         /\ namespaces'["destroyer"] = "Active" => namespaces["destroyer"] = "Active"
         /\ namespaces["destroyer"] = "Absent" => namespaces'["destroyer"] = "Absent"
<1>0. namespaces \in [Namespaces -> Phases]
  BY DEF HostTypeOK
<1> USE <1>0, HostAssumption DEF userVars, groupVars, Namespaces, PutNamespace
<1>1. CASE CollectAccount \/ CollectDaemonSets \/ CollectJob
  BY <1>1 DEF CollectAccount, PutAccounts, CollectDaemonSets, PutDaemonSets, CollectJob, PutJob
<1>2. ASSUME NEW n \in Namespaces, RemoveNamespace(n)
      PROVE  /\ UNCHANGED <<cr, finalizer, config>>
             /\ namespaces'["destroyer"] = "Active" => namespaces["destroyer"] = "Active"
             /\ namespaces["destroyer"] = "Absent" => namespaces'["destroyer"] = "Absent"
  BY <1>2 DEF RemoveNamespace
<1>3. ASSUME NEW n \in Nodes, AgentStarts(n) \/ AgentWritesEnvFile(n) \/ AgentBuildsBridge(n) \/ AgentStops(n)
      PROVE  UNCHANGED <<cr, finalizer, config, namespaces>>
  BY <1>3 DEF AgentStarts, AgentWritesEnvFile, AgentBuildsBridge, AgentStops
<1>4. ASSUME NEW n \in Nodes, JobPodStarts(n) \/ JobPodSucceeds(n)
      PROVE  UNCHANGED <<cr, finalizer, config, namespaces>>
  BY <1>4 DEF JobPodStarts, PutJob, JobPodSucceeds
<1>5. CASE UserDeletes \/ UserChangesSpec \/ PodsAppear \/ PodsDrained \/ CordonChanges \/ ConfigSpoiled
  BY <1>5 DEF UserDeletes, UserChangesSpec, PodsAppear, PodsDrained, CordonChanges, ConfigSpoiled
<1>6. CASE ClusterNamespaceDeleted \/ NetworkNamespaceRemoved
  BY <1>6 DEF ClusterNamespaceDeleted, NetworkNamespaceRemoved
<1>7. QED
  BY <1>1, <1>2, <1>3, <1>4, <1>5, <1>6 DEF HostNext, Controllers, Users

(* The names of the steps, spelled out for the provers.                    *)
LEMMA StepNames ==
  /\ {"ClearConfig", "WriteConfig", "CreateConfig", "DeleteConfig"} \subseteq Steps
  /\ {"ListNamespacePods", "CreateNamespace", "DeleteNamespace"} \subseteq Steps
  /\ {"BindNetwork", "BindNetworkPsp", "DeleteLegacyDaemonSet", "DeleteAccount"} \subseteq Steps
  /\ {"WaitClusterNamespace", "WaitNetworkNamespace", "CreateDestroyer"} \subseteq Steps
  /\ {"GetDestroyer", "BindDeletion", "BindDeletionPsp", "CreateDestroyerAccount"} \subseteq Steps
  /\ {"CountNodes", "CreateJob", "WaitJob", "DeleteDestroyer"} \subseteq Steps
  /\ {"UnbindDeletion", "UnbindNetwork", "UnbindNetworkPsp", "UnbindDeletionPsp"} \subseteq Steps
  /\ {"ListAgentPods", "GetDaemonSet", "CreateDaemonSet", "DeleteDaemonSet"} \subseteq Steps
  /\ {"GetConfig", "Idle"} \subseteq Steps
BY DEF Steps, CallSteps, ConfigSteps, NamespaceSteps, LegacySteps, GrantSteps,
       TearDownSteps, SetupSteps, CleanUpSteps, FlanneldSteps

(* The steps of the worker, resource by resource.                          *)
LEMMA NetworkConfigType == ASSUME TypeOK, NetworkConfigNext PROVE TypeOK'
<1>0. HostTypeOK /\ WorkerTypeOK
  BY DEF TypeOK
<1>1. CASE GetConfig
  <2>1. CASE Fail
    BY <2>1, FailType
  <2>2. CASE config # Unreadable /\ ~Fail
    BY <1>0, <1>1, <2>2, StepNames, AfterResourceType, ReconcileAssumption, UnchangedHostType
    DEF TypeOK, GetConfig, HostTypeOK, WorkerTypeOK
  <2>3. QED
    BY <1>1, <2>1, <2>2 DEF GetConfig
<1>2. CASE CreateConfig
  BY <1>0, <1>2, StepNames, PutConfigType, GotoType, NextResourceType
  DEF TypeOK, CreateConfig, StoreCreate, HostTypeOK, WorkerTypeOK
<1>3. CASE ClearConfig
  BY <1>0, <1>3, StepNames, PutConfigType, GotoType, FailType
  DEF TypeOK, ClearConfig, StoreDelete
<1>4. CASE WriteConfig
  BY <1>0, <1>4, StepNames, PutConfigType, NextResourceType
  DEF TypeOK, WriteConfig, StoreCreate, HostTypeOK, WorkerTypeOK
<1>5. CASE DeleteConfig
  BY <1>0, <1>5, StepNames, PutConfigType, NextResourceType, FailType
  DEF TypeOK, DeleteConfig, StoreDelete
<1>6. QED
  BY <1>1, <1>2, <1>3, <1>4, <1>5 DEF NetworkConfigNext

(* The namespace resource keeps all types.                                 *)
LEMMA NamespaceType == ASSUME TypeOK, NamespaceNext PROVE TypeOK'
<1>0. HostTypeOK /\ WorkerTypeOK
  BY DEF TypeOK
<1>1. CASE GetNamespace
  <2>1. HostTypeOK'
    BY <1>0, <1>1, UnchangedHostType DEF GetNamespace
  <2>2. CASE CancelReconciliation
    BY <1>0, <2>1, <2>2, CancelType DEF TypeOK
  <2>3. CASE /\ found' = (namespaces["network"] = "Active")
             /\ \/ pass = "delete" /\ step' = "ListNamespacePods" /\ UNCHANGED attempts
                \/ pass = "create" /\ ~found' /\ step' = "CreateNamespace" /\ UNCHANGED attempts
                \/ pass = "create" /\ found' /\ AfterResource /\ attempts' = 0
             /\ UNCHANGED <<pass, object, stored, replicas, kept, faults>>
    <3>1. found' \in BOOLEAN
      BY <2>3
    <3>2. step' \in Steps
      BY <2>3, StepNames, AfterResourceType
    <3>3. attempts' \in 0 .. MaxRetries
      BY <1>0, <2>3, ReconcileAssumption DEF WorkerTypeOK
    <3>4. QED
      BY <1>0, <2>1, <2>3, <3>1, <3>2, <3>3 DEF TypeOK, WorkerTypeOK
  <2>4. QED
    BY <1>1, <2>2, <2>3 DEF GetNamespace
<1>2. CASE ListNamespacePods
  BY <1>0, <1>2, StepNames, GotoType, NextResourceType, KeepType, UnchangedHostType
  DEF TypeOK, ListNamespacePods
<1>3. CASE CreateNamespace
  BY <1>0, <1>3, StepNames, PutNamespaceType, NextResourceType, UnchangedHostType
  DEF TypeOK, CreateNamespace, Namespaces, Phases
<1>4. CASE DeleteNamespace
  BY <1>0, <1>4, StepNames, PutNamespaceType, NextResourceType, FailType,
     UnchangedHostType
  DEF TypeOK, DeleteNamespace, Namespaces, Phases
<1>5. QED
  BY <1>1, <1>2, <1>3, <1>4 DEF NamespaceNext

(* The nodes that are not cordoned are finitely many, so that their number *)
(* is a natural number.                                                    *)
LEMMA SchedulableCount == ASSUME HostTypeOK PROVE Cardinality(schedulable) \in Nat
BY HostAssumption, FS_Subset, FS_CardinalityType DEF HostTypeOK

(* The legacy resource keeps all types.                                    *)
LEMMA LegacyType == ASSUME TypeOK, LegacyNext PROVE TypeOK'
<1>0. HostTypeOK /\ WorkerTypeOK
  BY DEF TypeOK
<1>1. CASE CreateAccount
  BY <1>0, <1>1, StepNames, PutAccountsType, GotoType, FailType
  DEF TypeOK, CreateAccount, CreateServiceAccount, HostTypeOK
<1>2. CASE BindNetwork
  BY <1>0, <1>2, StepNames, PutBindingsType, GotoType
  DEF TypeOK, BindNetwork, Bind, Bindings, HostTypeOK
<1>3. CASE BindNetworkPsp
  BY <1>0, <1>3, StepNames, PutBindingsType, NextResourceType
  DEF TypeOK, BindNetworkPsp, Bind, Bindings, HostTypeOK
<1>4. CASE ListNetworkPods
  BY <1>0, <1>4, StepNames, GotoType, KeepType, UnchangedHostType
  DEF TypeOK, ListNetworkPods
<1>5. CASE DeleteLegacyDaemonSet
  BY <1>0, <1>5, StepNames, PutDaemonSetsType, GotoType
  DEF TypeOK, DeleteLegacyDaemonSet, WithoutDaemonSet, HostTypeOK
<1>6. CASE DeleteAccount
  BY <1>0, <1>6, StepNames, PutAccountsType, GotoType
  DEF TypeOK, DeleteAccount, HostTypeOK
<1>7. CASE WaitClusterNamespace
  BY <1>0, <1>7, StepNames, GotoType, FailType, UnchangedHostType
  DEF TypeOK, WaitClusterNamespace, WaitForNamespaceDeleted
<1>8. CASE WaitNetworkNamespace
  BY <1>0, <1>8, StepNames, GotoType, FailType, UnchangedHostType
  DEF TypeOK, WaitNetworkNamespace, WaitForNamespaceDeleted
<1>9. CASE CreateDestroyer
  BY <1>0, <1>9, StepNames, PutNamespaceType, GotoType, UnchangedHostType
  DEF TypeOK, CreateDestroyer, Namespaces, Phases
<1>10. CASE GetDestroyer
  BY <1>0, <1>10, StepNames, GotoType, KeepType, FailType, UnchangedHostType
  DEF TypeOK, GetDestroyer
<1>11. CASE BindDeletion
  BY <1>0, <1>11, StepNames, PutBindingsType, GotoType
  DEF TypeOK, BindDeletion, Bind, Bindings, HostTypeOK
<1>12. CASE BindDeletionPsp
  BY <1>0, <1>12, StepNames, PutBindingsType, GotoType
  DEF TypeOK, BindDeletionPsp, Bind, Bindings, HostTypeOK
<1>13. CASE CreateDestroyerAccount
  BY <1>0, <1>13, StepNames, PutAccountsType, GotoType, FailType
  DEF TypeOK, CreateDestroyerAccount, CreateServiceAccount, HostTypeOK
<1>14. CASE CountNodes
  BY <1>0, <1>14, StepNames, SchedulableCount, UnchangedHostType
  DEF TypeOK, CountNodes, WorkerTypeOK
<1>15. CASE CreateJob
  BY <1>0, <1>15, StepNames, PutJobType, GotoType, FailType
  DEF TypeOK, CreateJob, NewJob, Jobs, HostTypeOK, WorkerTypeOK
<1>16. CASE WaitJob
  BY <1>0, <1>16, StepNames, GotoType, FailType, UnchangedHostType DEF TypeOK, WaitJob
<1>17. CASE DeleteDestroyer
  BY <1>0, <1>17, StepNames, PutNamespaceType, GotoType, FailType, UnchangedHostType
  DEF TypeOK, DeleteDestroyer, Namespaces, Phases
<1>18. CASE UnbindDeletion
  BY <1>0, <1>18, StepNames, PutBindingsType, GotoType
  DEF TypeOK, UnbindDeletion, Unbind, HostTypeOK
<1>19. CASE UnbindNetwork
  BY <1>0, <1>19, StepNames, PutBindingsType, GotoType
  DEF TypeOK, UnbindNetwork, Unbind, HostTypeOK
<1>20. CASE UnbindNetworkPsp
  BY <1>0, <1>20, StepNames, PutBindingsType, GotoType
  DEF TypeOK, UnbindNetworkPsp, Unbind, HostTypeOK
<1>21. CASE UnbindDeletionPsp
  BY <1>0, <1>21, StepNames, PutBindingsType, NextResourceType
  DEF TypeOK, UnbindDeletionPsp, Unbind, HostTypeOK
<1>22. QED
  BY <1>1, <1>2, <1>3, <1>4, <1>5, <1>6, <1>7, <1>8, <1>9, <1>10, <1>11, <1>12, <1>13,
     <1>14, <1>15, <1>16, <1>17, <1>18, <1>19, <1>20, <1>21
  DEF LegacyNext

(* The flanneld resource keeps all types.                                  *)
LEMMA FlanneldType == ASSUME TypeOK, FlanneldNext PROVE TypeOK'
<1>0. HostTypeOK /\ WorkerTypeOK
  BY DEF TypeOK
<1>1. CASE GetLegacyDaemonSet
  BY <1>0, <1>1, StepNames, GotoType, NextResourceType, UnchangedHostType
  DEF TypeOK, GetLegacyDaemonSet
<1>2. CASE ListAgentPods
  BY <1>0, <1>2, StepNames, GotoType, KeepType, UnchangedHostType
  DEF TypeOK, ListAgentPods
<1>3. CASE GetDaemonSet
  <2>1. HostTypeOK'
    BY <1>0, <1>3, UnchangedHostType DEF GetDaemonSet
  <2>2. found' \in BOOLEAN
    <3>1. HasDaemonSet("apps") \in BOOLEAN
      BY DEF HasDaemonSet
    <3>2. QED
      BY <1>3, <3>1 DEF GetDaemonSet
  <2>3. step' \in Steps
    BY <1>3, StepNames, AfterResourceType DEF GetDaemonSet
  <2>4. attempts' \in 0 .. MaxRetries
    BY <1>0, <1>3, ReconcileAssumption DEF GetDaemonSet, WorkerTypeOK
  <2>5. QED
    BY <1>0, <1>3, <2>1, <2>2, <2>3, <2>4 DEF TypeOK, GetDaemonSet, WorkerTypeOK
<1>4. CASE CreateDaemonSet
  BY <1>0, <1>4, StepNames, PutDaemonSetsType, NextResourceType, FailType
  DEF TypeOK, CreateDaemonSet, Groups, HostTypeOK
<1>5. CASE DeleteDaemonSet
  BY <1>0, <1>5, StepNames, PutDaemonSetsType, NextResourceType
  DEF TypeOK, DeleteDaemonSet, WithoutDaemonSet, HostTypeOK
<1>6. QED
  BY <1>1, <1>2, <1>3, <1>4, <1>5 DEF FlanneldNext

(* The initial states have the right types.                                *)
LEMMA InitType == ASSUME Init PROVE TypeOK
<1>1. namespaces \in [Namespaces -> Phases]
  BY DEF Init, Created, Upgraded, Namespaces, Phases
<1>2. job \in Jobs /\ churn \in 0 .. MaxChurn
  BY HostAssumption DEF Init, Jobs, NoJob
<1>3. /\ finalizer \in BOOLEAN /\ config \in Configs \cup {NoConfig, Unreadable}
      /\ daemonSets \subseteq Groups /\ agents \subseteq Nodes
      /\ envFiles \subseteq Nodes /\ bridges \subseteq Nodes
      /\ accounts \subseteq {"network", "destroyer"} /\ bindings \subseteq Bindings
  <2>1. CASE Created
    BY <2>1 DEF Created
  <2>2. CASE Upgraded
    BY <2>2 DEF Init, Upgraded, Groups, Bindings
  <2>3. QED
    BY <2>1, <2>2 DEF Init
<1>4. HostTypeOK
  BY <1>1, <1>2, <1>3 DEF Init, HostTypeOK
<1>5. step \in Steps
  BY StepNames DEF Init
<1>6. 0 \in 0 .. MaxRetries /\ 0 \in 0 .. MaxFaults
  BY ReconcileAssumption
<1>7. WorkerTypeOK
  BY <1>5, <1>6 DEF Init, WorkerTypeOK
<1>8. QED
  BY <1>4, <1>7 DEF TypeOK

(* Every step keeps all types.                                             *)
LEMMA NextType == ASSUME TypeOK, [Next]_vars PROVE TypeOK'
<1>0. HostTypeOK /\ WorkerTypeOK
  BY DEF TypeOK
<1>1. CASE AddFinalizer
  BY <1>0, <1>1, PutFinalizerType, UnchangedWorkerType
  DEF TypeOK, AddFinalizer, HostTypeOK
<1>2. CASE StartPass
  BY <1>0, <1>2, StepNames, UnchangedHostType
  DEF TypeOK, StartPass, ConfigEntry, HostTypeOK, WorkerTypeOK
<1>3. CASE FinishPass
  BY <1>0, <1>3, PutFinalizerType, UnchangedHostType, EndPassType
  DEF TypeOK, FinishPass, WorkerTypeOK
<1>4. CASE NetworkConfigNext \/ NamespaceNext \/ LegacyNext \/ FlanneldNext
  BY <1>4, NetworkConfigType, NamespaceType, LegacyType, FlanneldType
<1>5. CASE CallFails
  BY <1>0, <1>5, RetryType, UnchangedHostType, ReconcileAssumption
  DEF TypeOK, CallFails, WorkerTypeOK
<1>6. CASE Crash
  BY <1>0, <1>6, EndPassType, UnchangedHostType, ReconcileAssumption
  DEF TypeOK, Crash, WorkerTypeOK
<1>7. CASE HostStep
  BY <1>0, <1>7, HostNextType, UnchangedWorkerType DEF TypeOK, HostStep
<1>8. CASE Rest \/ UNCHANGED vars
  BY <1>0, <1>8, UnchangedHostType, UnchangedWorkerType DEF TypeOK, Rest, vars
<1>9. QED
  BY <1>1, <1>2, <1>3, <1>4, <1>5, <1>6, <1>7, <1>8 DEF Next, OperatorNext

(* Every variable stays in its set, for every number of nodes and every    *)
(* bound.                                                                  *)
THEOREM TypeCorrect == Spec => []TypeOK
<1>1. Init => TypeOK
  BY InitType
<1>2. TypeOK /\ [Next]_vars => TypeOK'
  BY NextType
<1>3. QED
  BY <1>1, <1>2, PTL DEF Spec

----------------------------------------------------------------------------
(* The invariant.  A failure, a crash and the end of a pass preserve it    *)
(* wherever they happen, because they change nothing in the host and go    *)
(* back to a step at which less is known.                                  *)

(* A retry preserves the invariant.                                        *)
LEMMA RetryInv == ASSUME IInv, Retry, UNCHANGED hostVars PROVE OrderInv'
<1> USE DEF IInv, OrderInv, PassInv, ContentInv, TornDownInv, DestroyerInv, NetworkRightsInv,
            ProgressInv, CleanupJobHasItsRights, RightsBeforeUse, Clean,
            CreateSteps, DeleteSteps, UnbindSteps, ConfigSteps, NamespaceSteps, LegacySteps,
            GrantSteps, TearDownSteps, SetupSteps, CleanUpSteps, FlanneldSteps,
            hostVars, userVars, groupVars, loadVars, rbacVars, nodeVars, dataVars
<1>1. QED
  BY DEF Retry, RetryPoint, ConfigEntry, NamespaceEntry, LegacyEntry, FlanneldEntry

(* The end of a pass that leaves the host cluster alone preserves the      *)
(* invariant.                                                              *)
LEMMA EndPassInv == ASSUME IInv, EndPass, UNCHANGED hostVars PROVE OrderInv'
<1> USE DEF IInv, OrderInv, PassInv, ContentInv, TornDownInv, DestroyerInv, NetworkRightsInv,
            ProgressInv, CleanupJobHasItsRights, RightsBeforeUse, Clean,
            CreateSteps, DeleteSteps, UnbindSteps, ConfigSteps, NamespaceSteps, LegacySteps,
            GrantSteps, TearDownSteps, SetupSteps, CleanUpSteps, FlanneldSteps,
            hostVars, userVars, groupVars, loadVars, rbacVars, nodeVars, dataVars
<1>1. QED
  BY DEF EndPass

(* The error of a resource preserves the invariant.                        *)
LEMMA FailInv == ASSUME IInv, Fail PROVE OrderInv'
BY RetryInv, EndPassInv DEF Fail, GiveUp

(* A pass creates or deletes, if there is one.                             *)
LEMMA PassKind == ASSUME IInv PROVE pass \in {"none", "create", "delete"}
BY DEF IInv, TypeOK, WorkerTypeOK

(* The resources, call by call.                                             *)
LEMMA NetworkConfigInv == ASSUME IInv, NetworkConfigNext PROVE OrderInv'
<1> USE DEF IInv, OrderInv, PassInv, ContentInv, TornDownInv, DestroyerInv, NetworkRightsInv,
            ProgressInv, CleanupJobHasItsRights, RightsBeforeUse, Clean,
            CreateSteps, DeleteSteps, UnbindSteps, ConfigSteps, NamespaceSteps, LegacySteps,
            GrantSteps, TearDownSteps, SetupSteps, CleanUpSteps, FlanneldSteps,
            hostVars, userVars, groupVars, loadVars, rbacVars, nodeVars, dataVars
<1>1. CASE GetConfig
  <2>1. CASE Fail
    BY <2>1, FailInv
  <2>2. CASE ~Fail
    BY <1>1, <2>2 DEF GetConfig, At, NeedsDelete, AfterResource, NamespaceEntry
  <2>3. QED
    BY <2>1, <2>2
<1>2. CASE CreateConfig
  BY <1>2
  DEF CreateConfig, At, StoreCreate, PutConfig, Goto, NextResource, AfterResource,
      NamespaceEntry, LegacyEntry, FlanneldEntry
<1>3. CASE ClearConfig
  BY <1>3, FailInv DEF ClearConfig, At, StoreDelete, PutConfig, Goto
<1>4. CASE WriteConfig
  BY <1>4
  DEF WriteConfig, At, StoreCreate, PutConfig, NextResource, AfterResource,
      NamespaceEntry, LegacyEntry, FlanneldEntry
<1>5. CASE DeleteConfig
  BY <1>5, FailInv
  DEF DeleteConfig, At, StoreDelete, PutConfig, NextResource, AfterResource,
      NamespaceEntry, LegacyEntry, FlanneldEntry
<1>6. QED
  BY <1>1, <1>2, <1>3, <1>4, <1>5 DEF NetworkConfigNext

(* The namespace resource preserves the invariant.                         *)
LEMMA NamespaceInv == ASSUME IInv, NamespaceNext PROVE OrderInv'
<1> USE DEF IInv, OrderInv, PassInv, ContentInv, TornDownInv, DestroyerInv, NetworkRightsInv,
            ProgressInv, CleanupJobHasItsRights, RightsBeforeUse, Clean,
            CreateSteps, DeleteSteps, UnbindSteps, ConfigSteps, NamespaceSteps, LegacySteps,
            GrantSteps, TearDownSteps, SetupSteps, CleanUpSteps, FlanneldSteps,
            hostVars, userVars, groupVars, loadVars, rbacVars, nodeVars, dataVars
<1>1. CASE GetNamespace
  BY <1>1 DEF GetNamespace, At, CancelReconciliation, AfterResource, LegacyEntry
<1>2. CASE ListNamespacePods
  BY <1>2
  DEF ListNamespacePods, At, Goto, KeepAndCancelResource, NextResource, AfterResource,
      NamespaceEntry, LegacyEntry, FlanneldEntry
<1>3. CASE CreateNamespace
  <2>1. PassInv'
    BY <1>3
    DEF CreateNamespace, At, PutNamespace, TypeOK, HostTypeOK, Namespaces, NextResource,
        AfterResource, NamespaceEntry, LegacyEntry, FlanneldEntry
  <2>2. ContentInv'
    BY <1>3
    DEF CreateNamespace, At, PutNamespace, TypeOK, HostTypeOK, Namespaces, NextResource,
        AfterResource, NamespaceEntry, LegacyEntry, FlanneldEntry
  <2>3. TornDownInv'
    <3>1. pass = "create"
      BY <1>3, PassKind DEF CreateNamespace, At
    <3>2. namespaces'["destroyer"] = namespaces["destroyer"]
      BY <1>3 DEF CreateNamespace, PutNamespace, TypeOK, HostTypeOK, Namespaces
    <3>3. namespaces["destroyer"] = "Absent" /\ step' \in {"CreateAccount", "ListNetworkPods"}
      BY <1>3, <3>1 DEF CreateNamespace, At, NextResource, AfterResource, LegacyEntry
    <3>4. QED
      BY <3>2, <3>3
  <2>4. DestroyerInv'
    BY <1>3
    DEF CreateNamespace, At, PutNamespace, TypeOK, HostTypeOK, Namespaces, NextResource,
        AfterResource, NamespaceEntry, LegacyEntry, FlanneldEntry
  <2>5. NetworkRightsInv'
    BY <1>3
    DEF CreateNamespace, At, PutNamespace, TypeOK, HostTypeOK, Namespaces, NextResource,
        AfterResource, NamespaceEntry, LegacyEntry, FlanneldEntry
  <2>6. ProgressInv'
    BY <1>3
    DEF CreateNamespace, At, PutNamespace, TypeOK, HostTypeOK, Namespaces, NextResource,
        AfterResource, NamespaceEntry, LegacyEntry, FlanneldEntry
  <2>7. QED
    BY <2>1, <2>2, <2>3, <2>4, <2>5, <2>6
<1>4. CASE DeleteNamespace
  BY <1>4, FailInv
  DEF DeleteNamespace, At, PutNamespace, TypeOK, HostTypeOK, Namespaces, NextResource,
      AfterResource, NamespaceEntry, LegacyEntry, FlanneldEntry
<1>5. QED
  BY <1>1, <1>2, <1>3, <1>4 DEF NamespaceNext

(* The legacy resource preserves the invariant: it is the one that sets up *)
(* the cleanup and the one that ends it.                                   *)
LEMMA LegacyInv == ASSUME IInv, LegacyNext PROVE OrderInv'
<1> USE DEF IInv, OrderInv, PassInv, ContentInv, TornDownInv, DestroyerInv, NetworkRightsInv,
            ProgressInv, CleanupJobHasItsRights, RightsBeforeUse, Clean,
            CreateSteps, DeleteSteps, UnbindSteps, ConfigSteps, NamespaceSteps, LegacySteps,
            GrantSteps, TearDownSteps, SetupSteps, CleanUpSteps, FlanneldSteps,
            hostVars, userVars, groupVars, loadVars, rbacVars, nodeVars, dataVars
<1>1. CASE CreateAccount
  BY <1>1, FailInv
  DEF CreateAccount, At, CreateServiceAccount, PutAccounts, Accepts, Goto
<1>2. CASE BindNetwork
  BY <1>2 DEF BindNetwork, At, Bind, PutBindings, Goto
<1>3. CASE BindNetworkPsp
  BY <1>3
  DEF BindNetworkPsp, At, Bind, PutBindings, NextResource, AfterResource,
      NamespaceEntry, LegacyEntry, FlanneldEntry
<1>4. CASE ListNetworkPods
  BY <1>4
  DEF ListNetworkPods, At, Goto, KeepAndCancelResource, AfterResource, NamespaceEntry,
      LegacyEntry, FlanneldEntry
<1>5. CASE DeleteLegacyDaemonSet
  BY <1>5 DEF DeleteLegacyDaemonSet, At, PutDaemonSets, WithoutDaemonSet, Goto
<1>6. CASE DeleteAccount
  <2>1. PassInv'
    BY <1>6 DEF DeleteAccount, At, PutAccounts, Goto
  <2>2. ContentInv'
    BY <1>6 DEF DeleteAccount, At, PutAccounts, Goto
  <2>3. TornDownInv'
    BY <1>6 DEF DeleteAccount, At, PutAccounts, Goto
  <2>4. DestroyerInv'
    BY <1>6 DEF DeleteAccount, At, PutAccounts, Goto
  <2>5. NetworkRightsInv'
    <3>1. pass' = "delete" /\ cr' = "deleting" /\ step' = "WaitClusterNamespace"
      BY <1>6, PassKind DEF DeleteAccount, At, PutAccounts, Goto
    <3>2. UNCHANGED <<daemonSets, agents, bindings>>
      BY <1>6 DEF DeleteAccount, PutAccounts
    <3>3. QED
      BY <3>1, <3>2
  <2>6. ProgressInv'
    BY <1>6 DEF DeleteAccount, At, PutAccounts, Goto
  <2>7. QED
    BY <2>1, <2>2, <2>3, <2>4, <2>5, <2>6
<1>7. CASE WaitClusterNamespace
  BY <1>7, FailInv DEF WaitClusterNamespace, At, WaitForNamespaceDeleted, Goto
<1>8. CASE WaitNetworkNamespace
  BY <1>8, FailInv DEF WaitNetworkNamespace, At, WaitForNamespaceDeleted, Goto
<1>9. CASE CreateDestroyer
  <2>1. PassInv'
    BY <1>9 DEF CreateDestroyer, At, PutNamespace, TypeOK, HostTypeOK, Namespaces, Goto
  <2>2. ContentInv'
    BY <1>9 DEF CreateDestroyer, At, PutNamespace, TypeOK, HostTypeOK, Namespaces, Goto
  <2>3. TornDownInv'
    <3>1. pass = "delete" /\ cr = "deleting" /\ namespaces["network"] = "Absent"
      BY <1>9, PassKind DEF CreateDestroyer, At
    <3>2. pass' = "delete" /\ cr' = "deleting"
      BY <1>9, <3>1 DEF CreateDestroyer, PutNamespace, Goto
    <3>3. namespaces'["network"] = "Absent"
      BY <1>9, <3>1 DEF CreateDestroyer, PutNamespace, TypeOK, HostTypeOK, Namespaces
    <3>4. QED
      BY <3>2, <3>3
  <2>4. DestroyerInv'
    BY <1>9 DEF CreateDestroyer, At, PutNamespace, TypeOK, HostTypeOK, Namespaces, Goto
  <2>5. NetworkRightsInv'
    BY <1>9 DEF CreateDestroyer, At, PutNamespace, TypeOK, HostTypeOK, Namespaces, Goto
  <2>6. ProgressInv'
    BY <1>9 DEF CreateDestroyer, At, PutNamespace, TypeOK, HostTypeOK, Namespaces, Goto
  <2>7. QED
    BY <2>1, <2>2, <2>3, <2>4, <2>5, <2>6
<1>10. CASE GetDestroyer
  BY <1>10, FailInv
  DEF GetDestroyer, At, Goto, KeepAndCancelResource, AfterResource, NamespaceEntry,
      LegacyEntry, FlanneldEntry
<1>11. CASE BindDeletion
  BY <1>11 DEF BindDeletion, At, Bind, PutBindings, Goto
<1>12. CASE BindDeletionPsp
  BY <1>12 DEF BindDeletionPsp, At, Bind, PutBindings, Goto
<1>13. CASE CreateDestroyerAccount
  BY <1>13, FailInv
  DEF CreateDestroyerAccount, At, CreateServiceAccount, PutAccounts, Accepts, Goto
<1>14. CASE CountNodes
  BY <1>14 DEF CountNodes, At
<1>15. CASE CreateJob
  BY <1>15, FailInv DEF CreateJob, At, Accepts, PutJob, NewJob, Goto
<1>16. CASE WaitJob
  BY <1>16, FailInv DEF WaitJob, At, Goto
<1>17. CASE DeleteDestroyer
  BY <1>17, FailInv
  DEF DeleteDestroyer, At, PutNamespace, TypeOK, HostTypeOK, Namespaces, Goto
<1>18. CASE UnbindDeletion
  BY <1>18 DEF UnbindDeletion, At, Unbind, PutBindings, Goto
<1>19. CASE UnbindNetwork
  BY <1>19 DEF UnbindNetwork, At, Unbind, PutBindings, Goto
<1>20. CASE UnbindNetworkPsp
  BY <1>20 DEF UnbindNetworkPsp, At, Unbind, PutBindings, Goto
<1>21. CASE UnbindDeletionPsp
  BY <1>21
  DEF UnbindDeletionPsp, At, Unbind, PutBindings, TypeOK, HostTypeOK, Bindings,
      NextResource, AfterResource, NamespaceEntry, LegacyEntry, FlanneldEntry
<1>22. QED
  BY <1>1, <1>2, <1>3, <1>4, <1>5, <1>6, <1>7, <1>8, <1>9, <1>10, <1>11, <1>12, <1>13,
     <1>14, <1>15, <1>16, <1>17, <1>18, <1>19, <1>20, <1>21
  DEF LegacyNext

(* The flanneld resource preserves the invariant.                          *)
LEMMA FlanneldInv == ASSUME IInv, FlanneldNext PROVE OrderInv'
<1> USE DEF IInv, OrderInv, PassInv, ContentInv, TornDownInv, DestroyerInv, NetworkRightsInv,
            ProgressInv, CleanupJobHasItsRights, RightsBeforeUse, Clean,
            CreateSteps, DeleteSteps, UnbindSteps, ConfigSteps, NamespaceSteps, LegacySteps,
            GrantSteps, TearDownSteps, SetupSteps, CleanUpSteps, FlanneldSteps,
            hostVars, userVars, groupVars, loadVars, rbacVars, nodeVars, dataVars
<1>1. CASE GetLegacyDaemonSet
  BY <1>1
  DEF GetLegacyDaemonSet, At, Goto, NextResource, AfterResource, NamespaceEntry,
      LegacyEntry, FlanneldEntry
<1>2. CASE ListAgentPods
  BY <1>2
  DEF ListAgentPods, At, Goto, KeepAndCancelResource, AfterResource, NamespaceEntry,
      LegacyEntry, FlanneldEntry
<1>3. CASE GetDaemonSet
  BY <1>3 DEF GetDaemonSet, At, AfterResource
<1>4. CASE CreateDaemonSet
  <2>1. PassInv'
    BY <1>4, FailInv
    DEF CreateDaemonSet, At, Accepts, PutDaemonSets, NextResource, AfterResource,
        NamespaceEntry, LegacyEntry, FlanneldEntry
  <2>2. ContentInv'
    BY <1>4, FailInv
    DEF CreateDaemonSet, At, Accepts, PutDaemonSets, NextResource, AfterResource,
        NamespaceEntry, LegacyEntry, FlanneldEntry
  <2>3. TornDownInv'
    BY <1>4, FailInv
    DEF CreateDaemonSet, At, Accepts, PutDaemonSets, NextResource, AfterResource,
        NamespaceEntry, LegacyEntry, FlanneldEntry
  <2>4. DestroyerInv'
    BY <1>4, FailInv
    DEF CreateDaemonSet, At, Accepts, PutDaemonSets, NextResource, AfterResource,
        NamespaceEntry, LegacyEntry, FlanneldEntry
  <2>5. NetworkRightsInv'
    <3>1. pass = "create" /\ {"network", "networkPsp"} \subseteq bindings
      BY <1>4, PassKind DEF CreateDaemonSet, At
    <3>2. CASE Fail
      BY <3>2, FailInv
    <3>3. CASE Accepts("network") /\ PutDaemonSets(daemonSets \cup {"apps"}) /\ NextResource
      <4>1. namespaces["network"] = "Active" /\ "network" \in accounts
        BY <1>4, <3>1, <3>3 DEF CreateDaemonSet, At, Accepts
      <4>2. UNCHANGED <<namespaces, accounts, agents, bindings>> /\ step' = "Finish"
        BY <1>4, <3>3
        DEF CreateDaemonSet, At, PutDaemonSets, NextResource, AfterResource,
            FlanneldEntry
      <4>3. QED
        BY <3>1, <4>1, <4>2
    <3>4. QED
      BY <1>4, <3>2, <3>3 DEF CreateDaemonSet
  <2>6. ProgressInv'
    BY <1>4, FailInv
    DEF CreateDaemonSet, At, Accepts, PutDaemonSets, NextResource, AfterResource,
        NamespaceEntry, LegacyEntry, FlanneldEntry
  <2>7. QED
    BY <2>1, <2>2, <2>3, <2>4, <2>5, <2>6
<1>5. CASE DeleteDaemonSet
  BY <1>5
  DEF DeleteDaemonSet, At, PutDaemonSets, WithoutDaemonSet, NextResource, AfterResource,
      NamespaceEntry, LegacyEntry, FlanneldEntry
<1>6. QED
  BY <1>1, <1>2, <1>3, <1>4, <1>5 DEF FlanneldNext

(* What happens around the operator.                                        *)
LEMMA HostInv == ASSUME IInv, HostNext, UNCHANGED workerVars PROVE OrderInv'
<1> USE DEF IInv, OrderInv, PassInv, ContentInv, TornDownInv, DestroyerInv, NetworkRightsInv,
            ProgressInv, CleanupJobHasItsRights, RightsBeforeUse, Clean,
            CreateSteps, DeleteSteps, UnbindSteps, ConfigSteps, NamespaceSteps, LegacySteps,
            GrantSteps, TearDownSteps, SetupSteps, CleanUpSteps, FlanneldSteps,
            hostVars, userVars, groupVars, loadVars, rbacVars, nodeVars, dataVars, workerVars, passVars
<1>1. CASE CollectAccount
  BY <1>1 DEF CollectAccount, PutAccounts
<1>2. CASE CollectDaemonSets
  BY <1>2 DEF CollectDaemonSets, PutDaemonSets
<1>3. CASE CollectJob
  BY <1>3 DEF CollectJob, PutJob, NoJob
<1>4. ASSUME NEW n \in Namespaces, RemoveNamespace(n) PROVE OrderInv'
  BY <1>4 DEF RemoveNamespace, PutNamespace, IsEmpty, TypeOK, HostTypeOK, Namespaces
<1>5. ASSUME NEW n \in Nodes, AgentStarts(n) PROVE OrderInv'
  BY <1>5 DEF AgentStarts
<1>6. ASSUME NEW n \in Nodes, AgentWritesEnvFile(n) \/ AgentBuildsBridge(n) PROVE OrderInv'
  BY <1>6 DEF AgentWritesEnvFile, AgentBuildsBridge
<1>7. ASSUME NEW n \in Nodes, AgentStops(n) PROVE OrderInv'
  BY <1>7 DEF AgentStops
<1>8. ASSUME NEW n \in Nodes, JobPodStarts(n) PROVE OrderInv'
  BY <1>8 DEF JobPodStarts, PutJob
<1>9. ASSUME NEW n \in Nodes, JobPodSucceeds(n) PROVE OrderInv'
  BY <1>9 DEF JobPodSucceeds
<1>10. CASE UserDeletes
  BY <1>10 DEF UserDeletes
<1>11. CASE UserChangesSpec
  BY <1>11 DEF UserChangesSpec
<1>12. CASE PodsAppear
  BY <1>12 DEF PodsAppear
<1>13. CASE PodsDrained
  BY <1>13 DEF PodsDrained
<1>14. CASE ClusterNamespaceDeleted
  BY <1>14 DEF ClusterNamespaceDeleted, PutNamespace, TypeOK, HostTypeOK, Namespaces
<1>15. CASE NetworkNamespaceRemoved
  BY <1>15 DEF NetworkNamespaceRemoved, TypeOK, HostTypeOK, Namespaces
<1>16. CASE CordonChanges \/ ConfigSpoiled
  BY <1>16, HostAssumption DEF CordonChanges, ConfigSpoiled
<1>17. QED
  BY <1>1, <1>2, <1>3, <1>4, <1>5, <1>6, <1>7, <1>8, <1>9, <1>10, <1>11, <1>12, <1>13,
     <1>14, <1>15, <1>16
  DEF HostNext, Controllers, Users

(* The controller's own steps.                                             *)
LEMMA AddFinalizerInv == ASSUME IInv, AddFinalizer PROVE OrderInv'
<1> USE DEF IInv, OrderInv, PassInv, ContentInv, TornDownInv, DestroyerInv, NetworkRightsInv,
            ProgressInv, CleanupJobHasItsRights, RightsBeforeUse, Clean,
            CreateSteps, DeleteSteps, UnbindSteps, ConfigSteps, NamespaceSteps, LegacySteps,
            GrantSteps, TearDownSteps, SetupSteps, CleanUpSteps, FlanneldSteps,
            hostVars, userVars, groupVars, loadVars, rbacVars, nodeVars, dataVars
<1>1. QED
  BY DEF AddFinalizer, PutFinalizer, workerVars, passVars

(* The start of a pass preserves the invariant.                            *)
LEMMA StartPassInv == ASSUME IInv, StartPass PROVE OrderInv'
<1> USE DEF IInv, OrderInv, PassInv, ContentInv, TornDownInv, DestroyerInv, NetworkRightsInv,
            ProgressInv, CleanupJobHasItsRights, RightsBeforeUse, Clean,
            CreateSteps, DeleteSteps, UnbindSteps, ConfigSteps, NamespaceSteps, LegacySteps,
            GrantSteps, TearDownSteps, SetupSteps, CleanUpSteps, FlanneldSteps,
            hostVars, userVars, groupVars, loadVars, rbacVars, nodeVars, dataVars
<1>1. QED
  BY DEF StartPass, ConfigEntry, TypeOK, HostTypeOK

(* A step that changes nothing preserves the invariant.                    *)
LEMMA StutterInv == ASSUME IInv, UNCHANGED vars PROVE OrderInv'
<1> USE DEF IInv, OrderInv, PassInv, ContentInv, TornDownInv, DestroyerInv, NetworkRightsInv,
            ProgressInv, CleanupJobHasItsRights, RightsBeforeUse, Clean,
            CreateSteps, DeleteSteps, UnbindSteps, ConfigSteps, NamespaceSteps, LegacySteps,
            GrantSteps, TearDownSteps, SetupSteps, CleanUpSteps, FlanneldSteps,
            hostVars, userVars, groupVars, loadVars, rbacVars, nodeVars, dataVars
<1>1. QED
  BY DEF vars, workerVars, passVars

(* The end of a completed pass preserves the invariant, also where it      *)
(* releases the FlannelConfig.                                             *)
LEMMA FinishPassInv == ASSUME IInv, FinishPass PROVE OrderInv'
<1> USE DEF IInv, OrderInv, PassInv, ContentInv, TornDownInv, DestroyerInv, NetworkRightsInv,
            ProgressInv, CleanupJobHasItsRights, RightsBeforeUse, Clean,
            CreateSteps, DeleteSteps, UnbindSteps, ConfigSteps, NamespaceSteps, LegacySteps,
            GrantSteps, TearDownSteps, SetupSteps, CleanUpSteps, FlanneldSteps,
            hostVars, userVars, groupVars, loadVars, rbacVars, nodeVars, dataVars
<1>1. CASE UNCHANGED hostVars
  BY <1>1, EndPassInv DEF FinishPass
<1>2. CASE pass = "delete" /\ PutFinalizer(FALSE, "gone")
  BY <1>2 DEF FinishPass, EndPass, PutFinalizer
<1>3. QED
  BY <1>1, <1>2 DEF FinishPass

(* The initial states satisfy the invariant.                               *)
LEMMA InitInv == ASSUME Init PROVE OrderInv
BY DEF Init, Created, Upgraded, NoJob, OrderInv, PassInv, ContentInv, TornDownInv, DestroyerInv,
       NetworkRightsInv, ProgressInv, CleanupJobHasItsRights, RightsBeforeUse,
       UnbindSteps, ConfigSteps, GrantSteps, SetupSteps, CleanUpSteps, FlanneldSteps

(* The invariant is inductive.                                             *)
LEMMA NextInv == ASSUME IInv, [Next]_vars PROVE IInv'
<1>0. SUFFICES OrderInv'
  BY NextType DEF IInv
<1>1. CASE AddFinalizer
  BY <1>1, AddFinalizerInv
<1>2. CASE StartPass
  BY <1>2, StartPassInv
<1>3. CASE FinishPass
  BY <1>3, FinishPassInv
<1>4. CASE NetworkConfigNext \/ NamespaceNext \/ LegacyNext \/ FlanneldNext
  BY <1>4, NetworkConfigInv, NamespaceInv, LegacyInv, FlanneldInv
<1>5. CASE CallFails
  BY <1>5, RetryInv, EndPassInv DEF CallFails, GiveUp
<1>6. CASE Crash
  BY <1>6, EndPassInv DEF Crash
<1>7. CASE HostStep
  BY <1>7, HostInv DEF HostStep
<1>8. CASE Rest \/ UNCHANGED vars
  BY <1>8, StutterInv DEF Rest
<1>9. QED
  BY <1>1, <1>2, <1>3, <1>4, <1>5, <1>6, <1>7, <1>8 DEF Next, OperatorNext

(* Every behaviour of the operator satisfies the invariant.                *)
LEMMA Invariance == Spec => []IInv
<1>1. Init => IInv
  BY InitType, InitInv DEF IInv
<1>2. IInv /\ [Next]_vars => IInv'
  BY NextInv
<1>3. QED
  BY <1>1, <1>2, PTL DEF Spec

----------------------------------------------------------------------------
(* The safety properties follow from the invariant.                        *)

(* The cleanup job never works while a pod of the network may build        *)
(* bridges.                                                                *)
THEOREM CleanupAlone == Spec => []CleanupAloneOnNodes
<1>1. IInv => CleanupAloneOnNodes
  BY DEF IInv, OrderInv, ContentInv, TornDownInv, CleanupAloneOnNodes
<1>2. QED
  BY <1>1, Invariance, PTL

(* The cleanup job never lacks its rights in a namespace that is in use.   *)
THEOREM CleanupRights == Spec => []CleanupJobHasItsRights
<1>1. IInv => CleanupJobHasItsRights
  BY DEF IInv, OrderInv, DestroyerInv
<1>2. QED
  BY <1>1, Invariance, PTL

(* The daemon set never lacks its rights in a live network, its pods never *)
(* lack their bindings.                                                    *)
THEOREM NetworkRights == Spec => []RightsBeforeUse
<1>1. IInv => RightsBeforeUse
  BY DEF IInv, OrderInv, NetworkRightsInv
<1>2. QED
  BY <1>1, Invariance, PTL

(* A delete pass that is about to release the FlannelConfig after its last *)
(* resource has removed everything.                                        *)
THEOREM FinishedClean == Spec => []FinishedIsClean
<1>1. IInv => FinishedIsClean
  BY DEF IInv, OrderInv, ProgressInv, FinishedIsClean
<1>2. QED
  BY <1>1, Invariance, PTL
=============================================================================
