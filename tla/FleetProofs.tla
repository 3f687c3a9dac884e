---------------------------- MODULE FleetProofs ----------------------------
(***************************************************************************)
(* Proofs, for every set of nodes, configs and version bundles, of what    *)
(* two FlannelConfigs under one worker may expect.                         *)
(***************************************************************************)
EXTENDS Fleet, LifecycleProofs

Net == INSTANCE LifecycleProofs WITH
  cr <- crB, finalizer <- finalizerB, spec <- specB, config <- configB,
  namespaces <- namespacesB, pods <- podsB, daemonSets <- daemonSetsB, agents <- agentsB,
  accounts <- accountsB, bindings <- bindingsB, job <- jobB,
  envFiles <- envFilesB, bridges <- bridgesB, churn <- churnB

----------------------------------------------------------------------------
(* B has the same code and the same surroundings: what Fleet takes from an *)
(* instance of FlannelOperator is what the lemmas speak of.                *)

(* Nodes are counted alike.                                                *)
LEMMA SameCount == ASSUME NEW S PROVE B!Cardinality(S) = Net!Cardinality(S)
BY DEF B!Cardinality, Net!Cardinality

(* The beginning and the end of a pass.                                    *)
LEMMA SamePass ==
  ASSUME B!AddFinalizer \/ B!StartPass \/ B!FinishPass
  PROVE  Net!AddFinalizer \/ Net!StartPass \/ Net!FinishPass
BY DEF B!AddFinalizer, Net!AddFinalizer, B!StartPass, Net!StartPass,
       B!FinishPass, Net!FinishPass, B!PutFinalizer, Net!PutFinalizer,
       B!EndPass, Net!EndPass, B!At, Net!At, B!ConfigEntry,
       Net!ConfigEntry, B!workerVars, Net!workerVars, B!passVars,
       Net!passVars, B!dataVars, Net!dataVars, B!userVars, Net!userVars,
       B!groupVars, Net!groupVars, B!loadVars, Net!loadVars, B!rbacVars,
       Net!rbacVars, B!nodeVars, Net!nodeVars, B!hostVars, Net!hostVars

(* The networkconfig resource.                                             *)
LEMMA SameNetworkConfig == ASSUME B!NetworkConfigNext PROVE Net!NetworkConfigNext
BY DEF B!PutConfig, Net!PutConfig, B!At, Net!At, B!Goto, Net!Goto,
       B!NextResource, Net!NextResource, B!KeepAndCancelResource,
       Net!KeepAndCancelResource, B!CancelReconciliation,
       Net!CancelReconciliation, B!EndPass, Net!EndPass, B!Retry,
       Net!Retry, B!GiveUp, Net!GiveUp, B!Fail, Net!Fail, B!RetryPoint,
       Net!RetryPoint, B!AfterResource, Net!AfterResource, B!ConfigEntry,
       Net!ConfigEntry, B!NamespaceEntry, Net!NamespaceEntry, B!LegacyEntry,
       Net!LegacyEntry, B!FlanneldEntry, Net!FlanneldEntry, B!ConfigSteps,
       Net!ConfigSteps, B!NamespaceSteps, Net!NamespaceSteps, B!GrantSteps,
       Net!GrantSteps, B!TearDownSteps, Net!TearDownSteps, B!SetupSteps,
       Net!SetupSteps, B!CleanUpSteps, Net!CleanUpSteps, B!LegacySteps,
       Net!LegacySteps, B!FlanneldSteps, Net!FlanneldSteps, B!dataVars,
       Net!dataVars, B!NetworkConfigNext, Net!NetworkConfigNext, B!GetConfig,
       Net!GetConfig, B!CreateConfig, Net!CreateConfig, B!ClearConfig,
       Net!ClearConfig, B!WriteConfig, Net!WriteConfig, B!DeleteConfig,
       Net!DeleteConfig, B!NeedsCreate, Net!NeedsCreate, B!NeedsUpdate,
       Net!NeedsUpdate, B!NeedsDelete, Net!NeedsDelete, B!StoreCreate,
       Net!StoreCreate, B!StoreDelete, Net!StoreDelete, B!userVars,
       Net!userVars, B!groupVars, Net!groupVars, B!loadVars,
       Net!loadVars, B!rbacVars, Net!rbacVars, B!nodeVars, Net!nodeVars,
       B!hostVars, Net!hostVars

(* The namespace resource.                                                 *)
LEMMA SameNamespace == ASSUME B!NamespaceNext PROVE Net!NamespaceNext
BY DEF B!PutNamespace, Net!PutNamespace, B!At, Net!At, B!Goto,
       Net!Goto, B!NextResource, Net!NextResource, B!KeepAndCancelResource,
       Net!KeepAndCancelResource, B!CancelReconciliation,
       Net!CancelReconciliation, B!EndPass, Net!EndPass, B!Retry,
       Net!Retry, B!GiveUp, Net!GiveUp, B!Fail, Net!Fail, B!RetryPoint,
       Net!RetryPoint, B!AfterResource, Net!AfterResource, B!ConfigEntry,
       Net!ConfigEntry, B!NamespaceEntry, Net!NamespaceEntry, B!LegacyEntry,
       Net!LegacyEntry, B!FlanneldEntry, Net!FlanneldEntry, B!ConfigSteps,
       Net!ConfigSteps, B!NamespaceSteps, Net!NamespaceSteps, B!GrantSteps,
       Net!GrantSteps, B!TearDownSteps, Net!TearDownSteps, B!SetupSteps,
       Net!SetupSteps, B!CleanUpSteps, Net!CleanUpSteps, B!LegacySteps,
       Net!LegacySteps, B!FlanneldSteps, Net!FlanneldSteps, B!dataVars,
       Net!dataVars, B!NamespaceNext, Net!NamespaceNext, B!GetNamespace,
       Net!GetNamespace, B!ListNamespacePods, Net!ListNamespacePods,
       B!CreateNamespace, Net!CreateNamespace, B!DeleteNamespace,
       Net!DeleteNamespace, B!userVars, Net!userVars, B!groupVars,
       Net!groupVars, B!loadVars, Net!loadVars, B!rbacVars, Net!rbacVars,
       B!nodeVars, Net!nodeVars, B!hostVars, Net!hostVars

(* The flanneld resource.                                                  *)
LEMMA SameFlanneld == ASSUME B!FlanneldNext PROVE Net!FlanneldNext
BY DEF B!PutDaemonSets, Net!PutDaemonSets, B!HasDaemonSet, Net!HasDaemonSet,
       B!WithoutDaemonSet, Net!WithoutDaemonSet, B!Accepts, Net!Accepts,
       B!At, Net!At, B!Goto, Net!Goto, B!NextResource,
       Net!NextResource, B!KeepAndCancelResource, Net!KeepAndCancelResource,
       B!CancelReconciliation, Net!CancelReconciliation, B!EndPass,
       Net!EndPass, B!Retry, Net!Retry, B!GiveUp, Net!GiveUp, B!Fail,
       Net!Fail, B!RetryPoint, Net!RetryPoint, B!AfterResource,
       Net!AfterResource, B!ConfigEntry, Net!ConfigEntry, B!NamespaceEntry,
       Net!NamespaceEntry, B!LegacyEntry, Net!LegacyEntry, B!FlanneldEntry,
       Net!FlanneldEntry, B!ConfigSteps, Net!ConfigSteps, B!NamespaceSteps,
       Net!NamespaceSteps, B!GrantSteps, Net!GrantSteps, B!TearDownSteps,
       Net!TearDownSteps, B!SetupSteps, Net!SetupSteps, B!CleanUpSteps,
       Net!CleanUpSteps, B!LegacySteps, Net!LegacySteps, B!FlanneldSteps,
       Net!FlanneldSteps, B!dataVars, Net!dataVars, B!FlanneldNext,
       Net!FlanneldNext, B!GetLegacyDaemonSet, Net!GetLegacyDaemonSet,
       B!ListAgentPods, Net!ListAgentPods, B!GetDaemonSet, Net!GetDaemonSet,
       B!CreateDaemonSet, Net!CreateDaemonSet, B!DeleteDaemonSet,
       Net!DeleteDaemonSet, B!userVars, Net!userVars, B!groupVars,
       Net!groupVars, B!loadVars, Net!loadVars, B!rbacVars, Net!rbacVars,
       B!nodeVars, Net!nodeVars, B!hostVars, Net!hostVars

(* The legacy resource.                                                    *)
LEMMA SameLegacy == ASSUME B!LegacyNext PROVE Net!LegacyNext
BY SameCount DEF B!PutNamespace, Net!PutNamespace, B!PutDaemonSets, Net!PutDaemonSets,
                 B!PutAccounts, Net!PutAccounts, B!PutBindings, Net!PutBindings, B!PutJob,
                 Net!PutJob, B!Accepts, Net!Accepts, B!WithoutDaemonSet, Net!WithoutDaemonSet,
                 B!NewJob, Net!NewJob, B!At, Net!At, B!Goto, Net!Goto, B!NextResource,
                 Net!NextResource, B!KeepAndCancelResource, Net!KeepAndCancelResource,
                 B!CancelReconciliation, Net!CancelReconciliation, B!EndPass, Net!EndPass,
                 B!Retry, Net!Retry, B!GiveUp, Net!GiveUp, B!Fail, Net!Fail, B!RetryPoint,
                 Net!RetryPoint, B!AfterResource, Net!AfterResource, B!ConfigEntry,
                 Net!ConfigEntry, B!NamespaceEntry, Net!NamespaceEntry, B!LegacyEntry,
                 Net!LegacyEntry, B!FlanneldEntry, Net!FlanneldEntry, B!ConfigSteps,
                 Net!ConfigSteps, B!NamespaceSteps, Net!NamespaceSteps, B!GrantSteps,
                 Net!GrantSteps, B!TearDownSteps, Net!TearDownSteps, B!SetupSteps, Net!SetupSteps,
                 B!CleanUpSteps, Net!CleanUpSteps, B!LegacySteps, Net!LegacySteps,
                 B!FlanneldSteps, Net!FlanneldSteps, B!dataVars, Net!dataVars, B!LegacyNext,
                 Net!LegacyNext, B!CreateServiceAccount, Net!CreateServiceAccount, B!Bind,
                 Net!Bind, B!Unbind, Net!Unbind, B!CreateAccount, Net!CreateAccount,
                 B!BindNetwork, Net!BindNetwork, B!BindNetworkPsp, Net!BindNetworkPsp,
                 B!ListNetworkPods, Net!ListNetworkPods, B!DeleteLegacyDaemonSet,
                 Net!DeleteLegacyDaemonSet, B!DeleteAccount, Net!DeleteAccount,
                 B!WaitForNamespaceDeleted, Net!WaitForNamespaceDeleted, B!WaitClusterNamespace,
                 Net!WaitClusterNamespace, B!WaitNetworkNamespace, Net!WaitNetworkNamespace,
                 B!CreateDestroyer, Net!CreateDestroyer, B!GetDestroyer, Net!GetDestroyer,
                 B!BindDeletion, Net!BindDeletion, B!BindDeletionPsp, Net!BindDeletionPsp,
                 B!CreateDestroyerAccount, Net!CreateDestroyerAccount, B!CountNodes,
                 Net!CountNodes, B!CreateJob, Net!CreateJob, B!WaitJob, Net!WaitJob,
                 B!DeleteDestroyer, Net!DeleteDestroyer, B!UnbindDeletion, Net!UnbindDeletion,
                 B!UnbindNetwork, Net!UnbindNetwork, B!UnbindNetworkPsp, Net!UnbindNetworkPsp,
                 B!UnbindDeletionPsp, Net!UnbindDeletionPsp, B!userVars, Net!userVars,
                 B!groupVars, Net!groupVars, B!loadVars, Net!loadVars, B!rbacVars, Net!rbacVars,
                 B!nodeVars, Net!nodeVars, B!hostVars, Net!hostVars

(* The host cluster.                                                       *)
LEMMA SameHost == ASSUME B!HostNext PROVE Net!HostNext
BY SameCount DEF B!CollectAccount, Net!CollectAccount, B!CollectDaemonSets, Net!CollectDaemonSets,
                 B!CollectJob, Net!CollectJob, B!RemoveNamespace, Net!RemoveNamespace,
                 B!AgentStarts, Net!AgentStarts, B!AgentWritesEnvFile, Net!AgentWritesEnvFile,
                 B!Admitted, Net!Admitted, B!Subject, Net!Subject, B!RoleOf, Net!RoleOf,
                 B!ConfigSpoiled, Net!ConfigSpoiled, B!AgentBuildsBridge, Net!AgentBuildsBridge,
                 B!AgentStops, Net!AgentStops, B!JobPodStarts, Net!JobPodStarts, B!JobPodSucceeds,
                 Net!JobPodSucceeds, B!UserDeletes, Net!UserDeletes, B!UserChangesSpec,
                 Net!UserChangesSpec, B!PodsAppear, Net!PodsAppear, B!PodsDrained,
                 Net!PodsDrained, B!ClusterNamespaceDeleted, Net!ClusterNamespaceDeleted,
                 B!NetworkNamespaceRemoved, Net!NetworkNamespaceRemoved, B!CordonChanges,
                 Net!CordonChanges, B!Disturb, Net!Disturb, B!IsEmpty, Net!IsEmpty, B!Accepts,
                 Net!Accepts, B!PutAccounts, Net!PutAccounts, B!PutDaemonSets, Net!PutDaemonSets,
                 B!PutJob, Net!PutJob, B!PutNamespace, Net!PutNamespace, B!NoJob, Net!NoJob,
                 B!Namespaces, Net!Namespaces, B!userVars, Net!userVars, B!groupVars,
                 Net!groupVars, B!loadVars, Net!loadVars, B!rbacVars, Net!rbacVars, B!nodeVars,
                 Net!nodeVars, B!HostNext, Net!HostNext, B!Controllers, Net!Controllers, B!Users,
                 Net!Users

(* The worker, in all it does for B.                                       *)
LEMMA SameOperator == ASSUME B!OperatorNext PROVE Net!OperatorNext
BY SamePass, SameNetworkConfig, SameNamespace, SameLegacy, SameFlanneld
DEF B!OperatorNext, Net!OperatorNext

(* The worker, when it fails.                                              *)
LEMMA SameFailures == ASSUME B!CallFails \/ B!Crash PROVE Net!CallFails \/ Net!Crash
BY DEF B!CallFails, Net!CallFails, B!Crash, Net!Crash, B!Retry, Net!Retry, B!GiveUp, Net!GiveUp,
       B!EndPass, Net!EndPass, B!RetryPoint, Net!RetryPoint, B!ConfigEntry, Net!ConfigEntry,
       B!NamespaceEntry, Net!NamespaceEntry, B!LegacyEntry, Net!LegacyEntry, B!FlanneldEntry,
       Net!FlanneldEntry, B!CallSteps, Net!CallSteps, B!ConfigSteps, Net!ConfigSteps,
       B!NamespaceSteps, Net!NamespaceSteps, B!GrantSteps, Net!GrantSteps, B!TearDownSteps,
       Net!TearDownSteps, B!SetupSteps, Net!SetupSteps, B!CleanUpSteps, Net!CleanUpSteps,
       B!LegacySteps, Net!LegacySteps, B!FlanneldSteps, Net!FlanneldSteps, B!dataVars,
       Net!dataVars, B!userVars, Net!userVars, B!groupVars, Net!groupVars, B!loadVars,
       Net!loadVars, B!rbacVars, Net!rbacVars, B!nodeVars, Net!nodeVars, B!hostVars, Net!hostVars

(* The assumptions on the constants are those of LifecycleProofs.          *)
LEMMA NetAssumptions ==
  /\ Net!IsFiniteSet(Nodes)
  /\ NoConfig \notin Configs /\ Unreadable \notin Configs \cup {NoConfig}
  /\ SharedDaemonSets \in BOOLEAN /\ MaxChurn \in Nat /\ MaxRetries \in Nat /\ MaxFaults \in Nat
BY HostAssumption, ReconcileAssumption
DEF HostAssumption, ReconcileAssumption, IsFiniteSet, Net!IsFiniteSet

(* So are the types of the worker, who has one set of variables.           *)
LEMMA SameWorkerTypes == WorkerTypeOK <=> Net!WorkerTypeOK
BY DEF WorkerTypeOK, Net!WorkerTypeOK, Steps, Net!Steps, CallSteps, Net!CallSteps, ConfigSteps,
       Net!ConfigSteps, NamespaceSteps, Net!NamespaceSteps, GrantSteps, Net!GrantSteps,
       TearDownSteps, Net!TearDownSteps, SetupSteps, Net!SetupSteps, CleanUpSteps,
       Net!CleanUpSteps, LegacySteps, Net!LegacySteps, FlanneldSteps, Net!FlanneldSteps

----------------------------------------------------------------------------
(* The inductive invariant: the worker and the network of its turn are in  *)
(* order, and so is the other network on its own.                          *)
TurnInv ==
  /\ turn = "A" => IInv /\ DownInv /\ Net!Left
  /\ turn = "B" => Net!IInv /\ Net!DownInv /\ Left

FleetInv ==
  /\ turn \in {"A", "B"}
  /\ bundle \in [{"A", "B"} -> Bundles \cup {OwnBundle}]
  /\ upgrades \in 0 .. MaxUpgrades
  /\ TurnInv

(* A worker between two passes has nothing left of either.                 *)
LEMMA Idle ==
  ASSUME FleetInv
  PROVE  WorkerTypeOK /\ (pass = "none" => step = "Idle")
<1>1. CASE turn = "A"
  BY <1>1 DEF FleetInv, TurnInv, IInv, TypeOK, OrderInv, PassInv
<1>2. CASE turn = "B"
  BY <1>2, SameWorkerTypes DEF FleetInv, TurnInv, Net!IInv, Net!TypeOK, Net!OrderInv, Net!PassInv
<1>3. QED
  BY <1>1, <1>2 DEF FleetInv

(* It may take up A when it is free ...                                    *)
LEMMA TakesUpA == ASSUME FleetInv, MayWorkOn("A") PROVE IInv /\ DownInv /\ Net!Left
<1>1. CASE turn = "A"
  BY <1>1 DEF FleetInv, TurnInv
<1>2. CASE turn = "B"
  <2>1. pass = "none" /\ Left /\ Net!IInv /\ Net!DownInv
    BY <1>2 DEF FleetInv, TurnInv, MayWorkOn
  <2>2. IInv /\ DownInv
    BY <2>1, Idle, WorkerReturns
  <2>3. Net!Left
    BY <2>1, NetAssumptions, Net!WorkerLeaves
  <2>4. QED
    BY <2>2, <2>3
<1>3. QED
  BY <1>1, <1>2 DEF FleetInv

(* ... and B.                                                              *)
LEMMA TakesUpB == ASSUME FleetInv, MayWorkOn("B") PROVE Net!IInv /\ Net!DownInv /\ Left
<1>1. CASE turn = "B"
  BY <1>1 DEF FleetInv, TurnInv
<1>2. CASE turn = "A"
  <2>1. pass = "none" /\ Net!Left /\ IInv /\ DownInv
    BY <1>2 DEF FleetInv, TurnInv, MayWorkOn
  <2>2. Net!IInv /\ Net!DownInv
    BY <2>1, Idle, SameWorkerTypes, NetAssumptions, Net!WorkerReturns
  <2>3. Left
    BY <2>1, WorkerLeaves
  <2>4. QED
    BY <2>2, <2>3
<1>3. QED
  BY <1>1, <1>2 DEF FleetInv

----------------------------------------------------------------------------
(* What does not concern a network leaves it in order, as nodes are all    *)
(* they have in common.                                                    *)
SparesA == schedulable' \subseteq Nodes /\ UNCHANGED hostA
SparesB == schedulable' \subseteq Nodes /\ UNCHANGED hostB

(* A, at any time ...                                                      *)
LEMMA AIsSpared ==
  ASSUME SparesA
  PROVE  /\ Left => Left'
         /\ IInv /\ DownInv /\ UNCHANGED workerVars => IInv' /\ DownInv'
<1>1. Elsewhere
  BY DEF SparesA, hostA, Elsewhere, userVars, groupVars, loadVars, rbacVars
<1>2. QED
  BY <1>1, LeftElsewhere, WorkerElsewhere

(* ... and B.                                                              *)
LEMMA BIsSpared ==
  ASSUME SparesB
  PROVE  /\ Net!Left => Net!Left'
         /\ Net!IInv /\ Net!DownInv /\ UNCHANGED workerVars => Net!IInv' /\ Net!DownInv'
<1>1. Net!Elsewhere
  BY DEF SparesB, hostB, Net!Elsewhere, Net!userVars, Net!groupVars, Net!loadVars, Net!rbacVars
<1>2. UNCHANGED workerVars => UNCHANGED Net!workerVars
  BY DEF workerVars, passVars, dataVars, Net!workerVars, Net!passVars, Net!dataVars
<1>3. QED
  BY <1>1, <1>2, NetAssumptions, Net!LeftElsewhere, Net!WorkerElsewhere

----------------------------------------------------------------------------
(* The steps preserve the invariant.                                       *)

(* The worker on A.                                                        *)
LEMMA AInTurn == ASSUME FleetInv, WorkOnA PROVE TurnInv'
<1>1. IInv /\ DownInv /\ Net!Left
  BY TakesUpA DEF WorkOnA
<1>2. IInv' /\ DownInv'
  BY <1>1, WorkerStays DEF WorkOnA
<1>3. SparesB
  BY <1>2 DEF WorkOnA, SparesB, IInv, TypeOK, HostTypeOK
<1>4. Net!Left'
  BY <1>1, <1>3, BIsSpared
<1>5. turn' = "A"
  BY DEF WorkOnA
<1>6. QED
  BY <1>2, <1>4, <1>5 DEF TurnInv

(* The worker on B.                                                        *)
LEMMA BInTurn == ASSUME FleetInv, WorkOnB PROVE TurnInv'
<1>1. Net!IInv /\ Net!DownInv /\ Left
  BY TakesUpB DEF WorkOnB
<1>2. Net!IInv' /\ Net!DownInv'
  BY <1>1, SameOperator, NetAssumptions, Net!WorkerStays DEF WorkOnB
<1>3. SparesA
  BY <1>2 DEF WorkOnB, SparesA, Net!IInv, Net!TypeOK, Net!HostTypeOK
<1>4. Left'
  BY <1>1, <1>3, AIsSpared
<1>5. turn' = "B"
  BY DEF WorkOnB
<1>6. QED
  BY <1>2, <1>4, <1>5 DEF TurnInv

(* A failure in a pass of A, or a crash, is one more step of its worker.   *)
LEMMA AFails ==
  ASSUME FleetInv, turn = "A", turn' = "A", CallFails \/ Crash, UNCHANGED hostB
  PROVE  TurnInv'
<1>1. IInv' /\ DownInv'
  BY WorkerStays DEF FleetInv, TurnInv
<1>2. SparesB
  BY <1>1 DEF SparesB, IInv, TypeOK, HostTypeOK
<1>3. Net!Left'
  BY <1>2, BIsSpared DEF FleetInv, TurnInv
<1>4. QED
  BY <1>1, <1>3 DEF TurnInv

(* So it is in a pass of B.                                                *)
LEMMA BFails ==
  ASSUME FleetInv, turn = "B", turn' = "B", B!CallFails \/ B!Crash, UNCHANGED hostA
  PROVE  TurnInv'
<1>1. Net!IInv' /\ Net!DownInv'
  BY SameFailures, NetAssumptions, Net!WorkerStays DEF FleetInv, TurnInv
<1>2. SparesA
  BY <1>1 DEF SparesA, Net!IInv, Net!TypeOK, Net!HostTypeOK
<1>3. Left'
  BY <1>2, AIsSpared DEF FleetInv, TurnInv
<1>4. QED
  BY <1>1, <1>3 DEF TurnInv

(* The surroundings of A.                                                  *)
LEMMA AGoesOn == ASSUME FleetInv, ForA(HostNext) PROVE TurnInv'
<1>0. HostNext /\ UNCHANGED <<workerVars, turn, hostB>>
  BY DEF ForA
<1>1. CASE turn = "A"
  <2>1. IInv' /\ DownInv'
    BY <1>0, <1>1, WorkerStays DEF FleetInv, TurnInv
  <2>2. SparesB
    BY <1>0, <2>1 DEF SparesB, IInv, TypeOK, HostTypeOK
  <2>3. Net!Left'
    BY <1>1, <2>2, BIsSpared DEF FleetInv, TurnInv
  <2>4. QED
    BY <1>0, <1>1, <2>1, <2>3 DEF TurnInv
<1>2. CASE turn = "B"
  <2>1. Left'
    BY <1>0, <1>2, HostGoesOn DEF FleetInv, TurnInv
  <2>2. SparesB
    BY <1>0, <2>1 DEF SparesB, Left, HostTypeOK
  <2>3. Net!IInv' /\ Net!DownInv'
    BY <1>0, <1>2, <2>2, BIsSpared DEF FleetInv, TurnInv
  <2>4. QED
    BY <1>0, <1>2, <2>1, <2>3 DEF TurnInv
<1>3. QED
  BY <1>1, <1>2 DEF FleetInv

(* The surroundings of B.                                                  *)
LEMMA BGoesOn == ASSUME FleetInv, ForB(B!HostNext) PROVE TurnInv'
<1>0. Net!HostNext /\ UNCHANGED <<workerVars, turn, hostA>>
  BY SameHost DEF ForB
<1>1. CASE turn = "B"
  <2>1. UNCHANGED Net!workerVars
    BY <1>0 DEF workerVars, passVars, dataVars, Net!workerVars, Net!passVars, Net!dataVars
  <2>2. Net!IInv' /\ Net!DownInv'
    BY <1>0, <1>1, <2>1, NetAssumptions, Net!WorkerStays DEF FleetInv, TurnInv
  <2>3. SparesA
    BY <1>0, <2>2 DEF SparesA, Net!IInv, Net!TypeOK, Net!HostTypeOK
  <2>4. Left'
    BY <1>1, <2>3, AIsSpared DEF FleetInv, TurnInv
  <2>5. QED
    BY <1>0, <1>1, <2>2, <2>4 DEF TurnInv
<1>2. CASE turn = "A"
  <2>1. Net!Left'
    BY <1>0, <1>2, NetAssumptions, Net!HostGoesOn DEF FleetInv, TurnInv
  <2>2. SparesA
    BY <1>0, <2>1 DEF SparesA, Net!Left, Net!HostTypeOK
  <2>3. IInv' /\ DownInv'
    BY <1>0, <1>2, <2>2, AIsSpared DEF FleetInv, TurnInv
  <2>4. QED
    BY <1>0, <1>2, <2>1, <2>3 DEF TurnInv
<1>3. QED
  BY <1>1, <1>2 DEF FleetInv

(* Steps that are about neither network.                                   *)
LEMMA BothSpared == ASSUME FleetInv, UNCHANGED <<vars, turn, hostB>> PROVE TurnInv'
<1>1. schedulable \subseteq Nodes
  BY DEF FleetInv, TurnInv, Left, IInv, TypeOK, HostTypeOK
<1>2. SparesA /\ SparesB /\ UNCHANGED workerVars
  BY <1>1 DEF SparesA, SparesB, vars, hostVars, nodeVars, hostA
<1>3. QED
  BY <1>2, AIsSpared, BIsSpared DEF FleetInv, TurnInv

(* Every step.                                                             *)
LEMMA FleetStep == ASSUME FleetInv, [FleetNext]_fleetVars PROVE FleetInv'
<1>1. TurnInv'
  BY AInTurn, BInTurn, AFails, BFails, AGoesOn, BGoesOn, BothSpared
  DEF FleetNext, WorkFails, UserChangesBundle, FleetRest, fleetVars
<1>2. turn' \in {"A", "B"}
  BY DEF FleetInv, FleetNext, WorkOnA, WorkOnB, WorkFails, ForA, ForB, UserChangesBundle,
         FleetRest, fleetVars
<1>3. bundle' \in [{"A", "B"} -> Bundles \cup {OwnBundle}] /\ upgrades' \in 0 .. MaxUpgrades
  BY FleetAssumption
  DEF FleetInv, FleetNext, WorkOnA, WorkOnB, WorkFails, ForA, ForB, UserChangesBundle, FleetRest,
      fleetVars
<1>4. QED
  BY <1>1, <1>2, <1>3 DEF FleetInv

(* B starts as A does.                                                     *)
LEMMA InitB == ASSUME FleetInit PROVE Net!Init
BY DEF FleetInit, B!Init, Net!Init, B!Created, Net!Created, B!Upgraded, Net!Upgraded, B!NoJob,
       Net!NoJob

(* The beginning: nobody has begun.                                        *)
LEMMA FleetStart == ASSUME FleetInit PROVE FleetInv
<1>1. IInv /\ DownInv
  BY AtFirst DEF FleetInit
<1>2. Net!IInv /\ Net!DownInv
  BY InitB, NetAssumptions, Net!AtFirst
<1>3. Net!Left
  BY <1>2, NetAssumptions, Net!WorkerLeaves
<1>4. QED
  BY <1>1, <1>3, FleetAssumption DEF FleetInit, FleetInv, TurnInv

(* So the invariant holds throughout.                                      *)
LEMMA FleetInvariant == FleetSpec => []FleetInv
<1>1. FleetInit => FleetInv
  BY FleetStart
<1>2. FleetInv /\ [FleetNext]_fleetVars => FleetInv'
  BY FleetStep
<1>3. QED
  BY <1>1, <1>2, PTL DEF FleetSpec

----------------------------------------------------------------------------
(* Theorems.                                                               *)

(* The variables of both networks and of the worker stay in their sets     *)
(* (network.go 61-92).                                                     *)
THEOREM FleetTypes == FleetSpec => []FleetTypeOK
<1>1. FleetInv => TypeOK
  BY Idle DEF FleetInv, TurnInv, Left, IInv, TypeOK
<1>2. FleetInv => Net!HostTypeOK
  BY DEF FleetInv, TurnInv, Net!Left, Net!IInv, Net!TypeOK
<1>3. Net!HostTypeOK => B!HostTypeOK
  BY DEF B!HostTypeOK, Net!HostTypeOK, B!Namespaces, Net!Namespaces, B!Phases, Net!Phases,
         B!Groups, Net!Groups, B!Bindings, Net!Bindings, B!Jobs, Net!Jobs
<1>4. FleetInv => FleetTypeOK
  BY <1>1, <1>2, <1>3 DEF FleetInv, FleetTypeOK
<1>5. QED
  BY <1>4, FleetInvariant, PTL

(* Whatever turns the worker takes: the FlannelConfig that is let go is    *)
(* clean, and no cleanup job meets an agent of its own network, also when  *)
(* a FlannelConfig is given another version bundle in the middle of a pass *)
(* (resource_set.go 230-241).                                              *)
THEOREM BothInOrder == FleetSpec => []EachInOrder
<1>1. ASSUME FleetInv PROVE EachInOrder
  <2>1. CASE turn = "A"
    <3>1. FinishedWith("A") => Clean
      BY <1>1, <2>1
      DEF FleetInv, TurnInv, IInv, OrderInv, ProgressInv, FinishedWith
    <3>2. CleanupAloneOnNodes /\ DeletedNetworkIsDown
      BY <1>1, <2>1
      DEF FleetInv, TurnInv, IInv, OrderInv, ContentInv, TornDownInv, DownInv, CleanupAloneOnNodes
    <3>3. B!CleanupAloneOnNodes /\ B!DeletedNetworkIsDown
      BY <1>1, <2>1
      DEF FleetInv, TurnInv, Net!Left, Net!ContentInv, Net!DeletedNetworkIsDown,
          B!DeletedNetworkIsDown, B!CleanupAloneOnNodes
    <3>4. QED
      BY <2>1, <3>1, <3>2, <3>3 DEF EachInOrder, FinishedWith
  <2>2. CASE turn = "B"
    <3>1. FinishedWith("B") => B!Clean
      BY <1>1, <2>2
      DEF FleetInv, TurnInv, Net!IInv, Net!OrderInv, Net!ProgressInv, Net!Clean, B!Clean,
          FinishedWith
    <3>2. B!CleanupAloneOnNodes /\ B!DeletedNetworkIsDown
      BY <1>1, <2>2
      DEF FleetInv, TurnInv, Net!IInv, Net!OrderInv, Net!ContentInv, Net!TornDownInv,
          Net!DownInv, Net!DeletedNetworkIsDown, B!DeletedNetworkIsDown, B!CleanupAloneOnNodes
    <3>3. CleanupAloneOnNodes /\ DeletedNetworkIsDown
      BY <1>1, <2>2
      DEF FleetInv, TurnInv, Left, ContentInv, CleanupAloneOnNodes
    <3>4. QED
      BY <2>2, <3>1, <3>2, <3>3 DEF EachInOrder, FinishedWith
  <2>3. QED
    BY <1>1, <2>1, <2>2 DEF FleetInv
<1>2. QED
  BY <1>1, FleetInvariant, PTL

----------------------------------------------------------------------------
(* Either network goes through its life cycle: while the worker is with it *)
(* as under a worker of its own, while the worker is with the other one on *)
(* its own.                                                                *)

(* How far A is depends on the worker only while it is with A.             *)
LEMMA StagesOfA ==
  /\ turn = "A" \/ pass # "create" => StageA = Stage
  /\ turn' = "A" \/ pass' # "create" => StageA' = Stage'
  /\ turn # "A" => StageA = LeftStage
  /\ turn' # "A" => StageA' = LeftStage'
BY DEF StageA, CreatesFor, Stage, LeftStage

(* The same is true of B.                                                  *)
LEMMA StagesOfB ==
  /\ turn = "B" \/ pass # "create" => StageB = Net!Stage
  /\ turn' = "B" \/ pass' # "create" => StageB' = Net!Stage'
  /\ turn # "B" => StageB = Net!LeftStage
  /\ turn' # "B" => StageB' = Net!LeftStage'
BY DEF StageB, CreatesFor, Net!Stage, Net!LeftStage

(* So a step of the life cycle under a worker of its own is one of A's ... *)
LEMMA WorkerMovesA ==
  ASSUME StageA = Stage, StageA' = Stage', [Lifecycle!Next]_(Lifecycle!vars)
  PROVE  [LifecycleA!Next]_(LifecycleA!vars)
BY DEF Lifecycle!Next, Lifecycle!vars, Lifecycle!Close, Lifecycle!StartCleaning,
       Lifecycle!StopCleaning, Lifecycle!AgentStarts, Lifecycle!AgentStops, Lifecycle!BridgeBuilt,
       Lifecycle!CleanerStarts, Lifecycle!CleanerSucceeds, LifecycleA!Next, LifecycleA!vars,
       LifecycleA!Close, LifecycleA!StartCleaning, LifecycleA!StopCleaning,
       LifecycleA!AgentStarts, LifecycleA!AgentStops, LifecycleA!BridgeBuilt,
       LifecycleA!CleanerStarts, LifecycleA!CleanerSucceeds

(* ... as is one that the network takes on its own;                        *)
LEMMA HostMovesA ==
  ASSUME StageA = LeftStage, StageA' = LeftStage', [LeftLifecycle!Next]_(LeftLifecycle!vars)
  PROVE  [LifecycleA!Next]_(LifecycleA!vars)
BY DEF LeftLifecycle!Next, LeftLifecycle!vars, LeftLifecycle!Close, LeftLifecycle!StartCleaning,
       LeftLifecycle!StopCleaning, LeftLifecycle!AgentStarts, LeftLifecycle!AgentStops,
       LeftLifecycle!BridgeBuilt, LeftLifecycle!CleanerStarts, LeftLifecycle!CleanerSucceeds,
       LifecycleA!Next, LifecycleA!vars, LifecycleA!Close, LifecycleA!StartCleaning,
       LifecycleA!StopCleaning, LifecycleA!AgentStarts, LifecycleA!AgentStops,
       LifecycleA!BridgeBuilt, LifecycleA!CleanerStarts, LifecycleA!CleanerSucceeds

(* and likewise for B.                                                     *)
LEMMA WorkerMovesB ==
  ASSUME StageB = Net!Stage, StageB' = Net!Stage', [Net!Lifecycle!Next]_(Net!Lifecycle!vars)
  PROVE  [LifecycleB!Next]_(LifecycleB!vars)
BY DEF Net!Lifecycle!Next, Net!Lifecycle!vars, Net!Lifecycle!Close, Net!Lifecycle!StartCleaning,
       Net!Lifecycle!StopCleaning, Net!Lifecycle!AgentStarts, Net!Lifecycle!AgentStops,
       Net!Lifecycle!BridgeBuilt, Net!Lifecycle!CleanerStarts, Net!Lifecycle!CleanerSucceeds,
       LifecycleB!Next, LifecycleB!vars, LifecycleB!Close, LifecycleB!StartCleaning,
       LifecycleB!StopCleaning, LifecycleB!AgentStarts, LifecycleB!AgentStops,
       LifecycleB!BridgeBuilt, LifecycleB!CleanerStarts, LifecycleB!CleanerSucceeds

(* The same for B, while the worker is elsewhere.                          *)
LEMMA HostMovesB ==
  ASSUME StageB = Net!LeftStage, StageB' = Net!LeftStage',
         [Net!LeftLifecycle!Next]_(Net!LeftLifecycle!vars)
  PROVE  [LifecycleB!Next]_(LifecycleB!vars)
BY DEF Net!LeftLifecycle!Next, Net!LeftLifecycle!vars, Net!LeftLifecycle!Close,
       Net!LeftLifecycle!StartCleaning, Net!LeftLifecycle!StopCleaning,
       Net!LeftLifecycle!AgentStarts, Net!LeftLifecycle!AgentStops, Net!LeftLifecycle!BridgeBuilt,
       Net!LeftLifecycle!CleanerStarts, Net!LeftLifecycle!CleanerSucceeds, LifecycleB!Next,
       LifecycleB!vars, LifecycleB!Close, LifecycleB!StartCleaning, LifecycleB!StopCleaning,
       LifecycleB!AgentStarts, LifecycleB!AgentStops, LifecycleB!BridgeBuilt,
       LifecycleB!CleanerStarts, LifecycleB!CleanerSucceeds

(* A step that is about neither A nor the turn is none of A's ...          *)
LEMMA AsideOfA ==
  ASSUME UNCHANGED <<hostA, CreatesFor("A")>>
  PROVE  [LifecycleA!Next]_(LifecycleA!vars)
BY DEF hostA, userVars, groupVars, loadVars, StageA, LifecycleA!vars

(* ... and so it is for B.                                                 *)
LEMMA AsideOfB ==
  ASSUME UNCHANGED <<hostB, CreatesFor("B")>>
  PROVE  [LifecycleB!Next]_(LifecycleB!vars)
BY DEF hostB, StageB, LifecycleB!vars

(* Every step of the fleet, seen from A.                                   *)
LEMMA StepOfA ==
  ASSUME FleetInv, [FleetNext]_fleetVars
  PROVE  [LifecycleA!Next]_(LifecycleA!vars)
<1>1. CASE WorkOnA
  <2>1. turn' = "A" /\ (turn = "A" \/ pass = "none") /\ Next
    BY <1>1 DEF WorkOnA, MayWorkOn, Next
  <2>2. IInv
    BY <1>1, TakesUpA DEF WorkOnA
  <2>3. [Lifecycle!Next]_(Lifecycle!vars)
    BY <2>1, <2>2, LifecycleStep
  <2>4. QED
    BY <2>1, <2>3, StagesOfA, WorkerMovesA
<1>2. CASE WorkOnB
  <2>1. UNCHANGED <<hostA, CreatesFor("A")>>
    BY <1>2 DEF WorkOnB, MayWorkOn, CreatesFor
  <2>2. QED
    BY <2>1, AsideOfA
<1>3. CASE turn = "A" /\ turn' = "A" /\ (CallFails \/ Crash \/ HostStep)
  <2>1. IInv /\ Next
    BY <1>3 DEF FleetInv, TurnInv, Next
  <2>2. QED
    BY <1>3, <2>1, StagesOfA, LifecycleStep, WorkerMovesA
<1>4. CASE turn # "A" /\ turn' = turn /\ HostNext
  <2>1. Left
    BY <1>4 DEF FleetInv, TurnInv
  <2>2. QED
    BY <1>4, <2>1, StagesOfA, LeftStep, HostMovesA
<1>5. CASE turn = "B" /\ turn' = "B" /\ UNCHANGED hostA
  BY <1>5, AsideOfA DEF CreatesFor
<1>6. CASE UNCHANGED <<hostA, turn, pass>>
  BY <1>6, AsideOfA DEF CreatesFor
<1>7. ForA(HostNext) => \/ turn = "A" /\ turn' = "A" /\ HostStep
                        \/ turn # "A" /\ turn' = turn /\ HostNext
  BY DEF ForA, HostStep
<1>8. ForB(B!HostNext) \/ UserChangesBundle \/ FleetRest \/ UNCHANGED fleetVars
        => UNCHANGED <<hostA, turn, pass>>
  BY DEF ForB, UserChangesBundle, FleetRest, fleetVars, vars, hostVars, nodeVars, hostA,
         workerVars, passVars
<1>9. QED
  BY <1>1, <1>2, <1>3, <1>4, <1>5, <1>6, <1>7, <1>8 DEF FleetNext, WorkFails

(* Every step of the fleet, seen from B.                                   *)
LEMMA StepOfB ==
  ASSUME FleetInv, [FleetNext]_fleetVars
  PROVE  [LifecycleB!Next]_(LifecycleB!vars)
<1>1. CASE WorkOnB
  <2>1. turn' = "B" /\ (turn = "B" \/ pass = "none") /\ Net!Next
    BY <1>1, SameOperator DEF WorkOnB, MayWorkOn, Net!Next
  <2>2. Net!IInv
    BY <1>1, TakesUpB DEF WorkOnB
  <2>3. [Net!Lifecycle!Next]_(Net!Lifecycle!vars)
    BY <2>1, <2>2, NetAssumptions, Net!LifecycleStep
  <2>4. QED
    BY <2>1, <2>3, StagesOfB, WorkerMovesB
<1>2. CASE WorkOnA
  <2>1. UNCHANGED <<hostB, CreatesFor("B")>>
    BY <1>2 DEF WorkOnA, MayWorkOn, CreatesFor
  <2>2. QED
    BY <2>1, AsideOfB
<1>3. CASE turn = "B" /\ turn' = "B" /\ (Net!CallFails \/ Net!Crash \/ Net!HostStep)
  <2>1. Net!IInv /\ Net!Next
    BY <1>3 DEF FleetInv, TurnInv, Net!Next
  <2>2. [Net!Lifecycle!Next]_(Net!Lifecycle!vars)
    BY <2>1, NetAssumptions, Net!LifecycleStep
  <2>3. QED
    BY <1>3, <2>2, StagesOfB, WorkerMovesB
<1>4. CASE turn # "B" /\ turn' = turn /\ Net!HostNext
  <2>1. Net!Left
    BY <1>4 DEF FleetInv, TurnInv
  <2>2. [Net!LeftLifecycle!Next]_(Net!LeftLifecycle!vars)
    BY <1>4, <2>1, NetAssumptions, Net!LeftStep
  <2>3. QED
    BY <1>4, <2>2, StagesOfB, HostMovesB
<1>5. CASE turn = "A" /\ turn' = "A" /\ UNCHANGED hostB
  BY <1>5, AsideOfB DEF CreatesFor
<1>6. CASE UNCHANGED <<hostB, turn, pass>>
  BY <1>6, AsideOfB DEF CreatesFor
<1>7. ForB(B!HostNext) => \/ turn = "B" /\ turn' = "B" /\ Net!HostStep
                          \/ turn # "B" /\ turn' = turn /\ Net!HostNext
  BY SameHost DEF ForB, Net!HostStep, workerVars, passVars, dataVars, Net!workerVars,
                  Net!passVars, Net!dataVars
<1>8. ForA(HostNext) \/ UserChangesBundle \/ FleetRest \/ UNCHANGED fleetVars
        => UNCHANGED <<hostB, turn, pass>>
  BY DEF ForA, UserChangesBundle, FleetRest, fleetVars, vars, workerVars, passVars
<1>9. QED
  BY <1>1, <1>2, <1>3, <1>4, <1>5, <1>6, <1>7, <1>8, SameFailures DEF FleetNext, WorkFails

(* Either of two FlannelConfigs under one worker goes through the life     *)
(* cycle of one that has a worker to itself: turns of the worker, a bundle *)
(* changed in the middle of a pass, failures and crashes add nothing to it *)
(* (network.go 61-92, resource_set.go 236-251).                            *)
THEOREM EachLifecycle == FleetSpec => EachImplementsLifecycle
<1>1. FleetInit => LifecycleA!Init
  BY LifecycleInit
  DEF FleetInit, Init, Lifecycle!Init, LifecycleA!Init, StageA, Stage, CreatesFor
<1>2. FleetInit => LifecycleB!Init
  <2>1. ASSUME FleetInit PROVE Net!Lifecycle!Init
    BY <2>1, InitB, NetAssumptions, Net!LifecycleInit
  <2>2. FleetInit => pass = "none"
    BY DEF FleetInit, Init
  <2>3. QED
    BY <2>1, <2>2, StagesOfB DEF Net!Lifecycle!Init, LifecycleB!Init
<1>3. FleetInv /\ [FleetNext]_fleetVars
        => [LifecycleA!Next]_(LifecycleA!vars) /\ [LifecycleB!Next]_(LifecycleB!vars)
  BY StepOfA, StepOfB
<1>4. QED
  BY <1>1, <1>2, <1>3, FleetInvariant, PTL
  DEF FleetSpec, EachImplementsLifecycle, LifecycleA!Spec, LifecycleB!Spec

----------------------------------------------------------------------------
(* A FlannelConfig of another version.  The worker is never in a pass of   *)
(* it, and its network is as it was found.                                 *)
ForeignInv ==
  upgrades = 0 =>
    /\ ~Owned("A") => (turn = "A" => pass = "none") /\ (churn = 0 => AsFound)
    /\ ~Owned("B") => (turn = "B" => pass = "none") /\ (churnB = 0 => Net!AsFound)

(* What was found stays: the worker does not take up what is not its own.  *)
LEMMA ForeignStep ==
  ASSUME FleetInv, ForeignInv, [FleetNext]_fleetVars
  PROVE  ForeignInv'
<1>0. HostTypeOK /\ Net!HostTypeOK /\ upgrades \in Nat
  BY FleetAssumption DEF FleetInv, TurnInv, Left, Net!Left, IInv, TypeOK, Net!IInv, Net!TypeOK
<1>1. CASE WorkOnA
  <2>1. upgrades = 0 => Owned("A")
    BY <1>1 DEF WorkOnA, MayWorkOn, Handles, Owned, ForeignInv
  <2>2. turn' = "A" /\ UNCHANGED <<bundle, upgrades, hostB>>
    BY <1>1 DEF WorkOnA
  <2>3. QED
    BY <2>1, <2>2 DEF ForeignInv, Owned, hostB, Net!AsFound
<1>2. CASE WorkOnB
  <2>1. upgrades = 0 => Owned("B")
    BY <1>2 DEF WorkOnB, MayWorkOn, Handles, Owned, ForeignInv
  <2>2. turn' = "B" /\ UNCHANGED <<bundle, upgrades, hostA>>
    BY <1>2 DEF WorkOnB
  <2>3. UNCHANGED <<churn, AsFound>>
    BY <2>2 DEF hostA, userVars, groupVars, loadVars, rbacVars, AsFound
  <2>4. QED
    BY <2>1, <2>2, <2>3 DEF ForeignInv, Owned
<1>3. CASE ForA(HostNext)
  <2>1. HostNext /\ UNCHANGED <<pass, turn, bundle, upgrades, hostB>>
    BY <1>3 DEF ForA, workerVars, passVars
  <2>2. churn' = 0 /\ AsFound => AsFound'
    BY <1>0, <2>1, FoundStays
  <2>3. churn' = 0 => churn = 0
    BY <1>0, <2>1, ChurnGrows
  <2>4. UNCHANGED <<churnB, Net!AsFound>>
    BY <2>1 DEF hostB, Net!AsFound
  <2>5. QED
    BY <2>1, <2>2, <2>3, <2>4 DEF ForeignInv, Owned
<1>4. CASE ForB(B!HostNext)
  <2>1. Net!HostNext /\ UNCHANGED <<pass, turn, bundle, upgrades, hostA>>
    BY <1>4, SameHost DEF ForB, workerVars, passVars
  <2>2. churnB' = 0 /\ Net!AsFound => Net!AsFound'
    BY <1>0, <2>1, NetAssumptions, Net!FoundStays
  <2>3. churnB' = 0 => churnB = 0
    BY <1>0, <2>1, NetAssumptions, Net!ChurnGrows
  <2>4. UNCHANGED <<churn, AsFound>>
    BY <2>1 DEF hostA, userVars, groupVars, loadVars, rbacVars, AsFound
  <2>5. QED
    BY <2>1, <2>2, <2>3, <2>4 DEF ForeignInv, Owned
<1>5. CASE UserChangesBundle
  <2>1. upgrades' # 0
    BY <1>0, <1>5 DEF UserChangesBundle
  <2>2. QED
    BY <2>1 DEF ForeignInv
<1>6. CASE WorkFails
  <2>1. pass # "none" /\ UNCHANGED <<turn, bundle, upgrades>>
    BY <1>6 DEF WorkFails, CallFails, Crash, B!CallFails, B!Crash
  <2>2. upgrades = 0 => Owned(turn)
    BY <2>1 DEF FleetInv, ForeignInv
  <2>3. UNCHANGED <<churn, churnB, AsFound, Net!AsFound>>
    <3>1. UNCHANGED <<hostA, hostB>>
      BY <1>6, <2>1 DEF WorkFails, CallFails, Crash, B!CallFails, B!Crash, hostVars, nodeVars,
         hostA, hostB, B!hostVars, B!userVars, B!groupVars, B!loadVars, B!rbacVars, B!nodeVars
    <3>2. QED
      BY <3>1 DEF hostA, hostB, userVars, groupVars, loadVars, rbacVars, AsFound, Net!AsFound
  <2>4. QED
    BY <2>1, <2>2, <2>3 DEF FleetInv, ForeignInv, Owned
<1>7. CASE UNCHANGED fleetVars
  <2>1. UNCHANGED <<pass, turn, bundle, upgrades, churn, churnB, AsFound, Net!AsFound>>
    BY <1>7 DEF fleetVars, vars, hostVars, userVars, groupVars, loadVars, rbacVars, workerVars,
                passVars, hostB, AsFound, Net!AsFound
  <2>2. QED
    BY <2>1 DEF ForeignInv, Owned
<1>8. QED
  BY <1>1, <1>2, <1>3, <1>4, <1>5, <1>6, <1>7 DEF FleetNext, FleetRest

(* A FlannelConfig that always belonged to another version of the operator *)
(* is left to it, also when it is deleted (resource_set.go 236-251).       *)
THEOREM ForeignIsLeft == FleetSpec => []ForeignUntouched
<1>1. ASSUME FleetInit PROVE ForeignInv
  <2>1. AsFound /\ pass = "none"
    BY <1>1, FoundAtFirst DEF FleetInit
  <2>2. Net!AsFound
    BY <1>1, InitB, NetAssumptions, Net!FoundAtFirst
  <2>3. QED
    BY <2>1, <2>2 DEF ForeignInv
<1>2. FleetInv /\ ForeignInv /\ [FleetNext]_fleetVars => ForeignInv'
  BY ForeignStep
<1>3. ForeignInv => ForeignUntouched
  BY DEF ForeignInv, ForeignUntouched, Net!AsFound, B!AsFound
<1>4. QED
  BY <1>1, <1>2, <1>3, FleetInvariant, PTL DEF FleetSpec
=============================================================================
