---------------------------- MODULE OverlapProofs ----------------------------
(***************************************************************************)
(* Proofs, for every set of nodes and configs and every bound, of what     *)
(* holds while two operator processes overlap and do not cross, and of     *)
(* what holds even if they do.                                             *)
(***************************************************************************)
EXTENDS Overlap, WorkerMoves

OldWorker == INSTANCE WorkerMoves WITH
  pass <- oldPass, step <- oldStep, object <- oldObject, stored <- oldStored,
  found <- oldFound, replicas <- oldReplicas, kept <- oldKept,
  attempts <- oldAttempts, faults <- oldFaults

----------------------------------------------------------------------------
(* The inductive invariant, in parts.                                      *)

(* Each worker is in order, a namespace that is gone is empty, and what    *)
(* has no finalizer has no network.                                        *)
EachInv ==
  /\ Shape /\ churn \in 0 .. MaxChurn
  /\ WorkerInv /\ OldWorker!WorkerInv
  /\ namespaces["network"] = "Absent" => daemonSets = {} /\ agents = {}
  /\ namespaces["destroyer"] = "Absent" => ~job.created
  /\ cr = "live" /\ ~finalizer
       => namespaces["network"] # "Active" /\ pass # "create" /\ oldPass # "create"

Apart == {pass, oldPass} # {"create", "delete"}

(* Nobody creates anything any more, and nobody ever will.                 *)
Closed == cr # "live" /\ pass # "create" /\ oldPass # "create"

(* A worker has waited, or a cleanup job is there or is still going: the   *)
(* network is gone for good.                                               *)
GoneInv ==
  HasWaited \/ OldWorker!HasWaited \/ namespaces["destroyer"] # "Absent"
    => Closed /\ namespaces["network"] = "Absent"

(* What may be released, or is, has no network.                            *)
ReleasedInv ==
  /\ MayRelease \/ OldWorker!MayRelease => namespaces["network"] # "Active"
  /\ cr = "gone" => Closed /\ namespaces["network"] # "Active"

OverlapInv == EachInv /\ (~crossed => Apart /\ GoneInv /\ ReleasedInv)

----------------------------------------------------------------------------
(* The old process runs the same code: what Overlap takes from an instance *)
(* of FlannelOperator is what WorkerMoves speaks of.                       *)

(* The beginning and the end of a pass.                                    *)
LEMMA SamePass ==
  ASSUME Old!AddFinalizer \/ Old!StartPass \/ Old!FinishPass
  PROVE  OldWorker!AddFinalizer \/ OldWorker!StartPass \/ OldWorker!FinishPass
BY DEF Old!AddFinalizer, OldWorker!AddFinalizer, Old!StartPass, OldWorker!StartPass,
       Old!FinishPass, OldWorker!FinishPass, Old!PutFinalizer, OldWorker!PutFinalizer,
       Old!EndPass, OldWorker!EndPass, Old!At, OldWorker!At, Old!ConfigEntry,
       OldWorker!ConfigEntry, Old!workerVars, OldWorker!workerVars, Old!passVars,
       OldWorker!passVars, Old!dataVars, OldWorker!dataVars, Old!userVars, OldWorker!userVars,
       Old!groupVars, OldWorker!groupVars, Old!loadVars, OldWorker!loadVars, Old!rbacVars,
       OldWorker!rbacVars, Old!nodeVars, OldWorker!nodeVars, Old!hostVars, OldWorker!hostVars

(* The networkconfig resource.                                             *)
LEMMA SameNetworkConfig == ASSUME Old!NetworkConfigNext PROVE OldWorker!NetworkConfigNext
BY DEF Old!PutConfig, OldWorker!PutConfig, Old!At, OldWorker!At, Old!Goto, OldWorker!Goto,
       Old!NextResource, OldWorker!NextResource, Old!KeepAndCancelResource,
       OldWorker!KeepAndCancelResource, Old!CancelReconciliation,
       OldWorker!CancelReconciliation, Old!EndPass, OldWorker!EndPass, Old!Retry,
       OldWorker!Retry, Old!GiveUp, OldWorker!GiveUp, Old!Fail, OldWorker!Fail, Old!RetryPoint,
       OldWorker!RetryPoint, Old!AfterResource, OldWorker!AfterResource, Old!ConfigEntry,
       OldWorker!ConfigEntry, Old!NamespaceEntry, OldWorker!NamespaceEntry, Old!LegacyEntry,
       OldWorker!LegacyEntry, Old!FlanneldEntry, OldWorker!FlanneldEntry, Old!ConfigSteps,
       OldWorker!ConfigSteps, Old!NamespaceSteps, OldWorker!NamespaceSteps, Old!GrantSteps,
       OldWorker!GrantSteps, Old!TearDownSteps, OldWorker!TearDownSteps, Old!SetupSteps,
       OldWorker!SetupSteps, Old!CleanUpSteps, OldWorker!CleanUpSteps, Old!LegacySteps,
       OldWorker!LegacySteps, Old!FlanneldSteps, OldWorker!FlanneldSteps, Old!dataVars,
       OldWorker!dataVars, Old!NetworkConfigNext, OldWorker!NetworkConfigNext, Old!GetConfig,
       OldWorker!GetConfig, Old!CreateConfig, OldWorker!CreateConfig, Old!ClearConfig,
       OldWorker!ClearConfig, Old!WriteConfig, OldWorker!WriteConfig, Old!DeleteConfig,
       OldWorker!DeleteConfig, Old!NeedsCreate, OldWorker!NeedsCreate, Old!NeedsUpdate,
       OldWorker!NeedsUpdate, Old!NeedsDelete, OldWorker!NeedsDelete, Old!StoreCreate,
       OldWorker!StoreCreate, Old!StoreDelete, OldWorker!StoreDelete, Old!userVars,
       OldWorker!userVars, Old!groupVars, OldWorker!groupVars, Old!loadVars,
       OldWorker!loadVars, Old!rbacVars, OldWorker!rbacVars, Old!nodeVars, OldWorker!nodeVars,
       Old!hostVars, OldWorker!hostVars

(* The namespace resource.                                                 *)
LEMMA SameNamespace == ASSUME Old!NamespaceNext PROVE OldWorker!NamespaceNext
BY DEF Old!PutNamespace, OldWorker!PutNamespace, Old!At, OldWorker!At, Old!Goto,
       OldWorker!Goto, Old!NextResource, OldWorker!NextResource, Old!KeepAndCancelResource,
       OldWorker!KeepAndCancelResource, Old!CancelReconciliation,
       OldWorker!CancelReconciliation, Old!EndPass, OldWorker!EndPass, Old!Retry,
       OldWorker!Retry, Old!GiveUp, OldWorker!GiveUp, Old!Fail, OldWorker!Fail, Old!RetryPoint,
       OldWorker!RetryPoint, Old!AfterResource, OldWorker!AfterResource, Old!ConfigEntry,
       OldWorker!ConfigEntry, Old!NamespaceEntry, OldWorker!NamespaceEntry, Old!LegacyEntry,
       OldWorker!LegacyEntry, Old!FlanneldEntry, OldWorker!FlanneldEntry, Old!ConfigSteps,
       OldWorker!ConfigSteps, Old!NamespaceSteps, OldWorker!NamespaceSteps, Old!GrantSteps,
       OldWorker!GrantSteps, Old!TearDownSteps, OldWorker!TearDownSteps, Old!SetupSteps,
       OldWorker!SetupSteps, Old!CleanUpSteps, OldWorker!CleanUpSteps, Old!LegacySteps,
       OldWorker!LegacySteps, Old!FlanneldSteps, OldWorker!FlanneldSteps, Old!dataVars,
       OldWorker!dataVars, Old!NamespaceNext, OldWorker!NamespaceNext, Old!GetNamespace,
       OldWorker!GetNamespace, Old!ListNamespacePods, OldWorker!ListNamespacePods,
       Old!CreateNamespace, OldWorker!CreateNamespace, Old!DeleteNamespace,
       OldWorker!DeleteNamespace, Old!userVars, OldWorker!userVars, Old!groupVars,
       OldWorker!groupVars, Old!loadVars, OldWorker!loadVars, Old!rbacVars, OldWorker!rbacVars,
       Old!nodeVars, OldWorker!nodeVars, Old!hostVars, OldWorker!hostVars

(* The flanneld resource.                                                  *)
LEMMA SameFlanneld == ASSUME Old!FlanneldNext PROVE OldWorker!FlanneldNext
BY DEF Old!PutDaemonSets, OldWorker!PutDaemonSets, Old!HasDaemonSet, OldWorker!HasDaemonSet,
       Old!WithoutDaemonSet, OldWorker!WithoutDaemonSet, Old!Accepts, OldWorker!Accepts,
       Old!At, OldWorker!At, Old!Goto, OldWorker!Goto, Old!NextResource,
       OldWorker!NextResource, Old!KeepAndCancelResource, OldWorker!KeepAndCancelResource,
       Old!CancelReconciliation, OldWorker!CancelReconciliation, Old!EndPass,
       OldWorker!EndPass, Old!Retry, OldWorker!Retry, Old!GiveUp, OldWorker!GiveUp, Old!Fail,
       OldWorker!Fail, Old!RetryPoint, OldWorker!RetryPoint, Old!AfterResource,
       OldWorker!AfterResource, Old!ConfigEntry, OldWorker!ConfigEntry, Old!NamespaceEntry,
       OldWorker!NamespaceEntry, Old!LegacyEntry, OldWorker!LegacyEntry, Old!FlanneldEntry,
       OldWorker!FlanneldEntry, Old!ConfigSteps, OldWorker!ConfigSteps, Old!NamespaceSteps,
       OldWorker!NamespaceSteps, Old!GrantSteps, OldWorker!GrantSteps, Old!TearDownSteps,
       OldWorker!TearDownSteps, Old!SetupSteps, OldWorker!SetupSteps, Old!CleanUpSteps,
       OldWorker!CleanUpSteps, Old!LegacySteps, OldWorker!LegacySteps, Old!FlanneldSteps,
       OldWorker!FlanneldSteps, Old!dataVars, OldWorker!dataVars, Old!FlanneldNext,
       OldWorker!FlanneldNext, Old!GetLegacyDaemonSet, OldWorker!GetLegacyDaemonSet,
       Old!ListAgentPods, OldWorker!ListAgentPods, Old!GetDaemonSet, OldWorker!GetDaemonSet,
       Old!CreateDaemonSet, OldWorker!CreateDaemonSet, Old!DeleteDaemonSet,
       OldWorker!DeleteDaemonSet, Old!userVars, OldWorker!userVars, Old!groupVars,
       OldWorker!groupVars, Old!loadVars, OldWorker!loadVars, Old!rbacVars, OldWorker!rbacVars,
       Old!nodeVars, OldWorker!nodeVars, Old!hostVars, OldWorker!hostVars

(* Nodes are counted alike.                                                *)
LEMMA SameCount == ASSUME NEW S PROVE Old!Cardinality(S) = OldWorker!Cardinality(S)
BY DEF Old!Cardinality, OldWorker!Cardinality

(* The legacy resource.                                                    *)
LEMMA SameLegacy == ASSUME Old!LegacyNext PROVE OldWorker!LegacyNext
BY SameCount
   DEF Old!PutNamespace, OldWorker!PutNamespace, Old!PutDaemonSets, OldWorker!PutDaemonSets,
       Old!PutAccounts, OldWorker!PutAccounts, Old!PutBindings, OldWorker!PutBindings,
       Old!PutJob, OldWorker!PutJob, Old!Accepts, OldWorker!Accepts, Old!WithoutDaemonSet,
       OldWorker!WithoutDaemonSet, Old!NewJob, OldWorker!NewJob, Old!At, OldWorker!At,
       Old!Goto, OldWorker!Goto, Old!NextResource, OldWorker!NextResource,
       Old!KeepAndCancelResource, OldWorker!KeepAndCancelResource, Old!CancelReconciliation,
       OldWorker!CancelReconciliation, Old!EndPass, OldWorker!EndPass, Old!Retry,
       OldWorker!Retry, Old!GiveUp, OldWorker!GiveUp, Old!Fail, OldWorker!Fail, Old!RetryPoint,
       OldWorker!RetryPoint, Old!AfterResource, OldWorker!AfterResource, Old!ConfigEntry,
       OldWorker!ConfigEntry, Old!NamespaceEntry, OldWorker!NamespaceEntry, Old!LegacyEntry,
       OldWorker!LegacyEntry, Old!FlanneldEntry, OldWorker!FlanneldEntry, Old!ConfigSteps,
       OldWorker!ConfigSteps, Old!NamespaceSteps, OldWorker!NamespaceSteps, Old!GrantSteps,
       OldWorker!GrantSteps, Old!TearDownSteps, OldWorker!TearDownSteps, Old!SetupSteps,
       OldWorker!SetupSteps, Old!CleanUpSteps, OldWorker!CleanUpSteps, Old!LegacySteps,
       OldWorker!LegacySteps, Old!FlanneldSteps, OldWorker!FlanneldSteps, Old!dataVars,
       OldWorker!dataVars, Old!LegacyNext, OldWorker!LegacyNext, Old!CountNodes, OldWorker!CountNodes, Old!CreateServiceAccount,
       OldWorker!CreateServiceAccount, Old!Bind, OldWorker!Bind, Old!Unbind, OldWorker!Unbind,
       Old!CreateAccount, OldWorker!CreateAccount, Old!BindNetwork, OldWorker!BindNetwork,
       Old!BindNetworkPsp, OldWorker!BindNetworkPsp, Old!ListNetworkPods,
       OldWorker!ListNetworkPods, Old!DeleteLegacyDaemonSet, OldWorker!DeleteLegacyDaemonSet,
       Old!DeleteAccount, OldWorker!DeleteAccount, Old!WaitForNamespaceDeleted,
       OldWorker!WaitForNamespaceDeleted, Old!WaitClusterNamespace,
       OldWorker!WaitClusterNamespace, Old!WaitNetworkNamespace,
       OldWorker!WaitNetworkNamespace, Old!CreateDestroyer, OldWorker!CreateDestroyer,
       Old!GetDestroyer, OldWorker!GetDestroyer, Old!BindDeletion, OldWorker!BindDeletion,
       Old!BindDeletionPsp, OldWorker!BindDeletionPsp, Old!CreateDestroyerAccount,
       OldWorker!CreateDestroyerAccount, Old!CreateJob, OldWorker!CreateJob, Old!WaitJob,
       OldWorker!WaitJob, Old!DeleteDestroyer, OldWorker!DeleteDestroyer, Old!UnbindDeletion,
       OldWorker!UnbindDeletion, Old!UnbindNetwork, OldWorker!UnbindNetwork,
       Old!UnbindNetworkPsp, OldWorker!UnbindNetworkPsp, Old!UnbindDeletionPsp,
       OldWorker!UnbindDeletionPsp, Old!userVars, OldWorker!userVars, Old!groupVars,
       OldWorker!groupVars, Old!loadVars, OldWorker!loadVars, Old!rbacVars, OldWorker!rbacVars,
       Old!nodeVars, OldWorker!nodeVars, Old!hostVars, OldWorker!hostVars

(* The assumptions on the constants are those of WorkerMoves.              *)
LEMMA OldAssumptions ==
  /\ OldWorker!IsFiniteSet(Nodes)
  /\ NoConfig \notin Configs /\ Unreadable \notin Configs \cup {NoConfig}
  /\ SharedDaemonSets \in BOOLEAN /\ MaxChurn \in Nat /\ MaxRetries \in Nat /\ MaxFaults \in Nat
BY HostAssumption, ReconcileAssumption
DEF HostAssumption, ReconcileAssumption, IsFiniteSet, OldWorker!IsFiniteSet

(* So the old worker does what the new one does.                           *)
LEMMA SameOperator == ASSUME Old!OperatorNext PROVE OldWorker!OperatorNext
BY SamePass, SameNetworkConfig, SameNamespace, SameLegacy, SameFlanneld
DEF Old!OperatorNext, OldWorker!OperatorNext

(* ... and moves as it moves.                                              *)
LEMMA OldMoves == ASSUME Shape, OldWorker!WorkerInv, Old!OperatorNext PROVE OldWorker!Move
<1>1. OldWorker!Shape
  BY DEF Shape, Phases, Namespaces, OldWorker!Shape, OldWorker!Phases, OldWorker!Namespaces
<1>2. QED
  BY <1>1, SameOperator, OldAssumptions, OldWorker!OperatorMoves

----------------------------------------------------------------------------
(* Types.                                                                  *)

(* Both workers see the same host cluster, before and after a step.        *)
LEMMA SameHostTypes ==
  /\ HostTypeOK <=> OldWorker!HostTypeOK
  /\ HostTypeOK' <=> OldWorker!HostTypeOK'
BY DEF HostTypeOK, OldWorker!HostTypeOK, Namespaces, OldWorker!Namespaces, Phases,
       OldWorker!Phases, Groups, OldWorker!Groups, Bindings, OldWorker!Bindings, Jobs,
       OldWorker!Jobs

(* ... and have variables of the same types.                               *)
LEMMA SameWorkerTypes ==
  /\ Old!WorkerTypeOK <=> OldWorker!WorkerTypeOK
  /\ Old!WorkerTypeOK' <=> OldWorker!WorkerTypeOK'
BY DEF Old!WorkerTypeOK, OldWorker!WorkerTypeOK, Old!Steps, OldWorker!Steps, Old!CallSteps,
       OldWorker!CallSteps, Old!ConfigSteps, OldWorker!ConfigSteps, Old!NamespaceSteps,
       OldWorker!NamespaceSteps, Old!LegacySteps, OldWorker!LegacySteps, Old!GrantSteps,
       OldWorker!GrantSteps, Old!TearDownSteps, OldWorker!TearDownSteps, Old!SetupSteps,
       OldWorker!SetupSteps, Old!CleanUpSteps, OldWorker!CleanUpSteps, Old!FlanneldSteps,
       OldWorker!FlanneldSteps

(* Every step keeps every variable in its set.                             *)
LEMMA TypesKept == ASSUME OverlapTypeOK, [OverlapNext]_overlapVars PROVE OverlapTypeOK'
<1>1. TypeOK' /\ Old!WorkerTypeOK'
  <2>0. TypeOK /\ HostTypeOK /\ WorkerTypeOK /\ Old!WorkerTypeOK
    BY DEF OverlapTypeOK, TypeOK
  <2>1. UNCHANGED oldVars => Old!WorkerTypeOK'
    BY <2>0 DEF oldVars, Old!WorkerTypeOK
  <2>2. UNCHANGED workerVars => WorkerTypeOK'
    BY <2>0, UnchangedWorkerType
  <2>3. CASE NewWorks
    BY <2>0, <2>1, <2>3, NextType DEF NewWorks, Next
  <2>4. CASE OldWorks
    <3>1. OldWorker!TypeOK /\ OldWorker!OperatorNext
      BY <2>0, <2>4, SameHostTypes, SameWorkerTypes, SameOperator DEF OldWorks, OldWorker!TypeOK
    <3>2. OldWorker!TypeOK'
      BY <3>1, OldAssumptions, OldWorker!NextType DEF OldWorker!Next
    <3>3. HostTypeOK' /\ Old!WorkerTypeOK'
      BY <3>2, SameHostTypes, SameWorkerTypes DEF OldWorker!TypeOK
    <3>4. QED
      BY <2>2, <2>4, <3>3 DEF OldWorks, TypeOK
  <2>5. CASE OldStops
    <3>1. TypeOK'
      BY <2>0, <2>5, UnchangedHostType, UnchangedWorkerType DEF OldStops, vars, TypeOK
    <3>2. OldWorker!EndPass /\ oldFaults' \in 0 .. MaxFaults
      BY <2>0, <2>5 DEF OldStops, Old!EndPass, OldWorker!EndPass, Old!WorkerTypeOK
    <3>3. Old!WorkerTypeOK'
      BY <3>2, OldAssumptions, OldWorker!EndPassType, SameWorkerTypes
    <3>4. QED
      BY <3>1, <3>3
  <2>6. CASE HostWorks
    BY <2>0, <2>1, <2>2, <2>6, HostNextType DEF HostWorks, ByItself, TypeOK
  <2>7. CASE UNCHANGED overlapVars
    BY <2>0, <2>1, <2>2, <2>7, UnchangedHostType DEF overlapVars, vars, TypeOK
  <2>8. QED
    BY <2>3, <2>4, <2>5, <2>6, <2>7 DEF OverlapNext, OverlapRest
<1>2. rollout' \in {"both", "new"} /\ {crossed', alone'} \subseteq BOOLEAN
  BY DEF OverlapTypeOK, OverlapNext, OldWorks, NewWorks, OldStops, HostWorks, ByItself,
         OverlapRest, Cross, overlapVars
<1>3. QED
  BY <1>1, <1>2 DEF OverlapTypeOK

(* The variables of both workers and of the host cluster stay in their     *)
(* sets, in every interleaving (helm/flannel-operator/templates/           *)
(* deployment.yaml).                                                       *)
THEOREM OverlapTypes == OverlapSpec => []OverlapTypeOK
<1>1. OverlapInit => OverlapTypeOK
  <2>1. OverlapInit => TypeOK
    BY InitType DEF OverlapInit
  <2>2. OverlapInit => Old!WorkerTypeOK
    <3>1. 0 \in 0 .. MaxRetries /\ 0 \in 0 .. MaxFaults /\ 0 \in Nat
      BY ReconcileAssumption
    <3>2. NoConfig \in Configs \cup {NoConfig} /\ "Idle" \in Old!Steps
      BY DEF Old!Steps
    <3>3. QED
      BY <3>1, <3>2 DEF OverlapInit, Old!WorkerTypeOK
  <2>3. QED
    BY <2>1, <2>2 DEF OverlapInit, OverlapTypeOK
<1>2. OverlapTypeOK /\ [OverlapNext]_overlapVars => OverlapTypeOK'
  BY TypesKept
<1>3. QED
  BY <1>1, <1>2, PTL DEF OverlapSpec

----------------------------------------------------------------------------
(* The steps preserve the invariant.                                       *)

(* A step of the new worker: the old one stays where it is, and what it    *)
(* has learnt stays true.                                                  *)
LEMMA NewKeeps == ASSUME OverlapInv, Move, UNCHANGED oldVars, Cross PROVE OverlapInv'
<1>1. /\ pass \in {"none", "create", "delete"} /\ oldPass \in {"none", "create", "delete"}
      /\ pass' \in {"none", "create", "delete"} /\ oldPass' = oldPass
  BY DEF OverlapInv, EachInv, WorkerInv, OldWorker!WorkerInv, Move, MovesOn, oldVars
<1>2. EachInv'
  <2>1. WorkerInv' /\ Shape' /\ churn' \in 0 .. MaxChurn
    BY DEF OverlapInv, EachInv, Move, MovesOn, ChangesHost
  <2>2. OldWorker!WorkerInv'
    BY DEF OverlapInv, EachInv, OldWorker!WorkerInv, Move, ChangesHost, oldVars
  <2>3. (namespaces["network"] = "Absent" => daemonSets = {} /\ agents = {})'
    BY DEF OverlapInv, EachInv, Move, ChangesHost
  <2>4. (namespaces["destroyer"] = "Absent" => ~job.created)'
    BY DEF OverlapInv, EachInv, Move, ChangesHost
  <2>5. (cr = "live" /\ ~finalizer
           => namespaces["network"] # "Active" /\ pass # "create" /\ oldPass # "create")'
    BY <1>1 DEF OverlapInv, EachInv, WorkerInv, Move, MovesOn, ChangesHost
  <2>6. QED
    BY <2>1, <2>2, <2>3, <2>4, <2>5 DEF EachInv
<1>3. ASSUME ~crossed' PROVE Apart' /\ GoneInv' /\ ReleasedInv'
  <2>1. ~crossed /\ Apart /\ GoneInv /\ ReleasedInv /\ Apart'
    BY <1>3 DEF Cross, OverlapInv, Apart
  <2>2. Closed => Closed'
    BY <1>1 DEF Closed, Move, MovesOn, ChangesHost
  <2>3. pass = "delete" => Closed
    BY <1>1, <2>1 DEF Closed, OverlapInv, EachInv, WorkerInv, Apart
  <2>4. HasWaited \/ MayRelease => pass = "delete"
    BY DEF HasWaited, MayRelease, OverlapInv, EachInv, WorkerInv, DeletesOnly
  <2>5. OldWorker!HasWaited' = OldWorker!HasWaited
        /\ OldWorker!MayRelease' = OldWorker!MayRelease
    BY DEF OldWorker!HasWaited, OldWorker!MayRelease, oldVars
  <2>6. OldWorker!MayRelease => oldPass = "delete"
    BY DEF OldWorker!MayRelease
  <2>7. Closed /\ namespaces["network"] = "Absent" => namespaces'["network"] = "Absent"
    BY DEF Closed, Move, ChangesHost
  <2>8. GoneInv'
    <3>1. HasWaited' => Closed'
      BY <1>1, <2>1 DEF HasWaited, Closed, Move, MovesOn, WorkerInv, DeletesOnly, Apart
    <3>2. QED
      BY <2>1, <2>2, <2>5, <2>7, <3>1 DEF GoneInv, Move, MovesOn, ChangesHost
  <2>9. oldPass = "delete" => Closed
    BY <1>1, <2>1 DEF Closed, OverlapInv, EachInv, OldWorker!WorkerInv, Apart
  <2>10. Closed /\ namespaces["network"] # "Active" => namespaces'["network"] # "Active"
    BY DEF Closed, Move, ChangesHost
  <2>11. ReleasedInv'
    <3>1. (MayRelease => namespaces["network"] # "Active")'
      BY <2>1, <2>3, <2>4, <2>7, <2>10 DEF ReleasedInv, GoneInv, Move, MovesOn, ChangesHost
    <3>2. (OldWorker!MayRelease => namespaces["network"] # "Active")'
      BY <2>1, <2>5, <2>6, <2>9, <2>10 DEF ReleasedInv
    <3>3. (cr = "gone" => Closed /\ namespaces["network"] # "Active")'
      BY <2>1, <2>2, <2>3, <2>4, <2>10 DEF ReleasedInv, Move, ChangesHost
    <3>4. QED
      BY <3>1, <3>2, <3>3 DEF ReleasedInv
  <2>12. QED
    BY <2>1, <2>8, <2>11
<1>4. QED
  BY <1>2, <1>3 DEF OverlapInv

(* Likewise a step of the old worker.                                      *)
LEMMA OldKeeps == ASSUME OverlapInv, OldWorker!Move, UNCHANGED workerVars, Cross PROVE OverlapInv'
<1>1. /\ oldPass \in {"none", "create", "delete"} /\ pass \in {"none", "create", "delete"}
      /\ oldPass' \in {"none", "create", "delete"} /\ pass' = pass
  BY DEF OverlapInv, EachInv, OldWorker!WorkerInv, WorkerInv, OldWorker!Move,
         OldWorker!MovesOn, workerVars, passVars
<1>2. EachInv'
  <2>1. OldWorker!WorkerInv' /\ Shape' /\ churn' \in 0 .. MaxChurn
    BY DEF OverlapInv, EachInv, OldWorker!Move, OldWorker!MovesOn, OldWorker!ChangesHost,
           Shape,
           Phases, Namespaces, OldWorker!Shape, OldWorker!Phases, OldWorker!Namespaces
  <2>2. WorkerInv'
    BY DEF OverlapInv, EachInv, WorkerInv, OldWorker!Move, OldWorker!ChangesHost, workerVars,
           passVars
  <2>3. (namespaces["network"] = "Absent" => daemonSets = {} /\ agents = {})'
    BY DEF OverlapInv, EachInv, OldWorker!Move, OldWorker!ChangesHost
  <2>4. (namespaces["destroyer"] = "Absent" => ~job.created)'
    BY DEF OverlapInv, EachInv, OldWorker!Move, OldWorker!ChangesHost
  <2>5. (cr = "live" /\ ~finalizer
           => namespaces["network"] # "Active" /\ oldPass # "create" /\ pass # "create")'
    BY <1>1
    DEF OverlapInv, EachInv, OldWorker!WorkerInv, OldWorker!Move, OldWorker!MovesOn,
        OldWorker!ChangesHost
  <2>6. QED
    BY <2>1, <2>2, <2>3, <2>4, <2>5 DEF EachInv
<1>3. ASSUME ~crossed' PROVE Apart' /\ GoneInv' /\ ReleasedInv'
  <2>1. ~crossed /\ Apart /\ GoneInv /\ ReleasedInv /\ Apart'
    BY <1>3 DEF Cross, OverlapInv, Apart
  <2>2. Closed => Closed'
    BY <1>1 DEF Closed, OldWorker!Move, OldWorker!MovesOn, OldWorker!ChangesHost
  <2>3. oldPass = "delete" => Closed
    BY <1>1, <2>1 DEF Closed, OverlapInv, EachInv, OldWorker!WorkerInv, Apart
  <2>4. OldWorker!HasWaited \/ OldWorker!MayRelease => oldPass = "delete"
    BY DEF OldWorker!HasWaited, OldWorker!MayRelease, OverlapInv, EachInv, OldWorker!WorkerInv,
           OldWorker!DeletesOnly
  <2>5. HasWaited' = HasWaited
        /\ MayRelease' = MayRelease
    BY DEF HasWaited, MayRelease, workerVars, passVars
  <2>6. MayRelease => pass = "delete"
    BY DEF MayRelease
  <2>7. Closed /\ namespaces["network"] = "Absent" => namespaces'["network"] = "Absent"
    BY DEF Closed, OldWorker!Move, OldWorker!ChangesHost
  <2>8. GoneInv'
    <3>1. OldWorker!HasWaited' => Closed'
      BY <1>1, <2>1
      DEF OldWorker!HasWaited, Closed, OldWorker!Move, OldWorker!MovesOn, OldWorker!WorkerInv,
          OldWorker!DeletesOnly, Apart
    <3>2. QED
      BY <2>1, <2>2, <2>5, <2>7, <3>1
      DEF GoneInv, OldWorker!Move, OldWorker!MovesOn, OldWorker!ChangesHost
  <2>9. pass = "delete" => Closed
    BY <1>1, <2>1 DEF Closed, OverlapInv, EachInv, WorkerInv, Apart
  <2>10. Closed /\ namespaces["network"] # "Active" => namespaces'["network"] # "Active"
    BY DEF Closed, OldWorker!Move, OldWorker!ChangesHost
  <2>11. ReleasedInv'
    <3>1. (OldWorker!MayRelease => namespaces["network"] # "Active")'
      BY <2>1, <2>3, <2>4, <2>7, <2>10
      DEF ReleasedInv, GoneInv, OldWorker!Move, OldWorker!MovesOn, OldWorker!ChangesHost
    <3>2. (MayRelease => namespaces["network"] # "Active")'
      BY <2>1, <2>5, <2>6, <2>9, <2>10 DEF ReleasedInv
    <3>3. (cr = "gone" => Closed /\ namespaces["network"] # "Active")'
      BY <2>1, <2>2, <2>3, <2>4, <2>10 DEF ReleasedInv, OldWorker!Move, OldWorker!ChangesHost
    <3>4. QED
      BY <3>1, <3>2, <3>3 DEF ReleasedInv
  <2>12. QED
    BY <2>1, <2>8, <2>11
<1>4. QED
  BY <1>2, <1>3 DEF OverlapInv

(* The old process is stopped: less is known of it, and less can go wrong. *)
LEMMA StopKeeps == ASSUME OverlapInv, OldStops PROVE OverlapInv'
<1>1. EachInv'
  BY DEF OverlapInv, OldStops, Old!EndPass, EachInv, OldWorker!WorkerInv, OldWorker!CreatesOnly,
         OldWorker!DeletesOnly, OldWorker!GrantSteps, OldWorker!TearDownSteps,
         OldWorker!SetupSteps, OldWorker!CleanUpSteps, WorkerInv, Shape, vars, hostVars, userVars,
         groupVars, loadVars, workerVars, passVars
<1>2. Apart'
  BY DEF OldStops, Old!EndPass, Apart
<1>3. ASSUME GoneInv, ReleasedInv PROVE GoneInv' /\ ReleasedInv'
  BY <1>3
  DEF OldStops, Old!EndPass, GoneInv, ReleasedInv, Closed, HasWaited, MayRelease,
      OldWorker!HasWaited, OldWorker!MayRelease, OldWorker!SetupSteps, OldWorker!CleanUpSteps,
      OldWorker!FlanneldSteps, vars, hostVars, userVars, groupVars, workerVars, passVars
<1>4. QED
  BY <1>1, <1>2, <1>3 DEF OverlapInv, OldStops

(* A step that leaves both workers and the phases of the network alone and *)
(* adds nothing to the host.                                               *)
LEMMA QuietKeeps ==
  ASSUME OverlapInv, UNCHANGED <<workerVars, oldVars, crossed, finalizer>>,
         Shape', churn' \in 0 .. MaxChurn,
         cr' = cr \/ (cr = "live" /\ cr' = IF finalizer THEN "deleting" ELSE "gone"),
         \/ namespaces'["network"] = namespaces["network"]
         \/ namespaces["network"] = "Active" /\ namespaces'["network"] = "Terminating"
         \/ namespaces["network"] = "Terminating" /\ namespaces'["network"] = "Absent",
         namespaces'["network"] = "Absent" => daemonSets' = {} /\ agents' = {},
         namespaces["destroyer"] = "Absent" => namespaces'["destroyer"] = "Absent",
         namespaces'["destroyer"] = "Absent" => ~job'.created
  PROVE  OverlapInv'
<1>1. EachInv'
  BY DEF OverlapInv, EachInv, WorkerInv, OldWorker!WorkerInv, workerVars, passVars, oldVars
<1>2. Apart' = Apart
  BY DEF Apart, workerVars, passVars, oldVars
<1>3. ASSUME GoneInv, ReleasedInv PROVE GoneInv' /\ ReleasedInv'
  BY <1>3
  DEF OverlapInv, EachInv, GoneInv, ReleasedInv, Closed, HasWaited, MayRelease,
      OldWorker!HasWaited, OldWorker!MayRelease, workerVars, passVars, oldVars
<1>4. QED
  BY <1>1, <1>2, <1>3 DEF OverlapInv

(* The host cluster goes on.                                               *)
LEMMA HostKeeps == ASSUME OverlapInv, HostWorks PROVE OverlapInv'
<1>0. EachInv /\ HostNext /\ UNCHANGED <<workerVars, oldVars, crossed>>
  BY DEF OverlapInv, HostWorks, ByItself
<1> USE QuietKeeps, HostAssumption, <1>0
    DEF EachInv, Shape, Namespaces, Phases, userVars, groupVars, loadVars
<1>1. CASE CollectAccount \/ CollectDaemonSets \/ CollectJob
  BY <1>1 DEF CollectAccount, PutAccounts, CollectDaemonSets, PutDaemonSets, CollectJob, PutJob,
              NoJob
<1>2. ASSUME NEW n \in Namespaces, RemoveNamespace(n) PROVE OverlapInv'
  BY <1>2 DEF RemoveNamespace, IsEmpty, PutNamespace
<1>3. ASSUME NEW n \in Nodes, AgentStarts(n) \/ AgentWritesEnvFile(n) \/ AgentBuildsBridge(n) \/ AgentStops(n)
      PROVE  OverlapInv'
  BY <1>3 DEF AgentStarts, AgentWritesEnvFile, AgentBuildsBridge, AgentStops
<1>4. ASSUME NEW n \in Nodes, JobPodStarts(n) \/ JobPodSucceeds(n) PROVE OverlapInv'
  BY <1>4 DEF JobPodStarts, PutJob, JobPodSucceeds
<1>5. CASE UserDeletes
  BY <1>5 DEF UserDeletes
<1>6. CASE UserChangesSpec \/ PodsAppear \/ PodsDrained \/ CordonChanges \/ ConfigSpoiled
  BY <1>6 DEF UserChangesSpec, PodsAppear, PodsDrained, CordonChanges, ConfigSpoiled, Disturb
<1>7. CASE ClusterNamespaceDeleted
  BY <1>7 DEF ClusterNamespaceDeleted, PutNamespace
<1>8. CASE NetworkNamespaceRemoved
  BY <1>8 DEF NetworkNamespaceRemoved, Disturb
<1>9. QED
  BY <1>1, <1>2, <1>3, <1>4, <1>5, <1>6, <1>7, <1>8 DEF HostNext, Controllers, Users

(* Every step preserves the invariant.                                     *)
LEMMA OverlapKeeps == ASSUME OverlapInv, [OverlapNext]_overlapVars PROVE OverlapInv'
<1>0. Shape /\ WorkerInv /\ OldWorker!WorkerInv
  BY DEF OverlapInv, EachInv
<1>1. CASE NewWorks
  BY <1>0, <1>1, OperatorMoves, NewKeeps DEF NewWorks
<1>2. CASE OldWorks
  BY <1>0, <1>2, OldMoves, OldKeeps DEF OldWorks
<1>3. CASE OldStops
  BY <1>3, StopKeeps
<1>4. CASE HostWorks
  BY <1>4, HostKeeps
<1>5. CASE UNCHANGED overlapVars
  BY <1>5, QuietKeeps
  DEF overlapVars, vars, hostVars, userVars, groupVars, loadVars, OverlapInv, EachInv, Shape
<1>6. QED
  BY <1>1, <1>2, <1>3, <1>4, <1>5 DEF OverlapNext, OverlapRest

(* Before the rollout nobody has begun a pass.                             *)
LEMMA OverlapStart == OverlapInit => OverlapInv
BY HostAssumption
DEF OverlapInit, Init, Created, Upgraded, NoJob, OverlapInv, EachInv, Apart, GoneInv, ReleasedInv,
    Closed, Shape, Namespaces, Phases, WorkerInv, HasWaited, MayRelease, CreatesOnly, DeletesOnly,
    GrantSteps, TearDownSteps, SetupSteps, CleanUpSteps, OldWorker!WorkerInv, OldWorker!HasWaited,
    OldWorker!MayRelease, OldWorker!CreatesOnly, OldWorker!DeletesOnly, OldWorker!GrantSteps,
    OldWorker!TearDownSteps, OldWorker!SetupSteps, OldWorker!CleanUpSteps

(* So the invariant always holds.                                         *)
LEMMA OverlapInvariant == OverlapSpec => []OverlapInv
BY OverlapStart, OverlapKeeps, PTL DEF OverlapSpec

(* Unless one worker creates while the other deletes, the cleanup job has  *)
(* the nodes to itself.                                                    *)
THEOREM AloneByBoth == OverlapSpec => []CleanupAloneUnlessCrossed
<1>1. OverlapInv => CleanupAloneUnlessCrossed
  BY DEF OverlapInv, EachInv, GoneInv, CleanupAloneUnlessCrossed, CleanupAloneOnNodes
<1>2. QED
  BY <1>1, OverlapInvariant, PTL

(* Whichever worker releases the FlannelConfig, in the middle of whatever  *)
(* the other does, its network is down or going.                           *)
THEOREM DownByBoth == OverlapSpec => []DownUnlessCrossed
<1>1. OverlapInv => DownUnlessCrossed
  BY DEF OverlapInv, ReleasedInv, DownUnlessCrossed, DeletedNetworkIsDown
<1>2. QED
  BY <1>1, OverlapInvariant, PTL

----------------------------------------------------------------------------
(* The life cycle of the network under two workers.                        *)

(* A worker, whichever, that does not cross the other.                     *)
LEMMA WorkersOnNetwork ==
  ASSUME OverlapInv, [OverlapNext]_overlapVars, ~HostWorks
  PROVE  /\ UNCHANGED <<agents, bridges>>
         /\ Down => Down'
         /\ \/ UNCHANGED job
            \/ (HasWaited \/ OldWorker!HasWaited) /\ ~job.created
               /\ job'.created /\ job'.running = {}
<1>0. Shape /\ WorkerInv /\ OldWorker!WorkerInv
  BY DEF OverlapInv, EachInv
<1>1. CASE NewWorks
  <2>1. Move /\ UNCHANGED oldPass
    BY <1>0, <1>1, OperatorMoves DEF NewWorks, oldVars
  <2>2. QED
    BY <2>1 DEF Move, MovesOn, ChangesHost, Down
<1>2. CASE OldWorks
  <2>1. OldWorker!Move /\ UNCHANGED pass
    BY <1>0, <1>2, OldMoves DEF OldWorks, workerVars, passVars
  <2>2. QED
    BY <2>1 DEF OldWorker!Move, OldWorker!MovesOn, OldWorker!ChangesHost, Down
<1>3. CASE OldStops
  BY <1>3
  DEF OldStops, Old!EndPass, Down, vars, hostVars, userVars, groupVars, loadVars, nodeVars,
      workerVars, passVars
<1>4. CASE UNCHANGED overlapVars
  BY <1>4
  DEF overlapVars, oldVars, Down, vars, hostVars, userVars, groupVars, loadVars, nodeVars,
      workerVars, passVars
<1>5. QED
  BY <1>1, <1>2, <1>3, <1>4 DEF OverlapNext, OverlapRest

(* The host cluster brings up no network that is down.                     *)
LEMMA HostOnNetwork ==
  ASSUME HostTypeOK, HostWorks
  PROVE  /\ Down => Down'
         /\ HostWorksOnBridges \/ UNCHANGED <<agents, job, bridges>>
BY HostEffect DEF HostWorks, ByItself, Down, workerVars, passVars, oldVars

(* Nothing brings back a network that is down, or a bridge of it: crossed  *)
(* or not, nobody starts to create for a deleted FlannelConfig.            *)
THEOREM DownForGood == OverlapSpec => DownStaysDown
<1>1. ASSUME OverlapTypeOK, OverlapInv, [OverlapNext]_overlapVars, Down
      PROVE  Down' /\ bridges' \subseteq bridges
  <2>1. CASE HostWorks
    <3>1. agents = {}
      BY <1>1 DEF Down, OverlapInv, EachInv
    <3>2. QED
      BY <1>1, <2>1, <3>1, HostOnNetwork DEF OverlapTypeOK, TypeOK, HostWorksOnBridges
  <2>2. CASE ~HostWorks
    BY <1>1, <2>2, WorkersOnNetwork
  <2>3. QED
    BY <2>1, <2>2
<1>2. OverlapTypeOK /\ OverlapInv /\ [OverlapNext]_overlapVars
        => [Down => Down' /\ bridges' \subseteq bridges]_overlapVars
  BY <1>1
<1>3. QED
  BY <1>2, OverlapTypes, OverlapInvariant, PTL DEF OverlapSpec, DownStaysDown

(* A job that is not there has no pods.                                    *)
JobInv == ~job.created => job.running = {}

(* Nobody gives it any.                                                    *)
LEMMA JobKept ==
  ASSUME OverlapTypeOK, OverlapInv, JobInv, [OverlapNext]_overlapVars
  PROVE  JobInv'
<1>1. CASE HostWorks
  BY <1>1, HostOnNetwork DEF OverlapTypeOK, TypeOK, HostWorksOnBridges, NoJob, JobInv
<1>2. CASE ~HostWorks
  BY <1>2, WorkersOnNetwork DEF JobInv
<1>3. QED
  BY <1>1, <1>2

(* Where there is a job, or a worker about to create one, the network is   *)
(* down.                                                                   *)
LEMMA JobMeansDown ==
  ASSUME OverlapInv, ~crossed
  PROVE  job.created \/ HasWaited \/ OldWorker!HasWaited => Down
BY DEF OverlapInv, EachInv, GoneInv, Closed, Down

(* A step that leaves agents, job and bridges alone is none of the life    *)
(* cycle, unless it closes the network.                                    *)
LEMMA SharedCalm ==
  ASSUME OverlapInv', Down => Down', UNCHANGED <<agents, job, bridges>>
  PROVE  [Shared!Next]_(Shared!vars)
<1>1. CASE ~job.created /\ ~Down /\ Down'
  <2>1. agents = {}
    BY <1>1 DEF Down, OverlapInv, EachInv
  <2>2. Shared!Close
    BY <1>1, <2>1 DEF SharedStage, Shared!Close
  <2>3. QED
    BY <2>2 DEF Shared!Next
<1>2. CASE job.created \/ Down \/ ~Down'
  BY <1>2 DEF SharedStage, Shared!vars
<1>3. QED
  BY <1>1, <1>2

(* What the host does to agents, job and bridges is a step of it.          *)
LEMMA SharedByHost ==
  ASSUME OverlapInv, ~crossed, JobInv, HostWorksOnBridges, UNCHANGED <<pass, oldPass>>
  PROVE  [Shared!Next]_(Shared!vars)
<1>1. UNCHANGED Down
  BY DEF HostWorksOnBridges, Down
<1> USE <1>1 DEF SharedStage, Shared!Next
<1>2. CASE namespaces["network"] = "Active" /\ UNCHANGED <<job, bridges>>
           /\ \E n \in Nodes : agents' = agents \cup {n}
  <2>1. SharedStage = "open"
    BY <1>2, JobMeansDown DEF Down
  <2>2. QED
    BY <1>2, <2>1 DEF Shared!AgentStarts
<1>3. ASSUME NEW n \in Nodes, agents' = agents \ {n}, UNCHANGED <<job, bridges>>
      PROVE  Shared!Next
  BY <1>3 DEF Shared!AgentStops
<1>4. ASSUME NEW n \in Nodes \cap agents, bridges' = bridges \cup {n}, UNCHANGED <<agents, job>>
      PROVE  Shared!Next
  BY <1>4 DEF Shared!BridgeBuilt
<1>5. ASSUME NEW n \in Nodes, job.created, job'.created, job'.running = job.running \cup {n},
             UNCHANGED <<agents, bridges>>
      PROVE  Shared!Next
  BY <1>5 DEF Shared!CleanerStarts
<1>6. ASSUME NEW n \in Nodes \cap job.running, job'.created = job.created,
             job'.running = job.running \ {n}, bridges' = bridges \ {n}, UNCHANGED agents
      PROVE  Shared!Next
  BY <1>6 DEF Shared!CleanerSucceeds
<1>7. CASE job.created /\ job' = NoJob /\ UNCHANGED <<agents, bridges>>
  <2>1. Down
    BY <1>7, JobMeansDown
  <2>2. QED
    BY <1>7, <2>1 DEF NoJob, Shared!StopCleaning
<1>8. QED
  BY <1>2, <1>3, <1>4, <1>5, <1>6, <1>7 DEF HostWorksOnBridges

(* So every step, unless the workers cross, is one of the life cycle or    *)
(* none.                                                                   *)
LEMMA SharedStep ==
  ASSUME OverlapTypeOK, OverlapInv, JobInv, [OverlapNext]_overlapVars, ~crossed'
  PROVE  [Shared!Next]_(Shared!vars)
<1>0. OverlapInv' /\ ~crossed
  <2>1. ~crossed
    BY DEF OverlapNext, OldWorks, NewWorks, OldStops, HostWorks, ByItself, OverlapRest, Cross,
           overlapVars
  <2>2. QED
    BY <2>1, OverlapKeeps
<1>1. CASE HostWorks
  <2>1. UNCHANGED <<pass, oldPass>>
    BY <1>1 DEF HostWorks, ByItself, workerVars, passVars, oldVars
  <2>2. QED
    BY <1>0, <1>1, <2>1, HostOnNetwork, SharedByHost, SharedCalm DEF OverlapTypeOK, TypeOK
<1>2. CASE ~HostWorks
  <2>1. CASE UNCHANGED job
    BY <1>0, <1>2, <2>1, WorkersOnNetwork, SharedCalm
  <2>2. CASE (HasWaited \/ OldWorker!HasWaited) /\ ~job.created
             /\ job'.created /\ job'.running = {} /\ UNCHANGED <<agents, bridges>>
    <3>1. SharedStage = "closed" /\ SharedStage' = "cleaning"
      BY <1>0, <2>2, JobMeansDown DEF SharedStage
    <3>2. Shared!StartCleaning
      BY <2>2, <3>1 DEF JobInv, Shared!StartCleaning
    <3>3. QED
      BY <3>2 DEF Shared!Next
  <2>3. QED
    BY <1>2, <2>1, <2>2, WorkersOnNetwork
<1>3. QED
  BY <1>1, <1>2

(* Unless one worker creates while the other deletes, the two of them and  *)
(* the end of either implement the life cycle that one alone implements.   *)
THEOREM LifecycleByBoth == OverlapSpec => LifecycleUnlessCrossed
<1>1. OverlapInit => JobInv /\ Shared!Init
  BY DEF OverlapInit, Init, Created, Upgraded, NoJob, JobInv, Shared!Init, SharedStage, Down
<1>2. OverlapTypeOK /\ OverlapInv /\ JobInv /\ [OverlapNext]_overlapVars
        => JobInv' /\ [crossed' \/ [Shared!Next]_(Shared!vars)]_overlapVars
  BY JobKept, SharedStep
<1>3. QED
  BY <1>1, <1>2, OverlapTypes, OverlapInvariant, PTL DEF OverlapSpec, LifecycleUnlessCrossed

----------------------------------------------------------------------------
(* Rights.  They can be lost when somebody removes the network namespace   *)
(* by hand and another worker creates it again, so they hold as long as    *)
(* nobody does.                                                            *)

NeverByHand == [][~NetworkNamespaceRemoved]_overlapVars

BothBound == {"network", "networkPsp"} \subseteq bindings

(* Both workers have granted what they think they have, the namespace does *)
(* not go while anything is created, and what runs has its rights.         *)
RightsInv ==
  /\ HasGranted /\ OldWorker!HasGranted
  /\ ~Closed => namespaces["network"] # "Terminating"
  /\ daemonSets # {} \/ agents # {} => BothBound
  /\ cr = "live" /\ daemonSets # {} => "network" \in accounts

BothInv == OverlapInv /\ (~crossed => RightsInv)

(* What the new worker does leaves the rights in place.                    *)
LEMMA NewKeepsRights ==
  ASSUME BothInv, Move, UNCHANGED oldVars, Cross, ~crossed'
  PROVE  RightsInv'
<1>1. EachInv /\ ~crossed /\ Apart /\ GoneInv /\ RightsInv
  BY DEF BothInv, OverlapInv, Cross
<1>2. /\ pass = "delete" \/ HasWaited => Closed
      /\ Closed => Closed'
  <2>1. pass = "delete" => Closed
    BY <1>1 DEF Closed, EachInv, WorkerInv, OldWorker!WorkerInv, Apart
  <2>2. QED
    BY <1>1, <2>1 DEF GoneInv, Closed, Move, MovesOn, ChangesHost, oldVars
<1>3. HasWaited => daemonSets = {} /\ agents = {} /\ namespaces["network"] = "Absent"
  BY <1>1 DEF GoneInv, EachInv
<1>4. HasGranted'
  BY <1>1 DEF RightsInv, Move, MovesOn
<1>5. OldWorker!HasGranted'
  <2>1. CASE Closed
    <3>1. oldPass' # "create"
      BY <1>2, <2>1 DEF Closed
    <3>2. oldStep' \notin {"BindNetwork", "BindNetworkPsp"}
      BY <1>1, <3>1 DEF EachInv, OldWorker!WorkerInv, OldWorker!CreatesOnly, OldWorker!GrantSteps,
                        oldVars
    <3>3. QED
      BY <3>1, <3>2 DEF OldWorker!HasGranted
  <2>2. CASE ~Closed
    <3>1. bindings \subseteq bindings' /\ accounts \subseteq accounts'
      BY <1>2, <2>2 DEF Move, ChangesHost
    <3>2. namespaces["network"] # "Absent" => namespaces'["network"] # "Absent"
      BY DEF Move, ChangesHost
    <3>3. QED
      BY <1>1, <3>1, <3>2 DEF RightsInv, OldWorker!HasGranted, oldVars
  <2>3. QED
    BY <2>1, <2>2
<1>6. ~Closed' => namespaces'["network"] # "Terminating"
  BY <1>1, <1>2 DEF RightsInv, Closed, Move, ChangesHost
<1>7. (daemonSets # {} \/ agents # {} => BothBound)'
  BY <1>1, <1>3 DEF RightsInv, BothBound, HasGranted, Move, ChangesHost
<1>8. (cr = "live" /\ daemonSets # {} => "network" \in accounts)'
  BY <1>1, <1>2 DEF RightsInv, Closed, HasGranted, Move, ChangesHost
<1>9. QED
  BY <1>4, <1>5, <1>6, <1>7, <1>8 DEF RightsInv

(* Likewise what the old worker does.                                      *)
LEMMA OldKeepsRights ==
  ASSUME BothInv, OldWorker!Move, UNCHANGED workerVars, Cross, ~crossed'
  PROVE  RightsInv'
<1>1. EachInv /\ ~crossed /\ Apart /\ GoneInv /\ RightsInv
  BY DEF BothInv, OverlapInv, Cross
<1>2. /\ oldPass = "delete" \/ OldWorker!HasWaited => Closed
      /\ Closed => Closed'
  <2>1. oldPass = "delete" => Closed
    BY <1>1 DEF Closed, EachInv, OldWorker!WorkerInv, WorkerInv, Apart
  <2>2. QED
    BY <1>1, <2>1
    DEF GoneInv, Closed, OldWorker!Move, OldWorker!MovesOn, OldWorker!ChangesHost, workerVars,
        passVars
<1>3. OldWorker!HasWaited => daemonSets = {} /\ agents = {} /\ namespaces["network"] = "Absent"
  BY <1>1 DEF GoneInv, EachInv
<1>4. OldWorker!HasGranted'
  BY <1>1 DEF RightsInv, OldWorker!Move, OldWorker!MovesOn
<1>5. HasGranted'
  <2>1. CASE Closed
    <3>1. pass' # "create"
      BY <1>2, <2>1 DEF Closed
    <3>2. step' \notin {"BindNetwork", "BindNetworkPsp"}
      BY <1>1, <3>1 DEF EachInv, WorkerInv, CreatesOnly, GrantSteps,
                        workerVars, passVars
    <3>3. QED
      BY <3>1, <3>2 DEF HasGranted
  <2>2. CASE ~Closed
    <3>1. bindings \subseteq bindings' /\ accounts \subseteq accounts'
      BY <1>2, <2>2 DEF OldWorker!Move, OldWorker!ChangesHost
    <3>2. namespaces["network"] # "Absent" => namespaces'["network"] # "Absent"
      BY DEF OldWorker!Move, OldWorker!ChangesHost
    <3>3. QED
      BY <1>1, <3>1, <3>2 DEF RightsInv, HasGranted, workerVars, passVars
  <2>3. QED
    BY <2>1, <2>2
<1>6. ~Closed' => namespaces'["network"] # "Terminating"
  BY <1>1, <1>2 DEF RightsInv, Closed, OldWorker!Move, OldWorker!ChangesHost
<1>7. (daemonSets # {} \/ agents # {} => BothBound)'
  BY <1>1, <1>3
  DEF RightsInv, BothBound, OldWorker!HasGranted, OldWorker!Move, OldWorker!ChangesHost
<1>8. (cr = "live" /\ daemonSets # {} => "network" \in accounts)'
  BY <1>1, <1>2 DEF RightsInv, Closed, OldWorker!HasGranted, OldWorker!Move, OldWorker!ChangesHost
<1>9. QED
  BY <1>4, <1>5, <1>6, <1>7, <1>8 DEF RightsInv

(* So does a step of anybody else that takes no bindings away, and the     *)
(* account only from a terminating namespace, where nobody creates.        *)
LEMMA QuietKeepsRights ==
  ASSUME EachInv, RightsInv, UNCHANGED <<workerVars, oldVars, bindings>>,
         cr' = "live" => cr = "live",
         "network" \in accounts => "network" \in accounts' \/ namespaces["network"] = "Terminating",
         \/ namespaces'["network"] = namespaces["network"]
         \/ namespaces["network"] = "Terminating" /\ namespaces'["network"] = "Absent",
         daemonSets' \subseteq daemonSets,
         agents' # {} => agents # {} \/ daemonSets # {}
  PROVE  RightsInv'
<1>1. Closed' \/ (~Closed /\ ~Closed')
  BY DEF Closed, workerVars, passVars, oldVars
<1>2. HasGranted' /\ OldWorker!HasGranted'
  <2>1. CASE Closed
    BY <2>1 DEF Closed, HasGranted, OldWorker!HasGranted, EachInv, WorkerInv,
                OldWorker!WorkerInv, CreatesOnly, OldWorker!CreatesOnly, GrantSteps,
                OldWorker!GrantSteps, workerVars, passVars, oldVars
  <2>2. CASE ~Closed
    BY <2>2 DEF RightsInv, HasGranted, OldWorker!HasGranted, workerVars, passVars, oldVars
  <2>3. QED
    BY <2>1, <2>2
<1>3. ~Closed' => namespaces'["network"] # "Terminating"
  BY <1>1 DEF RightsInv
<1>4. (daemonSets # {} \/ agents # {} => BothBound)'
  BY DEF RightsInv, BothBound
<1>5. (cr = "live" /\ daemonSets # {} => "network" \in accounts)'
  BY DEF RightsInv, Closed
<1>6. QED
  BY <1>2, <1>3, <1>4, <1>5 DEF RightsInv

(* The host cluster, as long as nobody removes the namespace by hand.      *)
LEMMA HostKeepsRights ==
  ASSUME ~NetworkNamespaceRemoved, EachInv, RightsInv, HostWorks
  PROVE  RightsInv'
<1>0. HostNext /\ UNCHANGED <<workerVars, oldVars>>
  BY DEF HostWorks, ByItself
<1> USE QuietKeepsRights, <1>0
    DEF Namespaces, userVars, groupVars, loadVars, rbacVars, EachInv, Shape
<1>1. CASE CollectAccount \/ CollectDaemonSets \/ CollectJob
  BY <1>1 DEF CollectAccount, PutAccounts, CollectDaemonSets, PutDaemonSets, CollectJob, PutJob
<1>2. ASSUME NEW n \in Namespaces, RemoveNamespace(n) PROVE RightsInv'
  BY <1>2 DEF RemoveNamespace, IsEmpty, PutNamespace
<1>3. ASSUME NEW n \in Nodes, AgentStarts(n) \/ AgentWritesEnvFile(n) \/ AgentBuildsBridge(n) \/ AgentStops(n)
      PROVE  RightsInv'
  BY <1>3 DEF AgentStarts, AgentWritesEnvFile, AgentBuildsBridge, AgentStops
<1>4. ASSUME NEW n \in Nodes, JobPodStarts(n) \/ JobPodSucceeds(n) PROVE RightsInv'
  BY <1>4 DEF JobPodStarts, PutJob, JobPodSucceeds
<1>5. CASE UserDeletes
  BY <1>5 DEF UserDeletes
<1>6. CASE UserChangesSpec \/ PodsAppear \/ PodsDrained \/ CordonChanges \/ ConfigSpoiled
  BY <1>6 DEF UserChangesSpec, PodsAppear, PodsDrained, CordonChanges, ConfigSpoiled
<1>7. CASE ClusterNamespaceDeleted
  BY <1>7 DEF ClusterNamespaceDeleted, PutNamespace
<1>8. QED
  BY <1>1, <1>2, <1>3, <1>4, <1>5, <1>6, <1>7 DEF HostNext, Controllers, Users

(* Every step keeps the rights in place.                                   *)
LEMMA RightsKept ==
  ASSUME BothInv, [OverlapNext]_overlapVars, [~NetworkNamespaceRemoved]_overlapVars
  PROVE  BothInv'
<1>0. Shape /\ WorkerInv /\ OldWorker!WorkerInv /\ EachInv
  BY DEF BothInv, OverlapInv, EachInv
<1>1. OverlapInv'
  BY OverlapKeeps DEF BothInv
<1>2. ASSUME ~crossed' PROVE RightsInv'
  <2>1. CASE NewWorks
    BY <1>0, <1>2, <2>1, OperatorMoves, NewKeepsRights DEF NewWorks
  <2>2. CASE OldWorks
    BY <1>0, <1>2, <2>2, OldMoves, OldKeepsRights DEF OldWorks
  <2>3. CASE OldStops
    BY <1>2, <2>3
    DEF BothInv, OldStops, Old!EndPass, RightsInv, BothBound, Closed, HasGranted,
        OldWorker!HasGranted, vars, hostVars, userVars, groupVars, loadVars, rbacVars, workerVars,
        passVars
  <2>4. CASE HostWorks /\ ~NetworkNamespaceRemoved
    <3>1. ~crossed
      BY <1>2, <2>4 DEF HostWorks, ByItself
    <3>2. QED
      BY <1>0, <2>4, <3>1, HostKeepsRights DEF BothInv
  <2>5. CASE UNCHANGED overlapVars
    BY <1>0, <1>2, <2>5, QuietKeepsRights
    DEF BothInv, overlapVars, vars, hostVars, userVars, groupVars, loadVars, rbacVars
  <2>6. QED
    BY <2>1, <2>2, <2>3, <2>4, <2>5 DEF OverlapNext, OverlapRest
<1>3. QED
  BY <1>1, <1>2 DEF BothInv

(* In the beginning nothing has been granted but what an upgrade found.    *)
LEMMA BothStart == OverlapInit => BothInv
BY OverlapStart
DEF OverlapInit, Init, Created, Upgraded, BothInv, RightsInv, BothBound, HasGranted, Closed,
    OldWorker!HasGranted

(* Unless one worker creates while the other deletes, or somebody removes  *)
(* the network namespace by hand, the daemon set and its pods have their   *)
(* rights, whichever worker grants them.                                   *)
THEOREM RightsByBoth == OverlapSpec /\ NeverByHand => []RightsUnlessCrossed
<1>1. BothInv => RightsUnlessCrossed
  BY DEF BothInv, RightsInv, BothBound, RightsUnlessCrossed, RightsBeforeUse
<1>2. BothInv /\ [OverlapNext]_overlapVars /\ [~NetworkNamespaceRemoved]_overlapVars
        => BothInv'
  BY RightsKept
<1>3. QED
  BY <1>1, <1>2, BothStart, PTL DEF OverlapSpec, NeverByHand

----------------------------------------------------------------------------
(* Pods.  Whether they cross or not, neither worker takes the network from *)
(* pods, as long as no pod comes back to a cluster that is being drained.  *)

StaysQuiet == [][NoReturn]_overlapVars

DrainedInv == EachInv /\ HasDrained /\ OldWorker!HasDrained

(* What both know of the pods stays true, whoever makes a step.            *)
LEMMA DrainedKept ==
  ASSUME OverlapInv, DrainedInv, [OverlapNext]_overlapVars, [NoReturn]_overlapVars
  PROVE  DrainedInv' /\ (cr # "live" /\ TakesDown => ~pods)
<1>0. Shape /\ WorkerInv /\ OldWorker!WorkerInv /\ EachInv'
  BY OverlapKeeps DEF OverlapInv, EachInv
<1>1. CASE NewWorks
  <2>1. Move /\ UNCHANGED oldVars
    BY <1>0, <1>1, OperatorMoves DEF NewWorks
  <2>2. HasDrained' /\ UNCHANGED pods /\ (TakesDown => pass = "delete" /\ step \in TakingSteps)
    BY <2>1 DEF Move, MovesOn, ChangesHost, DrainedInv
  <2>3. QED
    BY <1>0, <2>1, <2>2
    DEF DrainedInv, HasDrained, OldWorker!HasDrained, OldWorker!TakingSteps, oldVars
<1>2. CASE OldWorks
  <2>1. OldWorker!Move /\ UNCHANGED workerVars
    BY <1>0, <1>2, OldMoves DEF OldWorks
  <2>2. /\ OldWorker!HasDrained' /\ UNCHANGED pods
        /\ TakesDown => oldPass = "delete" /\ oldStep \in OldWorker!TakingSteps
    BY <2>1 DEF OldWorker!Move, OldWorker!MovesOn, OldWorker!ChangesHost, DrainedInv, TakesDown,
                OldWorker!TakesDown
  <2>3. QED
    BY <1>0, <2>1, <2>2
    DEF DrainedInv, HasDrained, OldWorker!HasDrained, TakingSteps, workerVars, passVars
<1>3. CASE OldStops
  BY <1>0, <1>3
  DEF OldStops, Old!EndPass, DrainedInv, HasDrained, OldWorker!HasDrained, TakesDown, vars,
      hostVars, userVars, groupVars, loadVars, workerVars, passVars
<1>4. CASE HostWorks /\ NoReturn
  <2>1. HostNext /\ UNCHANGED <<workerVars, oldVars>>
    BY <1>4 DEF HostWorks, ByItself
  <2>2. pods' => pods \/ cr = "live"
    BY <1>4, <2>1
    DEF NoReturn, HostNext, Controllers, CollectAccount, PutAccounts, CollectDaemonSets, PutDaemonSets,
        CollectJob, PutJob, RemoveNamespace, PutNamespace, AgentStarts, AgentWritesEnvFile, AgentBuildsBridge,
        AgentStops, JobPodStarts, JobPodSucceeds, Users, UserDeletes, UserChangesSpec, PodsAppear,
        PodsDrained, ClusterNamespaceDeleted, NetworkNamespaceRemoved, CordonChanges, ConfigSpoiled, groupVars
  <2>3. cr # "live" => ~TakesDown
    BY <1>0, <1>4, <2>1
    DEF NoReturn, TakesDown, Shape, HostNext, Controllers, CollectAccount, PutAccounts, CollectDaemonSets,
        PutDaemonSets, CollectJob, PutJob, RemoveNamespace, PutNamespace, AgentStarts,
        AgentWritesEnvFile, AgentBuildsBridge, AgentStops, JobPodStarts, JobPodSucceeds, Users, UserDeletes,
        UserChangesSpec, PodsAppear, PodsDrained, ClusterNamespaceDeleted,
        NetworkNamespaceRemoved, CordonChanges, ConfigSpoiled, groupVars, loadVars, Namespaces, Phases
  <2>4. QED
    BY <1>0, <2>1, <2>2, <2>3
    DEF DrainedInv, HasDrained, OldWorker!HasDrained, WorkerInv, OldWorker!WorkerInv, workerVars,
        passVars, oldVars
<1>5. CASE UNCHANGED overlapVars
  BY <1>0, <1>5
  DEF DrainedInv, HasDrained, OldWorker!HasDrained, TakesDown, overlapVars, vars, hostVars,
      groupVars, loadVars, workerVars, passVars, oldVars
<1>6. QED
  BY <1>1, <1>2, <1>3, <1>4, <1>5 DEF OverlapNext, OverlapRest

(* In the beginning no worker acts on anything.                            *)
LEMMA DrainedStart == OverlapInit => DrainedInv
BY OverlapStart DEF OverlapInit, Init, DrainedInv, OverlapInv, HasDrained, OldWorker!HasDrained

(* As long as no pod comes back, neither of two workers takes a network    *)
(* away from pods.                                                         *)
THEOREM DrainedByBoth == OverlapSpec /\ StaysQuiet => DrainBeforeTeardownByBoth
<1>1. OverlapInv /\ DrainedInv /\ [OverlapNext]_overlapVars /\ [NoReturn]_overlapVars
        => DrainedInv' /\ [cr # "live" /\ TakesDown => ~pods]_overlapVars
  BY DrainedKept
<1>2. QED
  BY <1>1, DrainedStart, OverlapInvariant, PTL DEF OverlapSpec, StaysQuiet, DrainBeforeTeardownByBoth

----------------------------------------------------------------------------
(* The worker that stays.  A pass that it has begun on its own it goes     *)
(* through on its own.                                                     *)
AloneInv == alone => rollout = "new" /\ FreshInv

(* The passes of the other worker are over, and those of its own begin new. *)
LEMMA AloneKept ==
  ASSUME OverlapTypeOK, OverlapInv, AloneInv, [OverlapNext]_overlapVars
  PROVE  AloneInv'
<1>0. TypeOK /\ HostTypeOK /\ WorkerInv
  BY DEF OverlapTypeOK, TypeOK, OverlapInv, EachInv
<1>1. CASE NewWorks
  <2>1. SUFFICES ASSUME alone' PROVE FreshInv' /\ rollout' = "new"
    BY DEF AloneInv
  <2>2. rollout' = "new" /\ (alone \/ pass = "none")
    BY <1>1, <2>1 DEF NewWorks
  <2>3. pass = "none" => FreshInv
    BY <1>0
    DEF WorkerInv, FreshInv, HasWaited, ProgressInv, UnbindSteps, ConfigSteps, SetupSteps,
        CleanUpSteps, FlanneldSteps
  <2>4. FreshInv /\ Next
    BY <1>1, <2>2, <2>3 DEF AloneInv, NewWorks, Next
  <2>5. QED
    BY <1>0, <2>2, <2>4, FreshStep
<1>2. CASE OldWorks \/ OldStops
  BY <1>2 DEF OldWorks, OldStops, AloneInv
<1>3. CASE HostWorks
  BY <1>0, <1>3, FreshHost DEF HostWorks, ByItself, AloneInv
<1>4. CASE UNCHANGED overlapVars
  <2>1. FreshInv => FreshInv'
    BY <1>0, <1>4, FreshStep DEF overlapVars
  <2>2. UNCHANGED <<alone, rollout>>
    BY <1>4 DEF overlapVars
  <2>3. QED
    BY <2>1, <2>2 DEF AloneInv
<1>5. QED
  BY <1>1, <1>2, <1>3, <1>4 DEF OverlapNext, OverlapRest

(* Whatever two workers have left behind, crossed or not, the one that     *)
(* stays does not take for deleted what is not: the first delete pass of   *)
(* its own that goes through leaves everything gone or going               *)
(* (helm/flannel-operator/templates/deployment.yaml, resource_set.go).     *)
THEOREM CleanByTheOneThatStays == OverlapSpec => []CleanOnceAlone
<1>1. OverlapInit => AloneInv
  BY DEF OverlapInit, AloneInv
<1>2. OverlapTypeOK /\ OverlapInv /\ AloneInv /\ [OverlapNext]_overlapVars => AloneInv'
  BY AloneKept
<1>3. AloneInv => CleanOnceAlone
  BY DEF AloneInv, FreshInv, ProgressInv, FinishedIsClean, CleanOnceAlone
<1>4. QED
  BY <1>1, <1>2, <1>3, OverlapTypes, OverlapInvariant, PTL DEF OverlapSpec
=============================================================================
