----------------------------- MODULE WorkerMoves -----------------------------
(***************************************************************************)
(* What one worker of FlannelOperator does in a step, told without its     *)
(* calls: how it moves on, and what it may change in the host cluster for  *)
(* everybody else.  Nothing is assumed of who else changes the host, so    *)
(* that OverlapProofs can use it for each of two workers.  In the end it   *)
(* is told what a worker gets done that has the network to itself, however *)
(* it found it.                                                            *)
(***************************************************************************)
EXTENDS FlannelOperatorProofs

CreatesOnly ==
  {"CreateConfig", "ClearConfig", "WriteConfig", "CreateNamespace", "CreateDaemonSet"}
    \cup GrantSteps

DeletesOnly ==
  {"DeleteConfig", "ListNamespacePods", "DeleteNamespace", "ListAgentPods", "DeleteDaemonSet"}
    \cup TearDownSteps \cup SetupSteps \cup CleanUpSteps

(* Each kind of pass has its steps, and only what is deleted is taken down.*)
WorkerInv ==
  /\ pass \in {"none", "create", "delete"}
  /\ (pass = "none") <=> (step = "Idle")
  /\ step \in CreatesOnly => pass = "create"
  /\ step \in DeletesOnly => pass = "delete"
  /\ pass = "delete" => cr # "live"

(* The worker has waited for the network namespace to be gone.             *)
HasWaited == step \in SetupSteps \cup CleanUpSteps

(* The worker may release the FlannelConfig without looking again.         *)
MayRelease ==
  /\ pass = "delete"
  /\ step = "Canceled" \/ (~kept /\ step \in FlanneldSteps \cup {"Finish"})

(* The worker creates, and the rights that it has granted are there.       *)
HasGranted ==
  /\ pass = "create" /\ step \in GrantSteps \cup FlanneldSteps => namespaces["network"] # "Absent"
  /\ step = "BindNetworkPsp" => "network" \in bindings
  /\ pass = "create" /\ step \in FlanneldSteps => {"network", "networkPsp"} \subseteq bindings
  /\ pass = "create" /\ step \in {"BindNetwork", "BindNetworkPsp"} \cup FlanneldSteps
       => "network" \in accounts

(* The worker has seen that the guest cluster has no pods, and acts on it. *)
TakingSteps == {"DeleteNamespace", "DeleteLegacyDaemonSet", "GetDaemonSet", "DeleteDaemonSet"}

HasDrained == pass = "delete" /\ step \in TakingSteps => ~pods

(* How the worker moves on.                                                *)
MovesOn ==
  /\ WorkerInv'
  /\ HasGranted => HasGranted'
  /\ HasDrained => HasDrained'
  /\ pass' = "create" => pass = "create" \/ (cr = "live" /\ finalizer)
  /\ HasWaited' => HasWaited \/ (namespaces["network"] = "Absent" /\ UNCHANGED namespaces)
  /\ MayRelease' =>
       \/ MayRelease \/ HasWaited
       \/ pass = "delete" /\ namespaces["network"] = "Terminating" /\ UNCHANGED namespaces

(* What it may change.                                                     *)
ChangesHost ==
  /\ UNCHANGED <<agents, bridges, churn, pods>>
  /\ TakesDown => pass = "delete" /\ step \in TakingSteps
  /\ \/ UNCHANGED <<cr, finalizer>>
     \/ cr = "live" /\ cr' = "live" /\ finalizer'
     \/ MayRelease /\ cr' = "gone"
  /\ \/ namespaces'["network"] = namespaces["network"]
     \/ pass = "create" /\ namespaces["network"] = "Absent" /\ namespaces'["network"] = "Active"
     \/ /\ pass = "delete"
        /\ namespaces["network"] # "Absent" /\ namespaces'["network"] = "Terminating"
  /\ namespaces["destroyer"] = "Absent" /\ namespaces'["destroyer"] # "Absent" => HasWaited
  /\ namespaces["destroyer"] # "Absent" => namespaces'["destroyer"] # "Absent"
  /\ \/ UNCHANGED job
     \/ HasWaited /\ namespaces["destroyer"] = "Active" /\ ~job.created
        /\ job'.created /\ job'.running = {}
  /\ \/ daemonSets' \subseteq daemonSets
     \/ /\ pass = "create" /\ step \in FlanneldSteps
        /\ namespaces["network"] = "Active" /\ UNCHANGED namespaces
  /\ bindings \subseteq bindings' \/ HasWaited
  /\ accounts \subseteq accounts' \/ pass = "delete"

Shape == namespaces \in [Namespaces -> Phases]

Move == Shape' /\ MovesOn /\ ChangesHost

(* A step that leaves the host alone changes nothing in it.                *)
LEMMA NothingChanged == ASSUME UNCHANGED hostVars PROVE ChangesHost /\ (Shape => Shape')
BY DEF ChangesHost, TakesDown, Shape, hostVars, userVars, groupVars, loadVars, rbacVars, nodeVars

(* An error, retried or not, leads to a step at which less is known.       *)
LEMMA FailureMoves ==
  ASSUME Shape, WorkerInv, Retry \/ GiveUp, UNCHANGED hostVars, pass # "none"
  PROVE  Move
<1>1. CASE Retry
  BY <1>1, NothingChanged
  DEF Move, MovesOn, WorkerInv, HasWaited, MayRelease, HasGranted, HasDrained, TakingSteps,
      CreatesOnly, DeletesOnly, Retry, RetryPoint, ConfigEntry, NamespaceEntry, LegacyEntry,
      FlanneldEntry, GrantSteps, TearDownSteps, SetupSteps, CleanUpSteps, LegacySteps,
      ConfigSteps, NamespaceSteps, FlanneldSteps, dataVars, hostVars, userVars, groupVars,
      rbacVars
<1>2. CASE GiveUp
  BY <1>2, NothingChanged
  DEF Move, MovesOn, WorkerInv, HasWaited, MayRelease, HasGranted, HasDrained, TakingSteps,
      CreatesOnly, DeletesOnly, GiveUp, EndPass, GrantSteps, TearDownSteps, SetupSteps,
      CleanUpSteps, FlanneldSteps
<1>3. QED
  BY <1>1, <1>2

(* The same for the error of a resource.                                   *)
LEMMA FailMoves == ASSUME Shape, WorkerInv, Fail, pass # "none" PROVE Move
BY FailureMoves DEF Fail

(* The beginning and the end of a pass.                                    *)
LEMMA PassMoves ==
  ASSUME Shape, WorkerInv, AddFinalizer \/ StartPass \/ FinishPass
  PROVE  Move
<1> USE DEF WorkerInv, HasWaited, MayRelease, HasGranted, HasDrained, TakingSteps, CreatesOnly,
            DeletesOnly, GrantSteps, TearDownSteps, SetupSteps, CleanUpSteps, FlanneldSteps
<1>1. CASE AddFinalizer
  BY <1>1 DEF AddFinalizer, PutFinalizer, Move, MovesOn, ChangesHost, TakesDown, Shape,
              workerVars, passVars, dataVars, groupVars, loadVars, rbacVars, nodeVars
<1>2. CASE StartPass
  BY <1>2, NothingChanged
  DEF StartPass, ConfigEntry, Move, MovesOn, hostVars, userVars, groupVars
<1>3. CASE FinishPass
  <2>1. MovesOn
    BY <1>3 DEF FinishPass, EndPass, MovesOn
  <2>2. CASE UNCHANGED hostVars
    BY <2>1, <2>2, NothingChanged DEF Move
  <2>3. CASE pass = "delete" /\ ~kept /\ PutFinalizer(FALSE, "gone")
    BY <1>3, <2>1, <2>3
    DEF FinishPass, At, PutFinalizer, Move, ChangesHost, TakesDown, Shape, groupVars, loadVars,
        rbacVars, nodeVars
  <2>4. QED
    BY <1>3, <2>2, <2>3 DEF FinishPass
<1>4. QED
  BY <1>1, <1>2, <1>3

(* The networkconfig resource changes only etcd.                           *)
LEMMA NetworkConfigMoves == ASSUME Shape, WorkerInv, NetworkConfigNext PROVE Move
<1> USE DEF At, Goto, NextResource, AfterResource, NamespaceEntry, LegacyEntry, FlanneldEntry,
            dataVars, userVars, groupVars, rbacVars, Move, MovesOn, WorkerInv, HasWaited,
            MayRelease, HasGranted, HasDrained, TakingSteps, CreatesOnly, DeletesOnly, GrantSteps,
            TearDownSteps, SetupSteps, CleanUpSteps, FlanneldSteps, ConfigSteps, NamespaceSteps,
            LegacySteps, hostVars, PutConfig
<1>0. ASSUME NEW c, PutConfig(c) PROVE ChangesHost /\ (Shape => Shape')
  BY <1>0 DEF ChangesHost, TakesDown, Shape, userVars, groupVars, loadVars, rbacVars, nodeVars
<1>1. CASE GetConfig
  <2>1. CASE Fail
    BY <1>1, <2>1, FailMoves DEF GetConfig
  <2>2. CASE ~Fail
    BY <1>1, <2>2, NothingChanged DEF GetConfig
  <2>3. QED
    BY <2>1, <2>2
<1>2. CASE CreateConfig
  BY <1>0, <1>2 DEF CreateConfig, StoreCreate
<1>3. CASE ClearConfig
  BY <1>0, <1>3, FailMoves DEF ClearConfig, StoreDelete
<1>4. CASE WriteConfig
  BY <1>0, <1>4 DEF WriteConfig, StoreCreate
<1>5. CASE DeleteConfig
  BY <1>0, <1>5, FailMoves DEF DeleteConfig, StoreDelete
<1>6. QED
  BY <1>1, <1>2, <1>3, <1>4, <1>5 DEF NetworkConfigNext

(* The namespace resource creates the network namespace in a create pass,  *)
(* and deletes it in a delete pass.                                        *)
LEMMA NamespaceMoves == ASSUME Shape, WorkerInv, NamespaceNext PROVE Move
<1> USE DEF At, Goto, NextResource, KeepAndCancelResource, CancelReconciliation, AfterResource,
            NamespaceEntry, LegacyEntry, FlanneldEntry, dataVars, userVars, groupVars, loadVars,
            rbacVars, nodeVars, Move, MovesOn, WorkerInv, HasWaited, MayRelease, HasGranted,
            HasDrained, TakingSteps, CreatesOnly, DeletesOnly, GrantSteps, TearDownSteps,
            SetupSteps, CleanUpSteps, FlanneldSteps, ConfigSteps, NamespaceSteps, LegacySteps,
            hostVars
<1>1. CASE GetNamespace
  BY <1>1, NothingChanged DEF GetNamespace, Shape, Phases, Namespaces
<1>2. CASE ListNamespacePods
  BY <1>2, NothingChanged DEF ListNamespacePods
<1>3. CASE CreateNamespace
  BY <1>3, NothingChanged
  DEF CreateNamespace, PutNamespace, ChangesHost, TakesDown, Shape, Phases, Namespaces
<1>4. CASE DeleteNamespace
  BY <1>4, NothingChanged, FailMoves
  DEF DeleteNamespace, PutNamespace, ChangesHost, TakesDown, Shape, Phases, Namespaces
<1>5. QED
  BY <1>1, <1>2, <1>3, <1>4 DEF NamespaceNext

(* The flanneld resource creates the daemon set in an active namespace and *)
(* in a create pass only.                                                  *)
LEMMA FlanneldMoves == ASSUME Shape, WorkerInv, FlanneldNext PROVE Move
<1> USE DEF At, Goto, NextResource, KeepAndCancelResource, AfterResource, NamespaceEntry,
            LegacyEntry, FlanneldEntry, dataVars, userVars, groupVars, loadVars, rbacVars, nodeVars,
            Move, MovesOn, WorkerInv, HasWaited, MayRelease, HasGranted, HasDrained, TakingSteps,
            CreatesOnly, DeletesOnly, GrantSteps, TearDownSteps, SetupSteps, CleanUpSteps,
            FlanneldSteps, ConfigSteps, NamespaceSteps, LegacySteps, hostVars
<1>1. CASE GetLegacyDaemonSet
  BY <1>1, NothingChanged DEF GetLegacyDaemonSet
<1>2. CASE ListAgentPods
  BY <1>2, NothingChanged DEF ListAgentPods
<1>3. CASE GetDaemonSet
  BY <1>3, NothingChanged DEF GetDaemonSet
<1>4. CASE CreateDaemonSet
  BY <1>4, FailMoves DEF CreateDaemonSet, Accepts, PutDaemonSets, ChangesHost, TakesDown, Shape
<1>5. CASE DeleteDaemonSet
  BY <1>5 DEF DeleteDaemonSet, WithoutDaemonSet, PutDaemonSets, ChangesHost, TakesDown, Shape
<1>6. QED
  BY <1>1, <1>2, <1>3, <1>4, <1>5 DEF FlanneldNext

(* The legacy resource grants rights in a create pass; in a delete pass it *)
(* takes them away, and sets up its job, only after it has waited.         *)
LEMMA LegacyMoves == ASSUME Shape, WorkerInv, LegacyNext PROVE Move
<1> USE DEF At, Goto, NextResource, KeepAndCancelResource, AfterResource, NamespaceEntry,
            LegacyEntry, FlanneldEntry, dataVars, userVars, groupVars, loadVars, rbacVars, nodeVars,
            Move, MovesOn, WorkerInv, HasWaited, MayRelease, HasGranted, HasDrained, TakingSteps,
            CreatesOnly, DeletesOnly, GrantSteps, TearDownSteps, SetupSteps, CleanUpSteps,
            FlanneldSteps, ConfigSteps, NamespaceSteps, LegacySteps, hostVars, Phases, Namespaces
<1>1. CASE CreateAccount
  BY <1>1, FailMoves
  DEF CreateAccount, CreateServiceAccount, Accepts, PutAccounts, ChangesHost, TakesDown, Shape
<1>2. CASE BindNetwork \/ BindNetworkPsp
  BY <1>2 DEF BindNetwork, BindNetworkPsp, Bind, PutBindings, ChangesHost, TakesDown, Shape
<1>3. CASE ListNetworkPods
  BY <1>3, NothingChanged DEF ListNetworkPods
<1>4. CASE DeleteLegacyDaemonSet
  BY <1>4 DEF DeleteLegacyDaemonSet, WithoutDaemonSet, PutDaemonSets, ChangesHost, TakesDown,
              Shape
<1>5. CASE DeleteAccount
  BY <1>5 DEF DeleteAccount, PutAccounts, ChangesHost, TakesDown, Shape
<1>6. CASE WaitClusterNamespace \/ WaitNetworkNamespace
  BY <1>6, NothingChanged, FailMoves
  DEF WaitClusterNamespace, WaitNetworkNamespace, WaitForNamespaceDeleted
<1>7. CASE CreateDestroyer
  BY <1>7, NothingChanged DEF CreateDestroyer, PutNamespace, ChangesHost, TakesDown, Shape
<1>8. CASE GetDestroyer
  BY <1>8, NothingChanged, FailMoves DEF GetDestroyer
<1>9. CASE BindDeletion \/ BindDeletionPsp
  BY <1>9 DEF BindDeletion, BindDeletionPsp, Bind, PutBindings, ChangesHost, TakesDown, Shape
<1>10. CASE CreateDestroyerAccount
  BY <1>10, FailMoves
  DEF CreateDestroyerAccount, CreateServiceAccount, PutAccounts, ChangesHost, TakesDown, Shape
<1>11. CASE CountNodes
  BY <1>11, NothingChanged DEF CountNodes
<1>12. CASE CreateJob
  BY <1>12, FailMoves DEF CreateJob, Accepts, PutJob, NewJob, ChangesHost, TakesDown, Shape
<1>13. CASE WaitJob
  BY <1>13, NothingChanged, FailMoves DEF WaitJob
<1>14. CASE DeleteDestroyer
  BY <1>14, NothingChanged, FailMoves
  DEF DeleteDestroyer, PutNamespace, ChangesHost, TakesDown, Shape
<1>15. CASE UnbindDeletion \/ UnbindNetwork \/ UnbindNetworkPsp \/ UnbindDeletionPsp
  BY <1>15
  DEF UnbindDeletion, UnbindNetwork, UnbindNetworkPsp, UnbindDeletionPsp, Unbind, PutBindings,
      ChangesHost, TakesDown, Shape
<1>16. QED
  BY <1>1, <1>2, <1>3, <1>4, <1>5, <1>6, <1>7, <1>8, <1>9, <1>10, <1>11, <1>12, <1>13,
     <1>14, <1>15
  DEF LegacyNext

(* Every step of the worker is a move.                                     *)
LEMMA OperatorMoves == ASSUME Shape, WorkerInv, OperatorNext PROVE Move
BY PassMoves, NetworkConfigMoves, NamespaceMoves, LegacyMoves, FlanneldMoves DEF OperatorNext

----------------------------------------------------------------------------
(* A worker that has the FlannelConfig to itself.  It may find the network *)
(* in whatever state: what a delete pass has achieved it has achieved      *)
(* itself, and nobody undoes it.                                           *)
FreshInv ==
  /\ WorkerInv
  /\ HasWaited => namespaces["network"] = "Absent"
  /\ step \in UnbindSteps => namespaces["destroyer"] # "Active"
  /\ ProgressInv

(* A step that leaves the host alone, and after which less is known.       *)
LEMMA FreshFailure ==
  ASSUME FreshInv, Retry \/ EndPass, UNCHANGED hostVars, pass # "none"
  PROVE  FreshInv'
<1> USE DEF FreshInv, WorkerInv, HasWaited, ProgressInv, Clean, CreatesOnly, DeletesOnly,
            UnbindSteps, ConfigSteps, NamespaceSteps, LegacySteps, GrantSteps, TearDownSteps,
            SetupSteps, CleanUpSteps, FlanneldSteps, hostVars, userVars, groupVars, rbacVars,
            dataVars
<1>1. CASE Retry
  BY <1>1 DEF Retry, RetryPoint, ConfigEntry, NamespaceEntry, LegacyEntry, FlanneldEntry
<1>2. CASE EndPass
  BY <1>2 DEF EndPass
<1>3. QED
  BY <1>1, <1>2

(* The error of a resource is such a step.                                 *)
LEMMA FreshFail == ASSUME FreshInv, Fail, pass # "none" PROVE FreshInv'
BY FreshFailure DEF Fail, GiveUp

(* The worker's own steps, pass by pass ...                                *)
LEMMA FreshPass ==
  ASSUME TypeOK, FreshInv, AddFinalizer \/ StartPass \/ FinishPass
  PROVE  FreshInv'
<1>1. Shape /\ WorkerInv'
  BY PassMoves DEF TypeOK, HostTypeOK, Shape, FreshInv, Move, MovesOn
<1> USE <1>1 DEF FreshInv, WorkerInv, HasWaited, ProgressInv, UnbindSteps, ConfigSteps,
            SetupSteps, CleanUpSteps, FlanneldSteps
<1>2. CASE AddFinalizer
  BY <1>2 DEF AddFinalizer, PutFinalizer, workerVars, passVars, groupVars, rbacVars
<1>3. CASE StartPass
  BY <1>3 DEF StartPass, ConfigEntry
<1>4. CASE FinishPass
  BY <1>4 DEF FinishPass, EndPass
<1>5. QED
  BY <1>2, <1>3, <1>4

(* ... and resource by resource.                                           *)
LEMMA FreshResources ==
  ASSUME TypeOK, FreshInv, NetworkConfigNext \/ NamespaceNext \/ LegacyNext \/ FlanneldNext
  PROVE  FreshInv'
<1>0. Shape /\ WorkerInv' /\ MovesOn /\ ChangesHost /\ bindings \subseteq Bindings
  BY NetworkConfigMoves, NamespaceMoves, LegacyMoves, FlanneldMoves
  DEF TypeOK, HostTypeOK, Shape, FreshInv, Move, MovesOn
<1>1. (HasWaited => namespaces["network"] = "Absent")'
  BY <1>0 DEF MovesOn, ChangesHost, FreshInv, WorkerInv, HasWaited, DeletesOnly
<1> USE <1>0 DEF FreshInv, WorkerInv, HasWaited, ProgressInv, Clean, CreatesOnly, DeletesOnly,
            UnbindSteps, ConfigSteps, NamespaceSteps, LegacySteps, GrantSteps, TearDownSteps,
            SetupSteps, CleanUpSteps, FlanneldSteps, hostVars, userVars, groupVars, rbacVars,
            dataVars, At, Goto, NextResource, KeepAndCancelResource, AfterResource,
            NamespaceEntry, LegacyEntry, FlanneldEntry, Shape, Namespaces
<1>2. CASE NetworkConfigNext
  <2>1. CASE GetConfig
    <3>1. CASE Fail
      BY <2>1, <3>1, FreshFail DEF GetConfig
    <3>2. CASE ~Fail
      BY <2>1, <3>2 DEF GetConfig, NeedsDelete
    <3>3. QED
      BY <3>1, <3>2
  <2>2. CASE CreateConfig \/ WriteConfig
    BY <2>2 DEF CreateConfig, WriteConfig, StoreCreate, PutConfig
  <2>3. CASE ClearConfig \/ DeleteConfig
    BY <2>3, FreshFail DEF ClearConfig, DeleteConfig, StoreDelete, PutConfig
  <2>4. QED
    BY <1>2, <2>1, <2>2, <2>3 DEF NetworkConfigNext
<1>3. CASE NamespaceNext
  <2>1. CASE GetNamespace \/ ListNamespacePods
    BY <2>1 DEF GetNamespace, ListNamespacePods, CancelReconciliation
  <2>2. CASE CreateNamespace \/ DeleteNamespace
    BY <2>2, FreshFail DEF CreateNamespace, DeleteNamespace, PutNamespace
  <2>3. QED
    BY <1>3, <2>1, <2>2 DEF NamespaceNext
<1>4. CASE FlanneldNext
  BY <1>4, FreshFail
  DEF FlanneldNext, GetLegacyDaemonSet, ListAgentPods, GetDaemonSet, CreateDaemonSet,
      DeleteDaemonSet, PutDaemonSets
<1>5. CASE LegacyNext
  <2>1. CASE CreateAccount \/ CreateDestroyerAccount \/ DeleteAccount
    BY <2>1, FreshFail
    DEF CreateAccount, CreateDestroyerAccount, DeleteAccount, CreateServiceAccount, PutAccounts
  <2>2. CASE BindNetwork \/ BindNetworkPsp \/ BindDeletion \/ BindDeletionPsp
    BY <2>2 DEF BindNetwork, BindNetworkPsp, BindDeletion, BindDeletionPsp, Bind, PutBindings
  <2>3. CASE ListNetworkPods \/ DeleteLegacyDaemonSet \/ CountNodes
    BY <2>3 DEF ListNetworkPods, DeleteLegacyDaemonSet, CountNodes, PutDaemonSets
  <2>4. CASE WaitClusterNamespace \/ WaitNetworkNamespace \/ GetDestroyer \/ WaitJob
    BY <2>4, FreshFail
    DEF WaitClusterNamespace, WaitNetworkNamespace, WaitForNamespaceDeleted, GetDestroyer, WaitJob
  <2>5. CASE CreateDestroyer
    BY <2>5 DEF CreateDestroyer, PutNamespace
  <2>6. CASE CreateJob
    BY <2>6, FreshFail DEF CreateJob, PutJob
  <2>7. CASE DeleteDestroyer
    BY <2>7, FreshFail DEF DeleteDestroyer, PutNamespace
  <2>8. CASE UnbindDeletion \/ UnbindNetwork \/ UnbindNetworkPsp
    BY <2>8 DEF UnbindDeletion, UnbindNetwork, UnbindNetworkPsp, Unbind, PutBindings
  <2>9. CASE UnbindDeletionPsp
    BY <2>9 DEF UnbindDeletionPsp, Unbind, PutBindings, Bindings
  <2>10. QED
    BY <1>5, <2>1, <2>2, <2>3, <2>4, <2>5, <2>6, <2>7, <2>8, <2>9 DEF LegacyNext
<1>6. QED
  BY <1>0, <1>1, <1>2, <1>3, <1>4, <1>5

(* The host cluster undoes none of it.                                     *)
LEMMA FreshHost == ASSUME TypeOK, FreshInv, HostNext, UNCHANGED workerVars PROVE FreshInv'
<1>1. HostTypeOK
  BY DEF TypeOK
<1>2. UNCHANGED bindings
  BY DEF HostNext, Controllers, Users, CollectAccount, PutAccounts, CollectDaemonSets,
         PutDaemonSets, CollectJob, PutJob, RemoveNamespace, PutNamespace, AgentStarts,
         AgentWritesEnvFile, AgentBuildsBridge, AgentStops, JobPodStarts, JobPodSucceeds, UserDeletes,
         UserChangesSpec, PodsAppear, PodsDrained, ClusterNamespaceDeleted,
         NetworkNamespaceRemoved, CordonChanges, ConfigSpoiled, rbacVars
<1>3. QED
  BY <1>1, <1>2, HostEffect, HostBringsNothing
  DEF FreshInv, WorkerInv, HasWaited, ProgressInv, Clean, workerVars, passVars

(* So every step preserves what the pass has achieved.                     *)
LEMMA FreshStep == ASSUME TypeOK, FreshInv, [Next]_vars PROVE FreshInv'
<1>1. CASE OperatorNext
  BY <1>1, FreshPass, FreshResources DEF OperatorNext
<1>2. CASE CallFails \/ Crash
  BY <1>2, FreshFailure DEF CallFails, Crash, GiveUp
<1>3. CASE HostStep
  BY <1>3, FreshHost DEF HostStep
<1>4. CASE UNCHANGED vars
  BY <1>4 DEF vars, hostVars, userVars, groupVars, rbacVars, workerVars, passVars, FreshInv,
              WorkerInv, HasWaited, ProgressInv, Clean
<1>5. QED
  BY <1>1, <1>2, <1>3, <1>4 DEF Next, Rest

(* A worker that has just come up, with the network in any state at all,   *)
(* also one that no worker would have left behind ...                      *)
AnyNetwork == TypeOK /\ pass = "none" /\ step = "Idle"

(* ... does not call it a deleted one before everything is gone: what      *)
(* FinishedIsClean says of delete passes needs no history of the network,  *)
(* only a pass from the beginning (networkconfig, namespace and legacy     *)
(* resources, in the order of resource_set.go).                            *)
THEOREM CleanFromAnywhere == AnyNetwork /\ [][Next]_vars => []FinishedIsClean
<1>1. AnyNetwork => TypeOK /\ FreshInv
  BY DEF AnyNetwork, FreshInv, WorkerInv, HasWaited, ProgressInv, CreatesOnly, DeletesOnly,
         UnbindSteps, ConfigSteps, GrantSteps, TearDownSteps, SetupSteps, CleanUpSteps,
         FlanneldSteps
<1>2. TypeOK /\ FreshInv /\ [Next]_vars => TypeOK' /\ FreshInv'
  BY NextType, FreshStep
<1>3. FreshInv => FinishedIsClean
  BY DEF FreshInv, ProgressInv, FinishedIsClean
<1>4. QED
  BY <1>1, <1>2, <1>3, PTL
=============================================================================
