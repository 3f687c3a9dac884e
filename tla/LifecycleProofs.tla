--------------------------- MODULE LifecycleProofs ---------------------------
(***************************************************************************)
(* From the end of a network to what others may rely on.  The operator     *)
(* implements NetworkLifecycle: the initial states map to initial states,  *)
(* and every step to a step of the life cycle or to none.  A FlannelConfig *)
(* that is gone has no network; nothing is taken away from a guest cluster *)
(* that is still drained, unless pods come back to it, and nothing from a  *)
(* pod of the cleanup job that is still at work, unless nodes are cordoned *)
(* meanwhile.  Last, what is true of a network that its worker has left    *)
(* for another one.                                                        *)
(***************************************************************************)
EXTENDS FlannelOperatorProofs

----------------------------------------------------------------------------
(* The life cycle.                                                         *)

(* Steps that touch neither agents nor cleaners nor bridges, at which the  *)
(* FlannelConfig stays as it is, the network namespace neither appears nor *)
(* disappears, and no pass starts.                                         *)
Calm ==
  /\ UNCHANGED <<cr, agents, job, bridges>>
  /\ pass' = pass \/ pass' = "none"
  /\ namespaces'["network"] = "Absent" <=> namespaces["network"] = "Absent"

(* A calm step is no step of the life cycle, unless it is the end of the   *)
(* last create pass, which closes the network.                             *)
LEMMA CalmStep == ASSUME IInv, Calm PROVE [Lifecycle!Next]_Lifecycle!vars
<1>1. CASE Stage' = Stage
  BY <1>1 DEF Calm, Lifecycle!vars
<1>2. CASE Stage' # Stage
  <2>1. Stage = "open" /\ Stage' = "closed" /\ namespaces["network"] = "Absent"
    BY <1>2 DEF Calm, Stage
  <2>2. agents = {}
    BY <2>1 DEF IInv, OrderInv, ContentInv
  <2>3. Lifecycle!Close
    BY <2>1, <2>2 DEF Calm, Lifecycle!Close
  <2>4. QED
    BY <2>3 DEF Lifecycle!Next
<1>3. QED
  BY <1>1, <1>2

(* Failures, retried or not, and ends of passes that leave the host        *)
(* cluster alone are calm.                                                 *)
LEMMA FailureCalm ==
  ASSUME Retry \/ GiveUp \/ EndPass, UNCHANGED hostVars
  PROVE  Calm
BY DEF Retry, GiveUp, EndPass, Calm, hostVars, userVars, groupVars, loadVars, nodeVars

(* The error of a resource is calm.                                        *)
LEMMA FailCalm == ASSUME Fail PROVE Calm
BY FailureCalm DEF Fail

(* The networkconfig resource touches etcd only.                           *)
LEMMA NetworkConfigCalm == ASSUME NetworkConfigNext PROVE Calm
<1> USE DEF Calm, hostVars, userVars, groupVars, loadVars, nodeVars, Goto, NextResource,
            PutConfig, StoreCreate, StoreDelete
<1>1. CASE GetConfig
  <2>1. CASE Fail
    BY <2>1, FailCalm
  <2>2. CASE ~Fail
    BY <1>1, <2>2 DEF GetConfig
  <2>3. QED
    BY <2>1, <2>2
<1>2. CASE CreateConfig
  BY <1>2 DEF CreateConfig
<1>3. CASE ClearConfig
  BY <1>3, FailCalm DEF ClearConfig
<1>4. CASE WriteConfig
  BY <1>4 DEF WriteConfig
<1>5. CASE DeleteConfig
  BY <1>5, FailCalm DEF DeleteConfig
<1>6. QED
  BY <1>1, <1>2, <1>3, <1>4, <1>5 DEF NetworkConfigNext

(* The flanneld resource changes the daemon set; agents follow later.      *)
LEMMA FlanneldCalm == ASSUME FlanneldNext PROVE Calm
<1> USE DEF Calm, hostVars, userVars, groupVars, loadVars, nodeVars, Goto, NextResource,
            KeepAndCancelResource, PutDaemonSets
<1>1. CASE GetLegacyDaemonSet
  BY <1>1 DEF GetLegacyDaemonSet
<1>2. CASE ListAgentPods
  BY <1>2 DEF ListAgentPods
<1>3. CASE GetDaemonSet
  BY <1>3 DEF GetDaemonSet
<1>4. CASE CreateDaemonSet
  BY <1>4, FailCalm DEF CreateDaemonSet
<1>5. CASE DeleteDaemonSet
  BY <1>5 DEF DeleteDaemonSet
<1>6. QED
  BY <1>1, <1>2, <1>3, <1>4, <1>5 DEF FlanneldNext

(* The namespace resource creates the network namespace in create passes   *)
(* only, so that the network was open before.                              *)
LEMMA NamespaceStep == ASSUME IInv, NamespaceNext PROVE [Lifecycle!Next]_Lifecycle!vars
<1> USE DEF Goto, NextResource, KeepAndCancelResource, CancelReconciliation, PutNamespace,
            hostVars, userVars, groupVars, loadVars, nodeVars
<1>1. CASE GetNamespace
  <2>1. Calm
    BY <1>1 DEF GetNamespace, Calm
  <2>2. QED
    BY <2>1, CalmStep
<1>2. CASE ListNamespacePods
  <2>1. Calm
    BY <1>2 DEF ListNamespacePods, Calm
  <2>2. QED
    BY <2>1, CalmStep
<1>3. CASE CreateNamespace
  <2>1. pass = "create" /\ pass' = pass
    BY <1>3 DEF CreateNamespace, At, IInv, OrderInv, PassInv, TypeOK, WorkerTypeOK, DeleteSteps,
                TearDownSteps, SetupSteps, CleanUpSteps
  <2>2. ~job.created
    BY <2>1 DEF IInv, OrderInv, ContentInv, TornDownInv
  <2>3. UNCHANGED <<job, agents, bridges>>
    BY <1>3 DEF CreateNamespace
  <2>4. QED
    BY <2>1, <2>2, <2>3 DEF Stage, Lifecycle!vars
<1>4. CASE DeleteNamespace
  <2>1. namespaces \in [Namespaces -> Phases]
    BY DEF IInv, TypeOK, HostTypeOK
  <2>2. Calm
    BY <1>4, <2>1, FailCalm DEF DeleteNamespace, Calm, Namespaces
  <2>3. QED
    BY <2>2, CalmStep
<1>5. QED
  BY <1>1, <1>2, <1>3, <1>4 DEF NamespaceNext

(* The job is created when the network namespace is gone in a delete pass, *)
(* that is, in a closed network.                                           *)
LEMMA CreateJobStep == ASSUME IInv, CreateJob PROVE [Lifecycle!Next]_Lifecycle!vars
<1>1. CASE Accepts("destroyer") /\ PutJob(IF job.created THEN job ELSE NewJob(replicas))
           /\ Goto("WaitJob")
  <2>1. CASE job.created
    <3>1. Calm
      BY <1>1, <2>1 DEF Calm, PutJob, Goto, userVars, groupVars, nodeVars
    <3>2. QED
      BY <3>1, CalmStep
  <2>2. CASE ~job.created
    <3>1. pass = "delete" /\ cr = "deleting" /\ namespaces["network"] = "Absent"
      BY DEF CreateJob, At, IInv, OrderInv, PassInv, TornDownInv, TypeOK, WorkerTypeOK,
             CreateSteps, GrantSteps, SetupSteps
    <3>2. Stage = "closed"
      BY <2>2, <3>1 DEF Stage
    <3>3. job' = NewJob(replicas) /\ UNCHANGED <<agents, bridges>>
      BY <1>1, <2>2 DEF PutJob, nodeVars
    <3>4. job'.created /\ job'.running = {}
      BY <3>3 DEF NewJob
    <3>5. job.running = {}
      BY <2>2 DEF IInv, OrderInv, ContentInv
    <3>6. Lifecycle!StartCleaning
      BY <3>2, <3>3, <3>4, <3>5 DEF Stage, Lifecycle!StartCleaning
    <3>7. QED
      BY <3>6 DEF Lifecycle!Next
  <2>3. QED
    BY <2>1, <2>2
<1>2. CASE Fail
  BY <1>2, FailCalm, CalmStep
<1>3. QED
  BY <1>1, <1>2 DEF CreateJob

(* The other calls of the legacy resource are calm.  Creating and deleting *)
(* the destroyer namespace is no step of the life cycle: the job is.       *)
LEMMA LegacyStep == ASSUME IInv, LegacyNext PROVE [Lifecycle!Next]_Lifecycle!vars
<1> USE DEF Calm, hostVars, userVars, groupVars, loadVars, nodeVars, Goto, NextResource,
            KeepAndCancelResource
<1>1. CASE CreateJob
  BY <1>1, CreateJobStep
<1>2. CASE CreateAccount \/ BindNetwork \/ BindNetworkPsp
  <2>1. Calm
    BY <1>2, FailCalm DEF CreateAccount, CreateServiceAccount, PutAccounts,
                          BindNetwork, BindNetworkPsp, Bind, PutBindings
  <2>2. QED
    BY <2>1, CalmStep
<1>3. CASE ListNetworkPods \/ DeleteLegacyDaemonSet \/ DeleteAccount
  <2>1. Calm
    BY <1>3 DEF ListNetworkPods, DeleteLegacyDaemonSet, PutDaemonSets, DeleteAccount, PutAccounts
  <2>2. QED
    BY <2>1, CalmStep
<1>4. CASE WaitClusterNamespace \/ WaitNetworkNamespace \/ WaitJob \/ CountNodes
  <2>1. Calm
    BY <1>4, FailCalm DEF WaitClusterNamespace, WaitNetworkNamespace, WaitForNamespaceDeleted,
                          WaitJob, CountNodes
  <2>2. QED
    BY <2>1, CalmStep
<1>5. CASE CreateDestroyer \/ GetDestroyer \/ DeleteDestroyer
  <2>1. namespaces \in [Namespaces -> Phases] /\ "network" \in Namespaces
    BY DEF IInv, TypeOK, HostTypeOK, Namespaces
  <2>2. Calm
    BY <1>5, <2>1, FailCalm DEF CreateDestroyer, GetDestroyer, DeleteDestroyer, PutNamespace
  <2>3. QED
    BY <2>2, CalmStep
<1>6. CASE BindDeletion \/ BindDeletionPsp \/ CreateDestroyerAccount
  <2>1. Calm
    BY <1>6, FailCalm DEF BindDeletion, BindDeletionPsp, Bind, PutBindings,
                          CreateDestroyerAccount, CreateServiceAccount, PutAccounts
  <2>2. QED
    BY <2>1, CalmStep
<1>7. CASE UnbindDeletion \/ UnbindNetwork \/ UnbindNetworkPsp \/ UnbindDeletionPsp
  <2>1. Calm
    BY <1>7 DEF UnbindDeletion, UnbindNetwork, UnbindNetworkPsp, UnbindDeletionPsp,
                Unbind, PutBindings
  <2>2. QED
    BY <2>1, CalmStep
<1>8. QED
  BY <1>1, <1>2, <1>3, <1>4, <1>5, <1>6, <1>7 DEF LegacyNext

(* The controllers, agents and cleanup pods.                               *)
LEMMA ControllersStep ==
  ASSUME IInv, Controllers, UNCHANGED workerVars
  PROVE  [Lifecycle!Next]_Lifecycle!vars
<1> USE DEF userVars, groupVars, loadVars, nodeVars, workerVars, passVars
<1>1. CASE CollectAccount \/ CollectDaemonSets
  <2>1. Calm
    BY <1>1 DEF CollectAccount, PutAccounts, CollectDaemonSets, PutDaemonSets, Calm
  <2>2. QED
    BY <2>1, CalmStep
<1>2. CASE CollectJob
  <2>1. job.created /\ job' = NoJob /\ UNCHANGED <<cr, namespaces, agents, bridges, pass>>
    BY <1>2 DEF CollectJob, PutJob
  <2>2. namespaces["network"] = "Absent" /\ cr # "live" /\ pass # "create"
    BY <2>1 DEF IInv, OrderInv, ContentInv, TornDownInv
  <2>3. Lifecycle!StopCleaning
    BY <2>1, <2>2 DEF Lifecycle!StopCleaning, Stage, NoJob
  <2>4. QED
    BY <2>3 DEF Lifecycle!Next
<1>3. ASSUME NEW n \in Namespaces, RemoveNamespace(n) PROVE [Lifecycle!Next]_Lifecycle!vars
  <2>1. UNCHANGED <<cr, job, agents, bridges, pass>>
    BY <1>3 DEF RemoveNamespace, PutNamespace
  <2>2. namespaces' = [namespaces EXCEPT ![n] = "Absent"] /\ namespaces[n] = "Terminating"
    BY <1>3 DEF RemoveNamespace, PutNamespace
  <2>3. namespaces \in [Namespaces -> Phases]
    BY DEF IInv, TypeOK, HostTypeOK
  <2>4. CASE n = "network"
    <3>1. agents = {}
      BY <1>3, <2>4 DEF RemoveNamespace, IsEmpty
    <3>2. ~job.created
      BY <2>2, <2>4 DEF IInv, OrderInv, ContentInv, TornDownInv
    <3>3. Stage = "open"
      BY <2>2, <2>4, <3>2 DEF Stage
    <3>4. Stage' \in {"open", "closed"}
      BY <2>1, <3>2 DEF Stage
    <3>5. CASE Stage' = Stage
      BY <2>1, <3>5 DEF Lifecycle!vars
    <3>6. CASE Stage' = "closed"
      BY <2>1, <3>1, <3>3, <3>6 DEF Lifecycle!Close, Lifecycle!Next
    <3>7. QED
      BY <3>3, <3>4, <3>5, <3>6
  <2>5. CASE n # "network"
    <3>1. Calm
      BY <2>1, <2>2, <2>3, <2>5 DEF Calm, Namespaces
    <3>2. QED
      BY <3>1, CalmStep
  <2>6. QED
    BY <2>4, <2>5
<1>4. ASSUME NEW n \in Nodes, AgentStarts(n) PROVE [Lifecycle!Next]_Lifecycle!vars
  <2>1. namespaces["network"] = "Active" /\ agents' = agents \cup {n}
        /\ UNCHANGED <<cr, namespaces, job, bridges, pass>>
    BY <1>4 DEF AgentStarts, Admitted, Accepts
  <2>2. ~job.created
    BY <2>1 DEF IInv, OrderInv, ContentInv, TornDownInv
  <2>3. Lifecycle!AgentStarts(n)
    BY <2>1, <2>2 DEF Lifecycle!AgentStarts, Stage
  <2>4. QED
    BY <2>3 DEF Lifecycle!Next
<1>5. ASSUME NEW n \in Nodes, AgentBuildsBridge(n) PROVE [Lifecycle!Next]_Lifecycle!vars
  <2>1. Lifecycle!BridgeBuilt(n)
    BY <1>5 DEF AgentBuildsBridge, Lifecycle!BridgeBuilt, Stage
  <2>2. QED
    BY <2>1 DEF Lifecycle!Next
<1>6. ASSUME NEW n \in Nodes, AgentStops(n) PROVE [Lifecycle!Next]_Lifecycle!vars
  <2>1. Lifecycle!AgentStops(n)
    BY <1>6 DEF AgentStops, Lifecycle!AgentStops, Stage
  <2>2. QED
    BY <2>1 DEF Lifecycle!Next
<1>7. ASSUME NEW n \in Nodes, JobPodStarts(n) PROVE [Lifecycle!Next]_Lifecycle!vars
  <2>1. job \in Jobs
    BY DEF IInv, TypeOK, HostTypeOK
  <2>2. job.created /\ job' = [job EXCEPT !.running = @ \cup {n}] /\ UNCHANGED <<agents, bridges>>
    BY <1>7 DEF JobPodStarts, PutJob
  <2>3. job'.created /\ job'.running = job.running \cup {n}
    BY <2>1, <2>2 DEF Jobs
  <2>4. Lifecycle!CleanerStarts(n)
    BY <2>2, <2>3 DEF Lifecycle!CleanerStarts, Stage
  <2>5. QED
    BY <2>4 DEF Lifecycle!Next
<1>8. ASSUME NEW n \in Nodes, JobPodSucceeds(n) PROVE [Lifecycle!Next]_Lifecycle!vars
  <2>1. job'.created = job.created /\ job'.running = job.running \ {n}
    BY <1>8 DEF JobPodSucceeds
  <2>2. n \in job.running /\ bridges' = bridges \ {n}
        /\ UNCHANGED <<cr, namespaces, agents, pass>>
    BY <1>8 DEF JobPodSucceeds
  <2>3. Lifecycle!CleanerSucceeds(n)
    BY <2>1, <2>2 DEF Lifecycle!CleanerSucceeds, Stage
  <2>4. QED
    BY <2>3 DEF Lifecycle!Next
<1>9. ASSUME NEW n \in Nodes, AgentWritesEnvFile(n) PROVE [Lifecycle!Next]_Lifecycle!vars
  <2>1. Calm
    BY <1>9 DEF AgentWritesEnvFile, Calm
  <2>2. QED
    BY <2>1, CalmStep
<1>10. QED
  BY <1>1, <1>2, <1>3, <1>4, <1>5, <1>6, <1>7, <1>8, <1>9 DEF Controllers

(* The users and the owner of the guest cluster.  The deletion of a        *)
(* FlannelConfig whose network is not there yet closes it at once.         *)
LEMMA UsersStep ==
  ASSUME IInv, Users, UNCHANGED workerVars
  PROVE  [Lifecycle!Next]_Lifecycle!vars
<1> USE DEF userVars, groupVars, loadVars, nodeVars, workerVars, passVars
<1>1. CASE UserDeletes
  <2>1. cr = "live" /\ UNCHANGED <<namespaces, job, agents, bridges, pass>>
    BY <1>1 DEF UserDeletes
  <2>2. ~job.created
    BY <2>1 DEF IInv, OrderInv, ContentInv, TornDownInv
  <2>3. Stage = "open" /\ Stage' \in {"open", "closed"}
    BY <2>1, <2>2 DEF Stage
  <2>4. CASE Stage' = "open"
    BY <2>1, <2>3, <2>4 DEF Lifecycle!vars
  <2>5. CASE Stage' = "closed"
    <3>1. namespaces["network"] = "Absent"
      BY <2>1, <2>2, <2>5 DEF Stage
    <3>2. agents = {}
      BY <3>1 DEF IInv, OrderInv, ContentInv
    <3>3. Lifecycle!Close
      BY <2>1, <2>3, <2>5, <3>2 DEF Lifecycle!Close
    <3>4. QED
      BY <3>3 DEF Lifecycle!Next
  <2>6. QED
    BY <2>3, <2>4, <2>5
<1>2. CASE UserChangesSpec \/ PodsAppear \/ PodsDrained \/ CordonChanges \/ ConfigSpoiled
  <2>1. Calm
    BY <1>2 DEF UserChangesSpec, PodsAppear, PodsDrained, CordonChanges, ConfigSpoiled, Calm
  <2>2. QED
    BY <2>1, CalmStep
<1>3. CASE ClusterNamespaceDeleted \/ NetworkNamespaceRemoved
  <2>1. namespaces \in [Namespaces -> Phases]
    BY DEF IInv, TypeOK, HostTypeOK
  <2>2. Calm
    BY <1>3, <2>1
    DEF ClusterNamespaceDeleted, NetworkNamespaceRemoved, PutNamespace, Calm, Namespaces
  <2>3. QED
    BY <2>2, CalmStep
<1>4. QED
  BY <1>1, <1>2, <1>3 DEF Users

(* The steps of operatorkit.  A create pass starts only while the          *)
(* FlannelConfig lives, that is, in an open network; the finalizer is      *)
(* removed only by a delete pass.                                          *)
LEMMA ControllerStep ==
  ASSUME IInv, AddFinalizer \/ StartPass \/ FinishPass
  PROVE  [Lifecycle!Next]_Lifecycle!vars
<1> USE DEF hostVars, userVars, groupVars, loadVars, nodeVars
<1>1. CASE AddFinalizer
  <2>1. Calm
    BY <1>1 DEF AddFinalizer, PutFinalizer, workerVars, passVars, Calm
  <2>2. QED
    BY <2>1, CalmStep
<1>2. CASE StartPass
  <2>1. pass = "none" /\ pass' = IF cr = "live" THEN "create" ELSE "delete"
    BY <1>2 DEF StartPass
  <2>2. UNCHANGED <<cr, namespaces, job, agents, bridges>>
    BY <1>2 DEF StartPass
  <2>3. Stage' = Stage
    BY <2>1, <2>2 DEF Stage
  <2>4. QED
    BY <2>2, <2>3 DEF Lifecycle!vars
<1>3. CASE FinishPass
  <2>1. CASE UNCHANGED hostVars
    <3>1. Calm
      BY <1>3, <2>1 DEF FinishPass, EndPass, Calm
    <3>2. QED
      BY <3>1, CalmStep
  <2>2. CASE pass = "delete" /\ PutFinalizer(FALSE, "gone")
    <3>1. cr = "deleting" /\ cr' = "gone" /\ pass' = "none"
      BY <1>3, <2>2 DEF FinishPass, EndPass, PutFinalizer, IInv, OrderInv, PassInv
    <3>2. UNCHANGED <<namespaces, job, agents, bridges>>
      BY <2>2 DEF PutFinalizer
    <3>3. Stage' = Stage
      BY <2>2, <3>1, <3>2 DEF Stage
    <3>4. QED
      BY <3>2, <3>3 DEF Lifecycle!vars
  <2>3. QED
    BY <1>3, <2>1, <2>2 DEF FinishPass
<1>4. QED
  BY <1>1, <1>2, <1>3

(* Every step of the operator and its surroundings is one of the life      *)
(* cycle, or none.                                                         *)
LEMMA LifecycleStep == ASSUME IInv, [Next]_vars PROVE [Lifecycle!Next]_Lifecycle!vars
<1>1. CASE AddFinalizer \/ StartPass \/ FinishPass
  BY <1>1, ControllerStep
<1>2. CASE NetworkConfigNext \/ FlanneldNext
  BY <1>2, NetworkConfigCalm, FlanneldCalm, CalmStep
<1>3. CASE NamespaceNext
  BY <1>3, NamespaceStep
<1>4. CASE LegacyNext
  BY <1>4, LegacyStep
<1>5. CASE CallFails \/ Crash
  <2>1. Calm
    BY <1>5, FailureCalm DEF CallFails, Crash
  <2>2. QED
    BY <2>1, CalmStep
<1>6. CASE HostStep
  BY <1>6, ControllersStep, UsersStep DEF HostStep, HostNext
<1>7. CASE Rest \/ UNCHANGED vars
  <2>1. Calm
    BY <1>7 DEF Rest, vars, hostVars, userVars, groupVars, loadVars, nodeVars,
                workerVars, passVars, Calm
  <2>2. QED
    BY <2>1, CalmStep
<1>8. QED
  BY <1>1, <1>2, <1>3, <1>4, <1>5, <1>6, <1>7 DEF Next, OperatorNext

(* The initial states are those of an open network.                        *)
LEMMA LifecycleInit == ASSUME Init PROVE Lifecycle!Init
<1>1. agents \subseteq Nodes /\ bridges \subseteq Nodes
  BY InitType DEF TypeOK, HostTypeOK
<1>2. QED
  BY <1>1 DEF Init, Stage, NoJob, Lifecycle!Init

(* The operator implements the life cycle: agents and cleanup job are      *)
(* never at work together, and nothing comes up again after the teardown,  *)
(* whatever fails, crashes or interferes.                                  *)
THEOREM Implementation == Spec => ImplementsLifecycle
<1>1. Init => Lifecycle!Init
  BY LifecycleInit
<1>2. IInv /\ [Next]_vars => [Lifecycle!Next]_Lifecycle!vars
  BY LifecycleStep
<1>3. QED
  BY <1>1, <1>2, Invariance, PTL DEF Spec, ImplementsLifecycle, Lifecycle!Spec

(* A network that is down has no agents, so that no step of the life cycle *)
(* builds a bridge there or opens it.                                      *)
LEMMA LifecycleKeepsBridges ==
  ASSUME Lifecycle!Quiet, [Lifecycle!Next]_Lifecycle!vars, Stage # "open"
  PROVE  Stage' # "open" /\ bridges' \subseteq bridges
BY DEF Lifecycle!Quiet, Lifecycle!Next, Lifecycle!vars, Lifecycle!Close, Lifecycle!StartCleaning,
       Lifecycle!StopCleaning, Lifecycle!AgentStarts, Lifecycle!AgentStops, Lifecycle!BridgeBuilt,
       Lifecycle!CleanerStarts, Lifecycle!CleanerSucceeds

(* After the teardown no late call of a pass, no retry and no restart      *)
(* brings back the network or a bridge.                                    *)
THEOREM BridgesStayAway == Spec => NoBridgeReturns
<1>1. IInv => Lifecycle!Quiet
  BY DEF IInv, OrderInv, ContentInv, TornDownInv, Lifecycle!Quiet, Stage
<1>2. IInv /\ [Next]_vars =>
        [Stage # "open" => Stage' # "open" /\ bridges' \subseteq bridges]_Lifecycle!vars
  BY <1>1, LifecycleStep, LifecycleKeepsBridges
<1>3. QED
  BY <1>2, Invariance, PTL DEF Spec, NoBridgeReturns, Lifecycle!NoBridgeReturns

----------------------------------------------------------------------------
(* What a deletion leaves behind.                                          *)

(* Without finalizer there has been no pass yet, and no network; a delete  *)
(* pass that is cut short has seen the network namespace terminate.        *)
DownInv ==
  /\ DeletedNetworkIsDown
  /\ cr = "live" /\ ~finalizer => namespaces["network"] = "Absent"
  /\ pass = "delete" /\ step = "Canceled" => namespaces["network"] # "Active"

(* Steps that bring up no network, leave the FlannelConfig alone and do    *)
(* not cut a delete pass short.                                            *)
KeepsDown ==
  /\ UNCHANGED <<cr, finalizer>>
  /\ namespaces["network"] # "Active" => namespaces'["network"] # "Active"
  /\ namespaces["network"] = "Absent" => namespaces'["network"] = "Absent"
  /\ pass' = "delete" /\ step' = "Canceled" => pass = "delete" /\ step = "Canceled"

(* Such steps preserve the invariant.                                      *)
LEMMA KeepsDownInv == ASSUME DownInv, KeepsDown PROVE DownInv'
BY DEF DownInv, DeletedNetworkIsDown, KeepsDown

(* Failures, retried or not, and ends of passes that leave the host        *)
(* cluster alone are such steps.                                           *)
LEMMA FailureKeepsDown ==
  ASSUME Retry \/ GiveUp \/ EndPass, UNCHANGED hostVars
  PROVE  KeepsDown
BY DEF Retry, RetryPoint, GiveUp, EndPass, KeepsDown, hostVars, userVars, groupVars,
       ConfigEntry, NamespaceEntry, LegacyEntry, FlanneldEntry, ConfigSteps,
       NamespaceSteps, LegacySteps, GrantSteps, TearDownSteps, SetupSteps,
       CleanUpSteps, FlanneldSteps

(* So is the error of a resource.                                          *)
LEMMA FailKeepsDown == ASSUME Fail PROVE KeepsDown
BY FailureKeepsDown DEF Fail

(* The step to the next resource is none at which a pass is cut short.     *)
LEMMA NextIsNotCanceled == ASSUME AfterResource PROVE step' # "Canceled"
BY DEF AfterResource, NamespaceEntry, LegacyEntry, FlanneldEntry

(* The networkconfig and the flanneld resource leave namespaces alone.     *)
LEMMA NetworkConfigKeepsDown == ASSUME NetworkConfigNext PROVE KeepsDown
<1> USE NextIsNotCanceled, FailKeepsDown
    DEF KeepsDown, hostVars, userVars, groupVars, dataVars, Goto, NextResource,
        PutConfig, StoreCreate, StoreDelete
<1>1. CASE GetConfig
  BY <1>1 DEF GetConfig
<1>2. CASE CreateConfig
  BY <1>2 DEF CreateConfig
<1>3. CASE ClearConfig
  BY <1>3 DEF ClearConfig
<1>4. CASE WriteConfig
  BY <1>4 DEF WriteConfig
<1>5. CASE DeleteConfig
  BY <1>5 DEF DeleteConfig
<1>6. QED
  BY <1>1, <1>2, <1>3, <1>4, <1>5 DEF NetworkConfigNext

(* The flanneld resource.                                                  *)
LEMMA FlanneldKeepsDown == ASSUME FlanneldNext PROVE KeepsDown
<1> USE NextIsNotCanceled, FailKeepsDown
    DEF KeepsDown, hostVars, userVars, groupVars, dataVars, Goto, NextResource,
        KeepAndCancelResource, PutDaemonSets
<1>1. CASE GetLegacyDaemonSet
  BY <1>1 DEF GetLegacyDaemonSet
<1>2. CASE ListAgentPods
  BY <1>2 DEF ListAgentPods
<1>3. CASE GetDaemonSet
  BY <1>3 DEF GetDaemonSet
<1>4. CASE CreateDaemonSet
  BY <1>4 DEF CreateDaemonSet
<1>5. CASE DeleteDaemonSet
  BY <1>5 DEF DeleteDaemonSet
<1>6. QED
  BY <1>1, <1>2, <1>3, <1>4, <1>5 DEF FlanneldNext

(* The legacy resource creates and deletes the destroyer namespace only.   *)
LEMMA LegacyKeepsDown == ASSUME IInv, LegacyNext PROVE KeepsDown
<1>0. namespaces \in [Namespaces -> Phases]
  BY DEF IInv, TypeOK, HostTypeOK
<1> USE NextIsNotCanceled, FailKeepsDown, <1>0
    DEF KeepsDown, hostVars, userVars, groupVars, dataVars, Goto, NextResource,
        KeepAndCancelResource, Namespaces
<1>1. CASE CreateAccount \/ BindNetwork \/ BindNetworkPsp
  BY <1>1 DEF CreateAccount, CreateServiceAccount, PutAccounts, BindNetwork,
              BindNetworkPsp, Bind, PutBindings
<1>2. CASE ListNetworkPods \/ DeleteLegacyDaemonSet \/ DeleteAccount
  BY <1>2 DEF ListNetworkPods, DeleteLegacyDaemonSet, PutDaemonSets, DeleteAccount,
              PutAccounts
<1>3. CASE WaitClusterNamespace \/ WaitNetworkNamespace \/ CountNodes \/ WaitJob
  BY <1>3 DEF WaitClusterNamespace, WaitNetworkNamespace, WaitForNamespaceDeleted,
              CountNodes, WaitJob
<1>4. CASE CreateDestroyer \/ GetDestroyer \/ DeleteDestroyer
  BY <1>4 DEF CreateDestroyer, GetDestroyer, DeleteDestroyer, PutNamespace
<1>5. CASE BindDeletion \/ BindDeletionPsp \/ CreateDestroyerAccount \/ CreateJob
  BY <1>5 DEF BindDeletion, BindDeletionPsp, Bind, PutBindings, CreateDestroyerAccount,
              CreateServiceAccount, PutAccounts, CreateJob, PutJob
<1>6. CASE UnbindDeletion \/ UnbindNetwork \/ UnbindNetworkPsp \/ UnbindDeletionPsp
  BY <1>6 DEF UnbindDeletion, UnbindNetwork, UnbindNetworkPsp, UnbindDeletionPsp,
              Unbind, PutBindings
<1>7. QED
  BY <1>1, <1>2, <1>3, <1>4, <1>5, <1>6 DEF LegacyNext

(* The namespace resource: only a create pass brings the namespace up, and *)
(* it has a finalizer and a FlannelConfig that is not gone; a pass is cut  *)
(* short at a terminating namespace only.                                  *)
LEMMA NamespaceDown == ASSUME IInv, DownInv, NamespaceNext PROVE DownInv'
<1>0. namespaces \in [Namespaces -> Phases] /\ pass \in {"none", "create", "delete"}
  BY PassKind DEF IInv, TypeOK, HostTypeOK
<1> USE NextIsNotCanceled, FailKeepsDown, KeepsDownInv, <1>0
    DEF hostVars, userVars, groupVars, dataVars, Goto, NextResource,
        KeepAndCancelResource, Namespaces, PutNamespace
<1>1. CASE GetNamespace
  <2>1. CASE namespaces["network"] = "Terminating" /\ CancelReconciliation
    BY <1>1, <2>1 DEF GetNamespace, CancelReconciliation, DownInv, DeletedNetworkIsDown
  <2>2. CASE namespaces["network"] # "Terminating"
    <3>1. KeepsDown
      BY <1>1, <2>2 DEF GetNamespace, KeepsDown
    <3>2. QED
      BY <3>1
  <2>3. QED
    BY <1>1, <2>1, <2>2 DEF GetNamespace
<1>2. CASE ListNamespacePods
  BY <1>2 DEF ListNamespacePods, KeepsDown
<1>3. CASE CreateNamespace
  <2>1. pass = "create"
    BY <1>3 DEF CreateNamespace, At, IInv, OrderInv, PassInv, DeleteSteps,
                TearDownSteps, SetupSteps, CleanUpSteps
  <2>2. finalizer /\ cr # "gone"
    BY <2>1 DEF IInv, OrderInv, PassInv
  <2>3. pass' = "create" /\ finalizer' = finalizer /\ cr' = cr
    BY <1>3, <2>1 DEF CreateNamespace
  <2>4. QED
    BY <2>2, <2>3 DEF DownInv, DeletedNetworkIsDown
<1>4. CASE DeleteNamespace
  BY <1>4 DEF DeleteNamespace, KeepsDown, Phases
<1>5. QED
  BY <1>1, <1>2, <1>3, <1>4 DEF NamespaceNext

(* What happens around the operator brings up no network.                  *)
LEMMA HostDown == ASSUME IInv, DownInv, HostNext, UNCHANGED workerVars PROVE DownInv'
<1>0. namespaces \in [Namespaces -> Phases]
  BY DEF IInv, TypeOK, HostTypeOK
<1> USE KeepsDownInv, <1>0
    DEF KeepsDown, workerVars, passVars, userVars, groupVars, Namespaces, PutNamespace
<1>1. CASE CollectAccount \/ CollectDaemonSets \/ CollectJob
  BY <1>1 DEF CollectAccount, PutAccounts, CollectDaemonSets, PutDaemonSets, CollectJob,
              PutJob
<1>2. ASSUME NEW n \in Namespaces, RemoveNamespace(n) PROVE DownInv'
  BY <1>2 DEF RemoveNamespace
<1>3. ASSUME NEW n \in Nodes, AgentStarts(n) \/ AgentWritesEnvFile(n) \/ AgentBuildsBridge(n) \/ AgentStops(n)
      PROVE  DownInv'
  BY <1>3 DEF AgentStarts, AgentWritesEnvFile, AgentBuildsBridge, AgentStops
<1>4. ASSUME NEW n \in Nodes, JobPodStarts(n) \/ JobPodSucceeds(n) PROVE DownInv'
  BY <1>4 DEF JobPodStarts, PutJob, JobPodSucceeds
<1>5. CASE UserDeletes
  BY <1>5 DEF UserDeletes, DownInv, DeletedNetworkIsDown
<1>6. CASE UserChangesSpec \/ PodsAppear \/ PodsDrained \/ CordonChanges \/ ConfigSpoiled
  BY <1>6 DEF UserChangesSpec, PodsAppear, PodsDrained, CordonChanges, ConfigSpoiled
<1>7. CASE ClusterNamespaceDeleted
  BY <1>7 DEF ClusterNamespaceDeleted
<1>8. CASE NetworkNamespaceRemoved
  BY <1>8 DEF NetworkNamespaceRemoved
<1>9. QED
  BY <1>1, <1>2, <1>3, <1>4, <1>5, <1>6, <1>7, <1>8 DEF HostNext, Controllers, Users

(* The end of a pass releases the FlannelConfig only with a network that   *)
(* is down: either all resources are done, or the namespace terminates.    *)
LEMMA FinishDown == ASSUME IInv, DownInv, FinishPass PROVE DownInv'
<1>1. CASE UNCHANGED hostVars
  BY <1>1, FailureKeepsDown, KeepsDownInv DEF FinishPass
<1>2. CASE pass = "delete" /\ ~kept /\ PutFinalizer(FALSE, "gone")
  <2>1. namespaces["network"] # "Active"
    BY <1>2 DEF FinishPass, At, DownInv, IInv, OrderInv, ProgressInv, Clean
  <2>2. QED
    BY <1>2, <2>1 DEF FinishPass, EndPass, PutFinalizer, groupVars, DownInv,
                      DeletedNetworkIsDown
<1>3. QED
  BY <1>1, <1>2 DEF FinishPass

(* Every step preserves the invariant.                                     *)
LEMMA DownNext == ASSUME IInv, DownInv, [Next]_vars PROVE DownInv'
<1>1. CASE AddFinalizer
  BY <1>1 DEF AddFinalizer, PutFinalizer, groupVars, workerVars, passVars, DownInv,
              DeletedNetworkIsDown
<1>2. CASE StartPass
  <2>1. KeepsDown
    BY <1>2 DEF StartPass, ConfigEntry, KeepsDown, hostVars, userVars, groupVars
  <2>2. QED
    BY <2>1, KeepsDownInv
<1>3. CASE FinishPass
  BY <1>3, FinishDown
<1>4. CASE NetworkConfigNext \/ FlanneldNext \/ LegacyNext
  BY <1>4, NetworkConfigKeepsDown, FlanneldKeepsDown, LegacyKeepsDown, KeepsDownInv
<1>5. CASE NamespaceNext
  BY <1>5, NamespaceDown
<1>6. CASE CallFails \/ Crash
  BY <1>6, FailureKeepsDown, KeepsDownInv DEF CallFails, Crash
<1>7. CASE HostStep
  BY <1>7, HostDown DEF HostStep
<1>8. CASE Rest \/ UNCHANGED vars
  <2>1. KeepsDown
    BY <1>8 DEF Rest, vars, KeepsDown, hostVars, userVars, groupVars, workerVars, passVars
  <2>2. QED
    BY <2>1, KeepsDownInv
<1>9. QED
  BY <1>1, <1>2, <1>3, <1>4, <1>5, <1>6, <1>7, <1>8 DEF Next, OperatorNext

(* Whichever pass releases the FlannelConfig, the network namespace is     *)
(* gone or going, and nobody creates it again.                             *)
LEMMA NoNetworkIsLeft == Spec => []DeletedNetworkIsDown
<1>1. Init => DownInv
  BY DEF Init, Created, Upgraded, DownInv, DeletedNetworkIsDown
<1>2. IInv /\ DownInv /\ [Next]_vars => DownInv'
  BY DownNext
<1>3. DownInv => DeletedNetworkIsDown
  BY DEF DownInv
<1>4. QED
  BY <1>1, <1>2, <1>3, Invariance, PTL DEF Spec

----------------------------------------------------------------------------
(* What a release leaves at rest.                                          *)

(* Without finalizer no config has been stored yet; a delete pass that is  *)
(* cut short has deleted it, and no cleanup has begun.                     *)
QuietInv ==
  /\ ReleasedIsQuiet
  /\ cr = "live" /\ ~finalizer => config = NoConfig
  /\ pass = "delete" /\ step = "Canceled"
       => config = NoConfig /\ namespaces["destroyer"] = "Absent"

(* Steps of a pass that do not cut it short release nothing.               *)
LEMMA StepQuiet ==
  ASSUME IInv, KeepsDown, pass # "none", step # "Canceled"
  PROVE  QuietInv'
<1>1. finalizer /\ cr # "gone"
  BY PassKind DEF IInv, OrderInv, PassInv
<1>2. QED
  BY <1>1 DEF KeepsDown, QuietInv, ReleasedIsQuiet

(* The namespace resource cuts a delete pass short after the config has    *)
(* been deleted, and while the network namespace is still there.           *)
LEMMA NamespaceQuiet == ASSUME IInv, NamespaceNext PROVE QuietInv'
<1>1. finalizer /\ cr # "gone" /\ pass \in {"create", "delete"}
  BY PassKind
  DEF IInv, OrderInv, PassInv, NamespaceNext, GetNamespace, ListNamespacePods, CreateNamespace,
      DeleteNamespace, At
<1>2. UNCHANGED <<cr, finalizer>>
  BY DEF NamespaceNext, GetNamespace, ListNamespacePods, CreateNamespace, DeleteNamespace,
         PutNamespace, Fail, hostVars, userVars
<1>3. CASE GetNamespace
  <2>1. pass' = "delete" /\ step' = "Canceled"
          => pass = "delete" /\ namespaces["network"] = "Terminating"
    BY <1>3, NextIsNotCanceled DEF GetNamespace, CancelReconciliation
  <2>2. pass = "delete" /\ namespaces["network"] = "Terminating"
          => config = NoConfig /\ namespaces["destroyer"] = "Absent"
    BY <1>3 DEF GetNamespace, At, IInv, OrderInv, ProgressInv, TornDownInv, ConfigSteps
  <2>3. UNCHANGED <<config, namespaces>>
    BY <1>3 DEF GetNamespace, hostVars, groupVars
  <2>4. QED
    BY <1>1, <1>2, <2>1, <2>2, <2>3 DEF QuietInv, ReleasedIsQuiet
<1>4. CASE ListNamespacePods \/ CreateNamespace \/ DeleteNamespace
  <2>1. pass' = "delete" => step' # "Canceled"
    BY <1>4, NextIsNotCanceled, FailKeepsDown
    DEF ListNamespacePods, CreateNamespace, DeleteNamespace, At, Goto, NextResource,
        KeepAndCancelResource, KeepsDown
  <2>2. QED
    BY <1>1, <1>2, <2>1 DEF QuietInv, ReleasedIsQuiet
<1>5. QED
  BY <1>3, <1>4 DEF NamespaceNext

(* The host cluster goes on.                                               *)
LEMMA HostQuiet ==
  ASSUME IInv, QuietInv, DownInv', HostNext, UNCHANGED workerVars
  PROVE  QuietInv'
<1>1. HostTypeOK /\ (cr = "live" => namespaces["destroyer"] = "Absent")
  BY DEF IInv, TypeOK, HostTypeOK, OrderInv, TornDownInv
<1>2. (cr = "gone")' => config = NoConfig /\ namespaces["destroyer"] # "Active"
  BY <1>1, HostBringsNothing DEF QuietInv, ReleasedIsQuiet
<1>3. ReleasedIsQuiet'
  BY <1>1, <1>2, HostBringsNothing DEF ReleasedIsQuiet, DownInv, DeletedNetworkIsDown
<1>4. QED
  BY <1>1, <1>3, HostBringsNothing DEF QuietInv, workerVars, passVars

(* A pass that releases the FlannelConfig is through with its resources,   *)
(* or was cut short.                                                       *)
LEMMA FinishQuiet == ASSUME IInv, DownInv, QuietInv, FinishPass PROVE QuietInv'
<1>1. finalizer /\ cr # "gone" /\ step' = "Idle"
  BY PassKind DEF FinishPass, EndPass, At, IInv, OrderInv, PassInv
<1>2. CASE UNCHANGED hostVars
  BY <1>1, <1>2 DEF hostVars, userVars, QuietInv, ReleasedIsQuiet
<1>3. CASE pass = "delete" /\ ~kept /\ PutFinalizer(FALSE, "gone")
  <2>1. step \in {"Finish", "Canceled"}
    BY DEF FinishPass, At
  <2>2. CASE step = "Finish"
    BY <1>1, <1>3, <2>2
    DEF IInv, OrderInv, ProgressInv, Clean, PutFinalizer, groupVars, QuietInv, ReleasedIsQuiet,
        DeletedNetworkIsDown
  <2>3. CASE step = "Canceled"
    BY <1>1, <1>3, <2>3
    DEF DownInv, PutFinalizer, groupVars, QuietInv, ReleasedIsQuiet, DeletedNetworkIsDown
  <2>4. QED
    BY <2>1, <2>2, <2>3
<1>4. QED
  BY <1>2, <1>3 DEF FinishPass

(* Every step preserves the invariant.                                     *)
LEMMA QuietNext == ASSUME IInv, DownInv, QuietInv, [Next]_vars PROVE QuietInv'
<1>1. CASE AddFinalizer \/ StartPass
  BY <1>1
  DEF AddFinalizer, PutFinalizer, StartPass, ConfigEntry, workerVars, passVars, groupVars,
      hostVars, userVars, QuietInv, ReleasedIsQuiet, DeletedNetworkIsDown
<1>2. CASE FinishPass
  BY <1>2, FinishQuiet
<1>3. CASE NetworkConfigNext \/ FlanneldNext \/ LegacyNext
  <2>1. pass # "none" /\ step # "Canceled"
    BY <1>3
    DEF At, NetworkConfigNext, GetConfig, CreateConfig, ClearConfig, WriteConfig, DeleteConfig,
        FlanneldNext, GetLegacyDaemonSet, ListAgentPods, GetDaemonSet, CreateDaemonSet,
        DeleteDaemonSet, LegacyNext, CreateAccount, BindNetwork, BindNetworkPsp, ListNetworkPods,
        DeleteLegacyDaemonSet, DeleteAccount, WaitClusterNamespace, WaitNetworkNamespace,
        CreateDestroyer, GetDestroyer, BindDeletion, BindDeletionPsp, CreateDestroyerAccount,
        CountNodes, CreateJob, WaitJob, DeleteDestroyer, UnbindDeletion, UnbindNetwork,
        UnbindNetworkPsp, UnbindDeletionPsp
  <2>2. QED
    BY <1>3, <2>1, NetworkConfigKeepsDown, FlanneldKeepsDown, LegacyKeepsDown, StepQuiet
<1>4. CASE NamespaceNext
  BY <1>4, NamespaceQuiet
<1>5. CASE CallFails \/ Crash
  <2>1. KeepsDown /\ pass # "none"
    BY <1>5, FailureKeepsDown DEF CallFails, Crash
  <2>2. finalizer /\ cr # "gone" /\ UNCHANGED <<config, namespaces>>
    BY <1>5, <2>1, PassKind
    DEF IInv, OrderInv, PassInv, CallFails, Crash, hostVars, groupVars
  <2>3. QED
    BY <2>1, <2>2 DEF KeepsDown, QuietInv, ReleasedIsQuiet
<1>6. CASE HostStep
  BY <1>6, DownNext, HostQuiet DEF HostStep, Next
<1>7. CASE UNCHANGED vars
  BY <1>7
  DEF vars, hostVars, userVars, groupVars, workerVars, passVars, QuietInv, ReleasedIsQuiet,
      DeletedNetworkIsDown
<1>8. QED
  BY <1>1, <1>2, <1>3, <1>4, <1>5, <1>6, <1>7 DEF Next, OperatorNext, Rest

(* Whichever pass releases the FlannelConfig, no agent finds a config to   *)
(* build a bridge with any more, and no cleanup job is in an active        *)
(* namespace (namespace/current.go 38-49, networkconfig/delete.go 14-39).  *)
THEOREM ReleasedAtRest == Spec => []ReleasedIsQuiet
<1>1. Init => DownInv /\ QuietInv
  BY DEF Init, Created, Upgraded, DownInv, DeletedNetworkIsDown, QuietInv, ReleasedIsQuiet
<1>2. IInv /\ DownInv /\ QuietInv /\ [Next]_vars => DownInv' /\ QuietInv'
  BY DownNext, QuietNext
<1>3. QuietInv => ReleasedIsQuiet
  BY DEF QuietInv
<1>4. QED
  BY <1>1, <1>2, <1>3, Invariance, PTL DEF Spec

----------------------------------------------------------------------------
(* What nobody may do to a deletion that is to be in order.  Before the    *)
(* deletion, and with all that is not named here, anybody may disturb.     *)

(* No pod comes back to a guest cluster that is drained.                   *)
StaysQuiet == [][NoReturn]_vars

(* No node is cordoned or uncordoned.                                      *)
SameNodes      == cr # "live" => UNCHANGED schedulable
NodesAsTheyAre == [][SameNodes]_vars

(* Where a delete pass takes something away the guest cluster is drained.  *)
DrainedInv ==
  pass = "delete" /\ step \in {"DeleteNamespace", "DeleteLegacyDaemonSet",
                               "GetDaemonSet", "DeleteDaemonSet"} => ~pods

(* The job has a pod for each node that can take one, and the namespace of *)
(* a job is deleted when all of them have succeeded.                       *)
JobInv ==
  /\ step \in {"CreateJob", "WaitJob"} => replicas = Cardinality(schedulable)
  /\ job.created => /\ job.completions = Cardinality(schedulable)
                    /\ job.succeeded + Cardinality(job.running) <= job.completions
  /\ job.created /\ (namespaces["destroyer"] = "Terminating" \/ step = "DeleteDestroyer")
       => job.succeeded = job.completions

(* A failure goes back to a step at which no more is known.                *)
LEMMA FailureDrained ==
  ASSUME DrainedInv, Retry \/ GiveUp \/ EndPass, UNCHANGED hostVars
  PROVE  DrainedInv'
BY DEF DrainedInv, Retry, RetryPoint, GiveUp, EndPass, hostVars, groupVars, ConfigEntry,
       NamespaceEntry, LegacyEntry, FlanneldEntry, ConfigSteps, NamespaceSteps,
       LegacySteps, GrantSteps, TearDownSteps, SetupSteps, CleanUpSteps, FlanneldSteps

(* Every step of the worker reaches a step that takes something away only  *)
(* by way of a list of the pods that is empty.                             *)
LEMMA WorkerDrained == ASSUME IInv, DrainedInv, OperatorNext PROVE DrainedInv'
<1>0. ASSUME Fail PROVE DrainedInv'
  BY <1>0, FailureDrained DEF Fail
<1> USE <1>0
    DEF DrainedInv, hostVars, groupVars, Goto, NextResource, KeepAndCancelResource,
        CancelReconciliation, AfterResource, NamespaceEntry, LegacyEntry, FlanneldEntry,
        ConfigSteps, NamespaceSteps, LegacySteps, GrantSteps, TearDownSteps, SetupSteps,
        CleanUpSteps, FlanneldSteps, At
<1>1. CASE AddFinalizer \/ StartPass \/ FinishPass
  BY <1>1 DEF AddFinalizer, PutFinalizer, workerVars, passVars, StartPass, ConfigEntry,
              FinishPass, EndPass
<1>2. CASE NetworkConfigNext
  <2>1. CASE GetConfig
    BY <2>1 DEF GetConfig
  <2>2. CASE CreateConfig \/ ClearConfig \/ WriteConfig \/ DeleteConfig
    BY <2>2 DEF CreateConfig, ClearConfig, WriteConfig, DeleteConfig, StoreCreate,
                StoreDelete, PutConfig
  <2>3. QED
    BY <1>2, <2>1, <2>2 DEF NetworkConfigNext
<1>3. CASE NamespaceNext
  <2>1. CASE GetNamespace
    BY <2>1 DEF GetNamespace
  <2>2. CASE ListNamespacePods
    BY <2>2 DEF ListNamespacePods
  <2>3. CASE CreateNamespace \/ DeleteNamespace
    BY <2>3 DEF CreateNamespace, DeleteNamespace, PutNamespace
  <2>4. QED
    BY <1>3, <2>1, <2>2, <2>3 DEF NamespaceNext
<1>4. CASE LegacyNext
  <2>1. CASE CreateAccount \/ BindNetwork \/ BindNetworkPsp
    BY <2>1 DEF CreateAccount, CreateServiceAccount, PutAccounts, BindNetwork,
                BindNetworkPsp, Bind, PutBindings
  <2>2. CASE ListNetworkPods \/ DeleteLegacyDaemonSet \/ DeleteAccount
    BY <2>2 DEF ListNetworkPods, DeleteLegacyDaemonSet, PutDaemonSets, DeleteAccount,
                PutAccounts
  <2>3. CASE WaitClusterNamespace \/ WaitNetworkNamespace \/ CountNodes \/ WaitJob
    BY <2>3 DEF WaitClusterNamespace, WaitNetworkNamespace, WaitForNamespaceDeleted,
                CountNodes, WaitJob
  <2>4. CASE CreateDestroyer \/ GetDestroyer \/ DeleteDestroyer
    BY <2>4 DEF CreateDestroyer, GetDestroyer, DeleteDestroyer, PutNamespace
  <2>5. CASE BindDeletion \/ BindDeletionPsp \/ CreateDestroyerAccount \/ CreateJob
    BY <2>5 DEF BindDeletion, BindDeletionPsp, Bind, PutBindings, CreateDestroyerAccount,
                CreateServiceAccount, PutAccounts, CreateJob, PutJob
  <2>6. CASE UnbindDeletion \/ UnbindNetwork \/ UnbindNetworkPsp \/ UnbindDeletionPsp
    BY <2>6 DEF UnbindDeletion, UnbindNetwork, UnbindNetworkPsp, UnbindDeletionPsp,
                Unbind, PutBindings
  <2>7. QED
    BY <1>4, <2>1, <2>2, <2>3, <2>4, <2>5, <2>6 DEF LegacyNext
<1>5. CASE FlanneldNext
  <2>1. CASE GetLegacyDaemonSet
    BY <2>1 DEF GetLegacyDaemonSet
  <2>2. CASE ListAgentPods
    BY <2>2 DEF ListAgentPods
  <2>3. CASE GetDaemonSet
    BY <2>3 DEF GetDaemonSet
  <2>4. CASE CreateDaemonSet \/ DeleteDaemonSet
    BY <2>4 DEF CreateDaemonSet, DeleteDaemonSet, PutDaemonSets
  <2>5. QED
    BY <1>5, <2>1, <2>2, <2>3, <2>4 DEF FlanneldNext
<1>6. QED
  BY <1>1, <1>2, <1>3, <1>4, <1>5 DEF OperatorNext

(* Pods of the guest cluster come up only while its FlannelConfig lives,   *)
(* and then no delete pass runs.                                           *)
LEMMA HostDrained ==
  ASSUME NoReturn, IInv, DrainedInv, HostNext, UNCHANGED workerVars
  PROVE  DrainedInv'
<1>0. pass = "delete" => cr = "deleting"
  BY DEF IInv, OrderInv, PassInv
<1> USE <1>0 DEF NoReturn, DrainedInv, workerVars, passVars, groupVars
<1>1. CASE CollectAccount \/ CollectDaemonSets \/ CollectJob
  BY <1>1 DEF CollectAccount, PutAccounts, CollectDaemonSets, PutDaemonSets, CollectJob,
              PutJob
<1>2. ASSUME NEW n \in Namespaces, RemoveNamespace(n) PROVE DrainedInv'
  BY <1>2 DEF RemoveNamespace, PutNamespace
<1>3. ASSUME NEW n \in Nodes, AgentStarts(n) \/ AgentWritesEnvFile(n) \/ AgentBuildsBridge(n) \/ AgentStops(n)
      PROVE  DrainedInv'
  BY <1>3 DEF AgentStarts, AgentWritesEnvFile, AgentBuildsBridge, AgentStops
<1>4. ASSUME NEW n \in Nodes, JobPodStarts(n) \/ JobPodSucceeds(n) PROVE DrainedInv'
  BY <1>4 DEF JobPodStarts, PutJob, JobPodSucceeds
<1>5. CASE UserDeletes \/ UserChangesSpec \/ PodsAppear \/ PodsDrained
  BY <1>5 DEF UserDeletes, UserChangesSpec, PodsAppear, PodsDrained
<1>6. CASE ClusterNamespaceDeleted \/ NetworkNamespaceRemoved \/ CordonChanges \/ ConfigSpoiled
  BY <1>6 DEF ClusterNamespaceDeleted, PutNamespace, NetworkNamespaceRemoved, CordonChanges, ConfigSpoiled
<1>7. QED
  BY <1>1, <1>2, <1>3, <1>4, <1>5, <1>6 DEF HostNext, Controllers, Users

(* Every step preserves the invariant.                                     *)
LEMMA DrainedNext ==
  ASSUME IInv, DrainedInv, [Next]_vars, [NoReturn]_vars
  PROVE  DrainedInv'
<1>1. CASE OperatorNext
  BY <1>1, WorkerDrained
<1>2. CASE CallFails \/ Crash
  BY <1>2, FailureDrained DEF CallFails, Crash
<1>3. CASE HostStep /\ NoReturn
  BY <1>3, HostDrained DEF HostStep
<1>4. CASE Rest \/ UNCHANGED vars
  BY <1>4 DEF Rest, vars, DrainedInv, hostVars, groupVars, workerVars, passVars
<1>5. QED
  BY <1>1, <1>2, <1>3, <1>4 DEF Next

(* Steps that take neither the namespace nor the daemon sets away.         *)
Spares ==
  /\ namespaces'["network"] = "Active" \/ namespaces["network"] # "Active"
  /\ daemonSets' # {} \/ daemonSets = {}

(* Only three calls of a delete pass take something away from an active    *)
(* network, each behind a list of the pods.                                *)
LEMMA WorkerSpares ==
  ASSUME IInv, OperatorNext,
         ~(DeleteNamespace \/ DeleteLegacyDaemonSet \/ DeleteDaemonSet)
  PROVE  Spares
<1>0. namespaces \in [Namespaces -> Phases]
  BY DEF IInv, TypeOK, HostTypeOK
<1>f. ASSUME Fail PROVE Spares
  BY <1>f DEF Fail, Spares, hostVars, groupVars, loadVars
<1> USE <1>0, <1>f DEF Spares, hostVars, groupVars, loadVars, Namespaces
<1>1. CASE AddFinalizer \/ StartPass \/ FinishPass
  BY <1>1 DEF AddFinalizer, PutFinalizer, StartPass, FinishPass
<1>2. CASE NetworkConfigNext
  BY <1>2 DEF NetworkConfigNext, GetConfig, CreateConfig, ClearConfig, WriteConfig,
              DeleteConfig, StoreCreate, StoreDelete, PutConfig
<1>3. CASE GetNamespace \/ ListNamespacePods \/ CreateNamespace
  BY <1>3 DEF GetNamespace, ListNamespacePods, CreateNamespace, PutNamespace
<1>4. CASE CreateAccount \/ BindNetwork \/ BindNetworkPsp
  BY <1>4 DEF CreateAccount, CreateServiceAccount, PutAccounts, BindNetwork,
              BindNetworkPsp, Bind, PutBindings
<1>5. CASE ListNetworkPods \/ DeleteAccount \/ WaitClusterNamespace \/ WaitNetworkNamespace
  BY <1>5 DEF ListNetworkPods, DeleteAccount, PutAccounts, WaitClusterNamespace,
              WaitNetworkNamespace, WaitForNamespaceDeleted
<1>6. CASE CountNodes \/ WaitJob \/ CreateDestroyer \/ GetDestroyer \/ DeleteDestroyer
  BY <1>6 DEF CountNodes, WaitJob, CreateDestroyer, GetDestroyer, DeleteDestroyer,
              PutNamespace
<1>7. CASE BindDeletion \/ BindDeletionPsp \/ CreateDestroyerAccount \/ CreateJob
  BY <1>7 DEF BindDeletion, BindDeletionPsp, Bind, PutBindings, CreateDestroyerAccount,
              CreateServiceAccount, PutAccounts, CreateJob, PutJob
<1>8. CASE UnbindDeletion \/ UnbindNetwork \/ UnbindNetworkPsp \/ UnbindDeletionPsp
  BY <1>8 DEF UnbindDeletion, UnbindNetwork, UnbindNetworkPsp, UnbindDeletionPsp,
              Unbind, PutBindings
<1>9. CASE GetLegacyDaemonSet \/ ListAgentPods \/ GetDaemonSet \/ CreateDaemonSet
  BY <1>9 DEF GetLegacyDaemonSet, ListAgentPods, GetDaemonSet, CreateDaemonSet,
              PutDaemonSets
<1>10. QED
  BY <1>1, <1>2, <1>3, <1>4, <1>5, <1>6, <1>7, <1>8, <1>9
  DEF OperatorNext, NamespaceNext, LegacyNext, FlanneldNext

(* Around the operator only the namespace controller takes daemon sets     *)
(* away, and only from a namespace that is not active any more.            *)
LEMMA HostSpares ==
  ASSUME NoReturn, IInv, HostNext
  PROVE  Spares \/ namespaces["network"] # "Active" \/ cr = "live"
<1>0. namespaces \in [Namespaces -> Phases]
  BY DEF IInv, TypeOK, HostTypeOK
<1> USE <1>0 DEF NoReturn, Spares, groupVars, loadVars, Namespaces
<1>1. CASE CollectAccount \/ CollectDaemonSets \/ CollectJob
  BY <1>1 DEF CollectAccount, PutAccounts, CollectDaemonSets, PutDaemonSets, CollectJob,
              PutJob
<1>2. ASSUME NEW n \in Namespaces, RemoveNamespace(n)
      PROVE  Spares \/ namespaces["network"] # "Active"
  BY <1>2 DEF RemoveNamespace, PutNamespace
<1>3. ASSUME NEW n \in Nodes, AgentStarts(n) \/ AgentWritesEnvFile(n) \/ AgentBuildsBridge(n) \/ AgentStops(n)
      PROVE  Spares
  BY <1>3 DEF AgentStarts, AgentWritesEnvFile, AgentBuildsBridge, AgentStops
<1>4. ASSUME NEW n \in Nodes, JobPodStarts(n) \/ JobPodSucceeds(n) PROVE Spares
  BY <1>4 DEF JobPodStarts, PutJob, JobPodSucceeds
<1>5. CASE UserDeletes \/ UserChangesSpec \/ PodsAppear \/ PodsDrained
  BY <1>5 DEF UserDeletes, UserChangesSpec, PodsAppear, PodsDrained
<1>6. CASE ClusterNamespaceDeleted \/ NetworkNamespaceRemoved \/ CordonChanges \/ ConfigSpoiled
  BY <1>6 DEF ClusterNamespaceDeleted, PutNamespace, NetworkNamespaceRemoved, CordonChanges, ConfigSpoiled
<1>7. QED
  BY <1>1, <1>2, <1>3, <1>4, <1>5, <1>6 DEF HostNext, Controllers, Users

(* A step that takes something away from an active network is a call of a  *)
(* delete pass behind an empty list of pods.                               *)
LEMMA TakesDownDrained ==
  ASSUME IInv, DrainedInv, [Next]_vars, [NoReturn]_vars
  PROVE  [cr # "live" /\ TakesDown => ~pods]_vars
<1>1. CASE DeleteNamespace \/ DeleteLegacyDaemonSet \/ DeleteDaemonSet
  <2>1. step \in {"DeleteNamespace", "DeleteLegacyDaemonSet", "DeleteDaemonSet"}
    BY <1>1 DEF DeleteNamespace, DeleteLegacyDaemonSet, DeleteDaemonSet, At
  <2>2. pass = "delete"
    BY <2>1, PassKind DEF IInv, OrderInv, PassInv, CreateSteps, GrantSteps
  <2>3. QED
    BY <2>1, <2>2 DEF DrainedInv
<1>2. CASE Spares \/ namespaces["network"] # "Active" \/ cr = "live"
  BY <1>2 DEF Spares, TakesDown
<1>3. CASE CallFails \/ Crash \/ Rest
  BY <1>3 DEF CallFails, Crash, Rest, TakesDown, vars, hostVars, groupVars, loadVars
<1>4. QED
  BY <1>1, <1>2, <1>3, WorkerSpares, HostSpares DEF Next, HostStep

(* As long as no pod comes back, a deletion takes nothing away from an     *)
(* active network while the guest cluster still has pods, whatever fails   *)
(* and crashes, and whatever was disturbed before.                         *)
THEOREM DrainedFirst == Spec /\ StaysQuiet => DrainBeforeTeardown
<1>1. Init => DrainedInv
  BY DEF Init, DrainedInv
<1>2. IInv /\ DrainedInv /\ [Next]_vars /\ [NoReturn]_vars
        => DrainedInv' /\ [cr # "live" /\ TakesDown => ~pods]_vars
  BY DrainedNext, TakesDownDrained
<1>3. QED
  BY <1>1, <1>2, Invariance, PTL DEF Spec, StaysQuiet, DrainBeforeTeardown

----------------------------------------------------------------------------
(* Steps that leave the job, its namespace and the nodes it counted alone, *)
(* and do not reach a step at which more is claimed of them.               *)
SparesJob ==
  /\ UNCHANGED <<job, schedulable>>
  /\ namespaces'["destroyer"] = namespaces["destroyer"]
  /\ step' \in {"CreateJob", "WaitJob"} => step' = step /\ replicas' = replicas
  /\ step' = "DeleteDestroyer" => step' = step

(* Such steps preserve the invariant.                                      *)
LEMMA SparesJobInv == ASSUME JobInv, SparesJob PROVE JobInv'
BY DEF JobInv, SparesJob

(* Failures, retried or not, and ends of passes that leave the host        *)
(* cluster alone are such steps.                                           *)
LEMMA FailureSparesJob ==
  ASSUME Retry \/ GiveUp \/ EndPass, UNCHANGED hostVars
  PROVE  SparesJob
BY DEF SparesJob, Retry, RetryPoint, GiveUp, EndPass, hostVars, groupVars, loadVars, nodeVars,
       ConfigEntry, NamespaceEntry, LegacyEntry, FlanneldEntry, ConfigSteps, NamespaceSteps,
       LegacySteps, GrantSteps, TearDownSteps, SetupSteps, CleanUpSteps, FlanneldSteps

(* So is the error of a resource.                                          *)
LEMMA FailSparesJob == ASSUME Fail PROVE SparesJob
BY FailureSparesJob DEF Fail

(* All resources but the legacy one have nothing to do with the job.       *)
LEMMA OthersSpareJob ==
  ASSUME IInv, AddFinalizer \/ StartPass \/ FinishPass \/ NetworkConfigNext
               \/ NamespaceNext \/ FlanneldNext
  PROVE  SparesJob
<1>0. namespaces \in [Namespaces -> Phases]
  BY DEF IInv, TypeOK, HostTypeOK
<1> USE <1>0, FailSparesJob
    DEF SparesJob, hostVars, groupVars, loadVars, nodeVars, dataVars, Namespaces, Goto,
        NextResource, KeepAndCancelResource, CancelReconciliation, AfterResource,
        NamespaceEntry, LegacyEntry, FlanneldEntry
<1>1. CASE AddFinalizer \/ StartPass \/ FinishPass
  BY <1>1 DEF AddFinalizer, PutFinalizer, workerVars, passVars, StartPass, ConfigEntry,
              FinishPass, EndPass
<1>2. CASE NetworkConfigNext
  <2>1. CASE GetConfig
    BY <2>1 DEF GetConfig
  <2>2. CASE CreateConfig \/ ClearConfig \/ WriteConfig \/ DeleteConfig
    BY <2>2 DEF CreateConfig, ClearConfig, WriteConfig, DeleteConfig, StoreCreate,
                StoreDelete, PutConfig
  <2>3. QED
    BY <1>2, <2>1, <2>2 DEF NetworkConfigNext
<1>3. CASE NamespaceNext
  <2>1. CASE GetNamespace \/ ListNamespacePods
    BY <2>1 DEF GetNamespace, ListNamespacePods
  <2>2. CASE CreateNamespace \/ DeleteNamespace
    BY <2>2 DEF CreateNamespace, DeleteNamespace, PutNamespace
  <2>3. QED
    BY <1>3, <2>1, <2>2 DEF NamespaceNext
<1>4. CASE FlanneldNext
  <2>1. CASE GetLegacyDaemonSet \/ ListAgentPods \/ GetDaemonSet
    BY <2>1 DEF GetLegacyDaemonSet, ListAgentPods, GetDaemonSet
  <2>2. CASE CreateDaemonSet \/ DeleteDaemonSet
    BY <2>2 DEF CreateDaemonSet, DeleteDaemonSet, PutDaemonSets
  <2>3. QED
    BY <1>4, <2>1, <2>2 DEF FlanneldNext
<1>5. QED
  BY <1>1, <1>2, <1>3, <1>4

(* The legacy resource counts the nodes, creates the job with that many    *)
(* pods, and deletes its namespace when as many have succeeded.            *)
LEMMA LegacyJob == ASSUME IInv, JobInv, LegacyNext PROVE JobInv'
<1>0. /\ namespaces \in [Namespaces -> Phases]
      /\ namespaces["destroyer"] = "Absent" => ~job.created
      /\ ~job.created => job.running = {}
  BY DEF IInv, TypeOK, HostTypeOK, OrderInv, ContentInv
<1> USE <1>0, FailSparesJob, SparesJobInv
    DEF SparesJob, hostVars, groupVars, loadVars, nodeVars, dataVars, Namespaces, Goto,
        NextResource, KeepAndCancelResource, AfterResource, NamespaceEntry, LegacyEntry,
        FlanneldEntry
<1>1. CASE CreateAccount \/ BindNetwork \/ BindNetworkPsp
  BY <1>1 DEF CreateAccount, CreateServiceAccount, PutAccounts, BindNetwork,
              BindNetworkPsp, Bind, PutBindings
<1>2. CASE ListNetworkPods \/ DeleteLegacyDaemonSet \/ DeleteAccount
  BY <1>2 DEF ListNetworkPods, DeleteLegacyDaemonSet, PutDaemonSets, DeleteAccount,
              PutAccounts
<1>3. CASE WaitClusterNamespace \/ WaitNetworkNamespace
  BY <1>3 DEF WaitClusterNamespace, WaitNetworkNamespace, WaitForNamespaceDeleted
<1>4. CASE CreateDestroyer
  BY <1>4 DEF CreateDestroyer, PutNamespace, JobInv
<1>5. CASE GetDestroyer
  BY <1>5 DEF GetDestroyer
<1>6. CASE BindDeletion \/ BindDeletionPsp \/ CreateDestroyerAccount
  BY <1>6 DEF BindDeletion, BindDeletionPsp, Bind, PutBindings, CreateDestroyerAccount,
              CreateServiceAccount, PutAccounts
<1>7. CASE CountNodes
  BY <1>7 DEF CountNodes, JobInv
<1>8. CASE CreateJob
  <2>1. CASE Fail
    BY <2>1
  <2>2. CASE Accepts("destroyer") /\ Goto("WaitJob")
             /\ PutJob(IF job.created THEN job ELSE NewJob(replicas))
    <3>1. /\ replicas = Cardinality(schedulable) /\ replicas \in Nat
          /\ namespaces["destroyer"] = "Active"
      BY <1>8, <2>2 DEF CreateJob, At, JobInv, Accepts, IInv, TypeOK, WorkerTypeOK
    <3>2. UNCHANGED <<namespaces, schedulable, replicas>> /\ step' = "WaitJob"
      BY <2>2 DEF PutJob
    <3>3. CASE job.created
      BY <2>2, <3>1, <3>2, <3>3 DEF PutJob, JobInv
    <3>4. CASE ~job.created
      <4>1. job' = NewJob(replicas)
        BY <2>2, <3>4 DEF PutJob
      <4>2. job'.completions = replicas /\ job'.succeeded = 0 /\ job'.running = {}
        BY <4>1 DEF NewJob
      <4>3. Cardinality({}) = 0
        BY FS_EmptySet
      <4>4. QED
        BY <3>1, <3>2, <4>2, <4>3 DEF JobInv
    <3>5. QED
      BY <3>3, <3>4
  <2>3. QED
    BY <1>8, <2>1, <2>2 DEF CreateJob
<1>9. CASE WaitJob
  BY <1>9 DEF WaitJob, At, JobInv
<1>10. CASE DeleteDestroyer
  BY <1>10 DEF DeleteDestroyer, At, PutNamespace, JobInv
<1>11. CASE UnbindDeletion \/ UnbindNetwork \/ UnbindNetworkPsp \/ UnbindDeletionPsp
  BY <1>11 DEF UnbindDeletion, UnbindNetwork, UnbindNetworkPsp, UnbindDeletionPsp,
               Unbind, PutBindings
<1>12. QED
  BY <1>1, <1>2, <1>3, <1>4, <1>5, <1>6, <1>7, <1>8, <1>9, <1>10, <1>11 DEF LegacyNext

(* One pod more at work, or one that has succeeded.                        *)
LEMMA JobPodsJob ==
  ASSUME IInv, JobInv, NEW n \in Nodes, JobPodStarts(n) \/ JobPodSucceeds(n),
         UNCHANGED workerVars
  PROVE  JobInv' /\ job'.created = job.created
<1>0. UNCHANGED <<step, replicas>>
  BY DEF workerVars, passVars, dataVars
<1>1. /\ IsFiniteSet(job.running) /\ job \in Jobs
      /\ ~job.created => job.running = {}
  BY HostAssumption, FS_Subset DEF IInv, TypeOK, HostTypeOK, Jobs, OrderInv, ContentInv
<1>2. Cardinality(job.running) \in Nat /\ job.succeeded \in Nat /\ job.completions \in Nat
  BY <1>1, FS_CardinalityType DEF Jobs
<1>3. CASE JobPodStarts(n)
  <2>1. /\ job' = [job EXCEPT !.running = @ \cup {n}]
        /\ UNCHANGED <<namespaces, schedulable>>
        /\ job.created /\ n \notin job.running
        /\ job.succeeded + Cardinality(job.running) < job.completions
        /\ namespaces["destroyer"] = "Active"
    BY <1>3 DEF JobPodStarts, PutJob, groupVars, nodeVars, Admitted, Accepts
  <2>2. Cardinality(job.running \cup {n}) = Cardinality(job.running) + 1
    BY <1>1, <2>1, FS_AddElement
  <2>3. step # "DeleteDestroyer"
    BY <1>2, <2>1 DEF JobInv
  <2>4. /\ job'.created = job.created /\ job'.completions = job.completions
        /\ job'.succeeded = job.succeeded /\ job'.running = job.running \cup {n}
    BY <1>1, <2>1 DEF Jobs
  <2>5. job'.succeeded + Cardinality(job'.running) <= job'.completions
    BY <1>2, <2>1, <2>2, <2>4
  <2>6. namespaces'["destroyer"] = "Active" /\ step' # "DeleteDestroyer"
    BY <1>0, <2>1, <2>3
  <2>7. job'.completions = Cardinality(schedulable')
    BY <2>1, <2>4 DEF JobInv
  <2>8. step' \in {"CreateJob", "WaitJob"} => replicas' = Cardinality(schedulable')
    BY <1>0, <2>1 DEF JobInv
  <2>9. QED
    BY <2>4, <2>5, <2>6, <2>7, <2>8 DEF JobInv
<1>4. CASE JobPodSucceeds(n)
  <2>1. /\ n \in job.running /\ UNCHANGED <<namespaces, schedulable>>
        /\ job'.created = job.created /\ job'.completions = job.completions
        /\ job'.succeeded = job.succeeded + 1 /\ job'.running = job.running \ {n}
    BY <1>4 DEF JobPodSucceeds, groupVars
  <2>2. Cardinality(job.running \ {n}) = Cardinality(job.running) - 1
    BY <1>1, <2>1, FS_RemoveElement
  <2>3. job.created /\ Cardinality(job.running) > 0
    BY <1>1, <1>2, <2>1, FS_EmptySet
  <2>4. job.succeeded # job.completions
    BY <1>2, <2>3 DEF JobInv
  <2>5. QED
    BY <1>0, <1>2, <2>1, <2>2, <2>3, <2>4 DEF JobInv
<1>5. QED
  BY <1>3, <1>4

(* The rest of the host cluster leaves the job alone, but for the          *)
(* namespace controller, which takes it away with its namespace.           *)
LEMMA HostJob ==
  ASSUME SameNodes, IInv, JobInv, HostNext, UNCHANGED workerVars
  PROVE  JobInv'
<1>0. namespaces \in [Namespaces -> Phases]
  BY DEF IInv, TypeOK, HostTypeOK
<1> USE <1>0, SparesJobInv
    DEF SparesJob, workerVars, passVars, dataVars, groupVars, loadVars, nodeVars, Namespaces
<1>1. CASE CollectAccount \/ CollectDaemonSets
  BY <1>1 DEF CollectAccount, PutAccounts, CollectDaemonSets, PutDaemonSets
<1>2. CASE CollectJob
  BY <1>2 DEF CollectJob, PutJob, NoJob, JobInv
<1>3. ASSUME NEW n \in Namespaces, RemoveNamespace(n) PROVE JobInv'
  BY <1>3 DEF RemoveNamespace, PutNamespace, JobInv
<1>4. ASSUME NEW n \in Nodes, AgentStarts(n) \/ AgentWritesEnvFile(n) \/ AgentBuildsBridge(n) \/ AgentStops(n)
      PROVE  JobInv'
  BY <1>4 DEF AgentStarts, AgentWritesEnvFile, AgentBuildsBridge, AgentStops
<1>5. ASSUME NEW n \in Nodes, JobPodStarts(n) \/ JobPodSucceeds(n) PROVE JobInv'
  BY <1>5, JobPodsJob
<1>6. CASE UserDeletes \/ UserChangesSpec \/ PodsAppear \/ PodsDrained \/ ConfigSpoiled
  BY <1>6 DEF UserDeletes, UserChangesSpec, PodsAppear, PodsDrained, ConfigSpoiled
<1>7. CASE ClusterNamespaceDeleted \/ NetworkNamespaceRemoved
  BY <1>7 DEF ClusterNamespaceDeleted, PutNamespace, NetworkNamespaceRemoved
<1>8. CASE CordonChanges
  <2>1. CASE cr = "live"
    <3>1. ~job.created /\ step \notin {"CreateJob", "WaitJob", "DeleteDestroyer"}
      BY <2>1 DEF IInv, OrderInv, ContentInv, TornDownInv, PassInv, TypeOK, WorkerTypeOK,
                  CreateSteps, GrantSteps
    <3>2. QED
      BY <1>8, <3>1 DEF CordonChanges, JobInv
  <2>2. CASE cr # "live"
    BY <1>8, <2>2 DEF CordonChanges, SameNodes
  <2>3. QED
    BY <2>1, <2>2
<1>9. QED
  BY <1>1, <1>2, <1>3, <1>4, <1>5, <1>6, <1>7, <1>8 DEF HostNext, Controllers, Users

(* Every step preserves the invariant.                                     *)
LEMMA JobNext == ASSUME IInv, JobInv, [Next]_vars, [SameNodes]_vars PROVE JobInv'
<1>1. CASE LegacyNext
  BY <1>1, LegacyJob
<1>2. CASE AddFinalizer \/ StartPass \/ FinishPass \/ NetworkConfigNext
           \/ NamespaceNext \/ FlanneldNext
  BY <1>2, OthersSpareJob, SparesJobInv
<1>3. CASE CallFails \/ Crash
  BY <1>3, FailureSparesJob, SparesJobInv DEF CallFails, Crash
<1>4. CASE HostStep /\ SameNodes
  BY <1>4, HostJob DEF HostStep
<1>5. CASE Rest \/ UNCHANGED vars
  BY <1>5 DEF Rest, vars, JobInv, hostVars, groupVars, loadVars, nodeVars, workerVars,
              passVars, dataVars
<1>6. QED
  BY <1>1, <1>2, <1>3, <1>4, <1>5 DEF Next, OperatorNext

(* Only the namespace controller takes a job away.                         *)
LEMMA JobStays ==
  ASSUME IInv, JobInv, Next, ~(CollectJob /\ UNCHANGED workerVars), job.created
  PROVE  job'.created
<1>1. CASE CreateJob
  BY <1>1 DEF CreateJob, PutJob, Fail, hostVars, loadVars
<1>2. CASE LegacyNext /\ ~CreateJob
  <2>1. UNCHANGED job
    BY <1>2
    DEF LegacyNext, CreateAccount, BindNetwork, BindNetworkPsp, ListNetworkPods,
        DeleteLegacyDaemonSet, DeleteAccount, WaitClusterNamespace, WaitNetworkNamespace,
        WaitForNamespaceDeleted, CreateDestroyer, GetDestroyer, BindDeletion,
        BindDeletionPsp, CreateDestroyerAccount, CountNodes, WaitJob, DeleteDestroyer,
        UnbindDeletion, UnbindNetwork, UnbindNetworkPsp, UnbindDeletionPsp, Bind, Unbind,
        CreateServiceAccount, PutAccounts, PutBindings, PutNamespace, PutDaemonSets, Fail,
        hostVars, loadVars
  <2>2. QED
    BY <2>1
<1>3. CASE AddFinalizer \/ StartPass \/ FinishPass \/ NetworkConfigNext
           \/ NamespaceNext \/ FlanneldNext \/ CallFails \/ Crash
  BY <1>3, OthersSpareJob, FailureSparesJob DEF CallFails, Crash, SparesJob
<1>4. CASE HostStep
  <2>1. ASSUME NEW n \in Nodes, JobPodStarts(n) \/ JobPodSucceeds(n), UNCHANGED workerVars
        PROVE  job'.created
    BY <2>1, JobPodsJob
  <2>2. CASE \/ CollectAccount \/ CollectDaemonSets
             \/ \E n \in Namespaces : RemoveNamespace(n)
             \/ \E n \in Nodes : AgentStarts(n) \/ AgentWritesEnvFile(n) \/ AgentBuildsBridge(n) \/ AgentStops(n)
             \/ Users
    <3>1. UNCHANGED job
      BY <2>2
      DEF CollectAccount, CollectDaemonSets, RemoveNamespace, PutAccounts, PutDaemonSets,
          PutNamespace, AgentStarts, AgentWritesEnvFile, AgentBuildsBridge, AgentStops, Users, UserDeletes,
          UserChangesSpec, PodsAppear, PodsDrained, ClusterNamespaceDeleted,
          NetworkNamespaceRemoved, CordonChanges, ConfigSpoiled, loadVars
    <3>2. QED
      BY <3>1
  <2>3. QED
    BY <1>4, <2>1, <2>2 DEF HostStep, HostNext, Controllers
<1>5. CASE Rest
  BY <1>5 DEF Rest, vars, hostVars, loadVars
<1>6. QED
  BY <1>1, <1>2, <1>3, <1>4, <1>5 DEF Next, OperatorNext

(* When the controller takes the job away no pod of it is at work.         *)
LEMMA CollectedIdle ==
  ASSUME IInv, JobInv, CollectJob
  PROVE  job.running = {}
<1>1. IsFiniteSet(job.running) /\ job.succeeded \in Nat /\ Cardinality(job.running) \in Nat
  BY HostAssumption, FS_Subset, FS_CardinalityType DEF IInv, TypeOK, HostTypeOK, Jobs
<1>2. Cardinality(job.running) = 0
  BY <1>1 DEF CollectJob, JobInv
<1>3. QED
  BY <1>1, <1>2, FS_EmptySet

(* What the job has to do with the nodes.                                  *)
LEMMA JobInvariance == Spec /\ NodesAsTheyAre => []JobInv
<1>1. Init => JobInv
  BY DEF Init, NoJob, JobInv
<1>2. IInv /\ JobInv /\ [Next]_vars /\ [SameNodes]_vars => JobInv'
  BY JobNext
<1>3. QED
  BY <1>1, <1>2, Invariance, PTL DEF Spec, NodesAsTheyAre

(* As long as no node is cordoned or uncordoned during the deletion, no    *)
(* pod of the cleanup job is taken off its node: the destroyer namespace   *)
(* is deleted when all of them are through.                                *)
THEOREM PodsFinish == Spec /\ NodesAsTheyAre => NoPodInterrupted
<1>1. IInv /\ JobInv /\ [Next]_vars
        => [job.created /\ ~job'.created => job.running = {}]_vars
  BY JobStays, CollectedIdle
<1>2. QED
  BY <1>1, JobInvariance, Invariance, PTL DEF Spec, NoPodInterrupted

(* "Wait for the cleanup job to complete" (legacy/resource.go:360) is true *)
(* of the code as long as the nodes stay as they are: a change of what can *)
(* be scheduled is the only way for the wait to end early.                 *)
THEOREM JobWaitedFor == Spec /\ NodesAsTheyAre => []WaitsForJob
<1>1. JobInv => WaitsForJob
  BY DEF JobInv, WaitsForJob
<1>2. QED
  BY <1>1, JobInvariance, PTL

----------------------------------------------------------------------------
(* What is true of a network whatever its worker does, and is enough for   *)
(* the worker to begin with.                                               *)
Left ==
  /\ HostTypeOK /\ ContentInv
  /\ namespaces["destroyer"] # "Absent" => namespaces["network"] = "Absent" /\ cr # "live"
  /\ CleanupJobHasItsRights /\ RightsBeforeUse
  /\ DeletedNetworkIsDown
  /\ cr = "live" /\ ~finalizer => namespaces["network"] = "Absent"

(* At first everything is in order.                                        *)
LEMMA AtFirst == ASSUME Init PROVE IInv /\ DownInv
<1>1. TypeOK /\ OrderInv
  BY InitType, InitInv
<1>2. DownInv
  BY DEF Init, Created, Upgraded, DownInv, DeletedNetworkIsDown
<1>3. QED
  BY <1>1, <1>2 DEF IInv

(* A worker leaves its network so, in whatever step it is.                 *)
LEMMA WorkerLeaves == ASSUME IInv, DownInv PROVE Left
BY DEF IInv, OrderInv, TypeOK, TornDownInv, DestroyerInv, NetworkRightsInv, DownInv, Left

(* A worker that has no pass may take it up again.                         *)
LEMMA WorkerReturns ==
  ASSUME Left, WorkerTypeOK, pass = "none", step = "Idle"
  PROVE  IInv /\ DownInv
BY DEF Left, IInv, OrderInv, TypeOK, PassInv, TornDownInv, DestroyerInv, NetworkRightsInv,
       ProgressInv, DownInv, UnbindSteps, ConfigSteps, GrantSteps, SetupSteps, CleanUpSteps,
       FlanneldSteps

(* In the meantime the host cluster goes on.                               *)
LEMMA HostGoesOn == ASSUME Left, HostNext PROVE Left'
<1>0. HostTypeOK' /\ namespaces \in [Namespaces -> Phases]
  BY HostNextType DEF Left, HostTypeOK
<1> USE <1>0 DEF Left, ContentInv, CleanupJobHasItsRights, RightsBeforeUse,
        DeletedNetworkIsDown, userVars, groupVars, loadVars, rbacVars, nodeVars, Namespaces
<1>1. CASE CollectAccount
  BY <1>1 DEF CollectAccount, PutAccounts
<1>2. CASE CollectDaemonSets
  BY <1>2 DEF CollectDaemonSets, PutDaemonSets
<1>3. CASE CollectJob
  BY <1>3 DEF CollectJob, PutJob, NoJob
<1>4. ASSUME NEW n \in Namespaces, RemoveNamespace(n) PROVE Left'
  BY <1>4 DEF RemoveNamespace, PutNamespace, IsEmpty
<1>5. ASSUME NEW n \in Nodes, AgentStarts(n) PROVE Left'
  BY <1>5 DEF AgentStarts, Admitted, Accepts
<1>6. ASSUME NEW n \in Nodes, AgentWritesEnvFile(n) \/ AgentBuildsBridge(n) \/ AgentStops(n)
      PROVE  Left'
  BY <1>6 DEF AgentWritesEnvFile, AgentBuildsBridge, AgentStops
<1>7. ASSUME NEW n \in Nodes, JobPodStarts(n) PROVE Left'
  BY <1>7 DEF JobPodStarts, PutJob, Admitted, Accepts
<1>8. ASSUME NEW n \in Nodes, JobPodSucceeds(n) PROVE Left'
  BY <1>8 DEF JobPodSucceeds
<1>9. CASE UserDeletes
  BY <1>9 DEF UserDeletes
<1>10. CASE UserChangesSpec \/ PodsAppear \/ PodsDrained \/ CordonChanges \/ ConfigSpoiled
  BY <1>10 DEF UserChangesSpec, PodsAppear, PodsDrained, CordonChanges, ConfigSpoiled
<1>11. CASE ClusterNamespaceDeleted
  BY <1>11 DEF ClusterNamespaceDeleted, PutNamespace
<1>12. CASE NetworkNamespaceRemoved
  BY <1>12 DEF NetworkNamespaceRemoved
<1>13. QED
  BY <1>1, <1>2, <1>3, <1>4, <1>5, <1>6, <1>7, <1>8, <1>9, <1>10, <1>11, <1>12
  DEF HostNext, Controllers, Users

(* As long as no worker creates anything for it, such a network goes       *)
(* through the life cycle on its own.                                      *)
LeftStage ==
  IF job.created THEN "cleaning"
  ELSE IF namespaces["network"] = "Absent" /\ cr # "live" THEN "closed"
  ELSE "open"

LeftLifecycle == INSTANCE NetworkLifecycle WITH stage <- LeftStage, cleaners <- job.running

(* Whatever the host cluster does with it is a step of that life cycle.     *)
LEMMA LeftStep == ASSUME Left, HostNext PROVE [LeftLifecycle!Next]_(LeftLifecycle!vars)
<1>1. HostTypeOK /\ job \in Jobs
  BY DEF Left, HostTypeOK
<1>2. job.created => namespaces["network"] = "Absent" /\ cr # "live"
  BY DEF Left, ContentInv
<1>3. /\ cr # "live" => cr' # "live"
      /\ namespaces["network"] = "Absent" => namespaces'["network"] = "Absent"
      /\ HostWorksOnBridges \/ UNCHANGED <<agents, job, bridges>>
  BY <1>1, HostEffect
<1>4. CASE UNCHANGED <<agents, job, bridges>>
  <2>1. CASE LeftStage' = LeftStage
    BY <1>4, <2>1 DEF LeftLifecycle!vars
  <2>2. CASE LeftStage' # LeftStage
    <3>1. LeftStage = "open" /\ LeftStage' = "closed" /\ namespaces'["network"] = "Absent"
      BY <1>3, <1>4, <2>2 DEF LeftStage
    <3>2. Left'
      BY HostGoesOn
    <3>3. agents = {}
      BY <1>4, <3>1, <3>2 DEF Left, ContentInv
    <3>4. LeftLifecycle!Close
      BY <1>4, <3>1, <3>3 DEF LeftLifecycle!Close
    <3>5. QED
      BY <3>4 DEF LeftLifecycle!Next
  <2>3. QED
    BY <2>1, <2>2
<1>5. CASE HostWorksOnBridges
  <2>1. UNCHANGED <<cr, namespaces>>
    BY <1>5 DEF HostWorksOnBridges
  <2> USE <2>1 DEF LeftStage, LeftLifecycle!Next
  <2>2. CASE namespaces["network"] = "Active" /\ UNCHANGED <<job, bridges>>
             /\ \E n \in Nodes : agents' = agents \cup {n}
    <3>1. LeftStage = "open"
      BY <1>2, <2>2
    <3>2. QED
      BY <2>2, <3>1 DEF LeftLifecycle!AgentStarts
  <2>3. ASSUME NEW n \in Nodes, agents' = agents \ {n}, UNCHANGED <<job, bridges>>
        PROVE  LeftLifecycle!Next
    BY <2>3 DEF LeftLifecycle!AgentStops
  <2>4. ASSUME NEW n \in Nodes \cap agents, bridges' = bridges \cup {n},
               UNCHANGED <<agents, job>>
        PROVE  LeftLifecycle!Next
    BY <2>4 DEF LeftLifecycle!BridgeBuilt
  <2>5. ASSUME NEW n \in Nodes, job.created, job'.created,
               job'.running = job.running \cup {n}, UNCHANGED <<agents, bridges>>
        PROVE  LeftLifecycle!Next
    BY <2>5 DEF LeftLifecycle!CleanerStarts
  <2>6. ASSUME NEW n \in Nodes \cap job.running, job'.created = job.created,
               job'.running = job.running \ {n}, bridges' = bridges \ {n}, UNCHANGED agents
        PROVE  LeftLifecycle!Next
    BY <2>6 DEF LeftLifecycle!CleanerSucceeds
  <2>7. CASE job.created /\ job' = NoJob /\ UNCHANGED <<agents, bridges>>
    <3>1. LeftStage = "cleaning" /\ LeftStage' = "closed" /\ job'.running = {}
      BY <1>2, <2>7 DEF NoJob
    <3>2. QED
      BY <2>7, <3>1 DEF LeftLifecycle!StopCleaning
  <2>8. QED
    BY <1>5, <2>2, <2>3, <2>4, <2>5, <2>6, <2>7 DEF HostWorksOnBridges
<1>6. QED
  BY <1>3, <1>4, <1>5

(* A worker that stays, in the host cluster around it, keeps everything in *)
(* order.                                                                  *)
LEMMA WorkerStays ==
  ASSUME IInv, DownInv, OperatorNext \/ CallFails \/ Crash \/ (HostNext /\ UNCHANGED workerVars)
  PROVE  IInv' /\ DownInv'
BY NextInv, DownNext DEF Next, HostStep

(* Nodes may be cordoned on account of somebody else.                      *)
Elsewhere ==
  /\ schedulable' \subseteq Nodes
  /\ UNCHANGED <<userVars, config, groupVars, loadVars, rbacVars, envFiles, bridges, churn>>

LEMMA LeftElsewhere == ASSUME Left, Elsewhere PROVE Left'
BY DEF Left, Elsewhere, HostTypeOK, ContentInv, CleanupJobHasItsRights, RightsBeforeUse,
       DeletedNetworkIsDown, userVars, groupVars, loadVars, rbacVars

(* That does not matter to a worker, either.                               *)
LEMMA WorkerElsewhere ==
  ASSUME IInv, DownInv, Elsewhere, UNCHANGED workerVars
  PROVE  IInv' /\ DownInv'
<1>1. TypeOK'
  BY DEF IInv, TypeOK, HostTypeOK, WorkerTypeOK, Elsewhere, workerVars, passVars, dataVars,
         userVars, groupVars, loadVars, rbacVars
<1>2. UNCHANGED <<userVars, config, groupVars, loadVars, rbacVars, workerVars>>
  BY DEF Elsewhere
<1>3. OrderInv' /\ DownInv'
  BY <1>2 DEF IInv, OrderInv, PassInv, ContentInv, TornDownInv, DestroyerInv, NetworkRightsInv,
              ProgressInv, CleanupJobHasItsRights, RightsBeforeUse, Clean, DownInv,
              DeletedNetworkIsDown, userVars, groupVars, loadVars, rbacVars, workerVars, passVars,
              dataVars
<1>4. QED
  BY <1>1, <1>3 DEF IInv

(* At first a network is as it was found.                                  *)
LEMMA FoundAtFirst == ASSUME Init PROVE AsFound /\ pass = "none"
BY HostAssumption DEF HostAssumption, Init, Created, Upgraded, NoJob, AsFound

(* A disturbance is not forgotten.                                         *)
LEMMA ChurnGrows == ASSUME HostTypeOK, HostNext, churn' = 0 PROVE churn = 0
<1>1. churn \in Nat
  BY HostAssumption DEF HostTypeOK
<1>2. churn' = churn \/ Disturb
  BY DEF HostNext, Controllers, Users, CollectAccount, CollectDaemonSets, CollectJob,
         RemoveNamespace, AgentStarts, AgentWritesEnvFile, AgentBuildsBridge, AgentStops, JobPodStarts,
         JobPodSucceeds, UserDeletes, UserChangesSpec, PodsAppear, PodsDrained,
         ClusterNamespaceDeleted, NetworkNamespaceRemoved, CordonChanges, ConfigSpoiled, PutAccounts,
         PutDaemonSets, PutJob, PutNamespace
<1>3. QED
  BY <1>1, <1>2 DEF Disturb

(* A network that no worker touches stays as it was found, unless somebody *)
(* disturbs it.                                                            *)
LEMMA FoundStays == ASSUME HostTypeOK, AsFound, HostNext, churn' = 0 PROVE AsFound'
<1>0. namespaces \in [Namespaces -> Phases] /\ churn \in Nat
  BY HostAssumption DEF HostTypeOK
<1> USE <1>0 DEF AsFound, userVars, groupVars, loadVars, rbacVars, nodeVars, Namespaces
<1>1. CASE CollectAccount \/ CollectDaemonSets \/ CollectJob
  BY <1>1 DEF CollectAccount, PutAccounts, CollectDaemonSets, PutDaemonSets, CollectJob, PutJob
<1>2. ASSUME NEW n \in Namespaces, RemoveNamespace(n) PROVE AsFound'
  BY <1>2 DEF RemoveNamespace, PutNamespace
<1>3. ASSUME NEW n \in Nodes, AgentStarts(n) \/ AgentWritesEnvFile(n) \/ AgentBuildsBridge(n) \/ AgentStops(n)
      PROVE  AsFound'
  BY <1>3 DEF AgentStarts, AgentWritesEnvFile, AgentBuildsBridge, AgentStops
<1>4. ASSUME NEW n \in Nodes, JobPodStarts(n) \/ JobPodSucceeds(n) PROVE AsFound'
  <2>1. ~JobPodStarts(n)
    BY DEF JobPodStarts
  <2>2. QED
    BY <1>4, <2>1 DEF JobPodSucceeds
<1>5. CASE UserDeletes \/ UserChangesSpec \/ PodsAppear \/ PodsDrained \/ CordonChanges \/ ConfigSpoiled
  BY <1>5 DEF UserDeletes, UserChangesSpec, PodsAppear, PodsDrained, CordonChanges, ConfigSpoiled, Disturb
<1>6. CASE ClusterNamespaceDeleted
  BY <1>6 DEF ClusterNamespaceDeleted, PutNamespace
<1>7. CASE NetworkNamespaceRemoved
  BY <1>7 DEF NetworkNamespaceRemoved, Disturb
<1>8. QED
  BY <1>1, <1>2, <1>3, <1>4, <1>5, <1>6, <1>7 DEF HostNext, Controllers, Users
=============================================================================
