-------------------------------- MODULE Fleet --------------------------------
(***************************************************************************)
(* Two FlannelConfigs, A and B, under one operator.  The controller of     *)
(* network.go has a single worker that takes one FlannelConfig at a time   *)
(* through its resources, and hands it only those whose version bundle is  *)
(* its own (handlesFunc in resource_set.go).  The FlannelConfigs share     *)
(* the worker, its waits and the nodes; objects they are taken to have     *)
(* none in common (SharedObjects says when that is so).                    *)
(*                                                                         *)
(* A has the host variables of FlannelOperator, B those of an instance;    *)
(* the worker's variables belong to both.                                  *)
(***************************************************************************)
EXTENDS FlannelOperator

CONSTANTS
  Bundles,     \* the version bundles a FlannelConfig may be created with
  OwnBundle,   \* VersionBundle().Version
  MaxUpgrades  \* bound on changes of a version bundle

ASSUME FleetAssumption == MaxUpgrades \in Nat

VARIABLES
  turn,      \* the FlannelConfig of the current or latest pass
  bundle,    \* spec.versionBundle.version of either
  upgrades,  \* how often one was changed
  crB, finalizerB, specB, configB, namespacesB, podsB, daemonSetsB, agentsB,
  accountsB, bindingsB, jobB, envFilesB, bridgesB, churnB

hostA     == <<userVars, config, groupVars, loadVars, rbacVars, envFiles, bridges, churn>>
hostB     == <<crB, finalizerB, specB, configB, namespacesB, podsB, daemonSetsB, agentsB,
               accountsB, bindingsB, jobB, envFilesB, bridgesB, churnB>>
fleetVars == <<vars, turn, bundle, upgrades, hostB>>

B == INSTANCE FlannelOperator WITH
       cr <- crB, finalizer <- finalizerB, spec <- specB, config <- configB,
       namespaces <- namespacesB, pods <- podsB, daemonSets <- daemonSetsB,
       agents <- agentsB, accounts <- accountsB, bindings <- bindingsB, job <- jobB,
       envFiles <- envFilesB, bridges <- bridgesB, churn <- churnB

FleetInit ==
  /\ Init /\ B!Init
  /\ turn = "A"
  /\ bundle \in [{"A", "B"} -> Bundles]
  /\ upgrades = 0

----------------------------------------------------------------------------
(* Mutant: whatever the version bundle, the FlannelConfig is reconciled.   *)
HandlesAll(x) == x \in {"A", "B"}

(* handlesFunc, asked once when an event of the FlannelConfig comes in.    *)
Handles(x) == bundle[x] = OwnBundle

(* The worker goes on with the pass it is in, also when its FlannelConfig  *)
(* has been given another bundle, or begins with one it handles.           *)
MayWorkOn(x) == IF pass = "none" THEN Handles(x) ELSE turn = x

WorkOnA ==
  /\ MayWorkOn("A")
  /\ OperatorNext
  /\ turn' = "A"
  /\ UNCHANGED <<bundle, upgrades, hostB>>

WorkOnB ==
  /\ MayWorkOn("B")
  /\ B!OperatorNext
  /\ turn' = "B"
  /\ UNCHANGED <<bundle, upgrades, hostA>>

(* Calls fail in either's passes, and the process dies in the middle.      *)
WorkFails ==
  /\ \/ turn = "A" /\ (CallFails \/ Crash) /\ UNCHANGED hostB
     \/ turn = "B" /\ (B!CallFails \/ B!Crash) /\ UNCHANGED hostA
  /\ UNCHANGED <<turn, bundle, upgrades>>

(* The user asks for another version, also one this operator does not have.*)
UserChangesBundle ==
  /\ upgrades < MaxUpgrades
  /\ upgrades' = upgrades + 1
  /\ \E x \in {"A", "B"}, v \in Bundles \cup {OwnBundle} :
       bundle[x] # v /\ bundle' = [bundle EXCEPT ![x] = v]
  /\ UNCHANGED <<vars, turn, hostB>>

ForA(act) == act /\ UNCHANGED <<workerVars, turn, bundle, upgrades, hostB>>
ForB(act) == act /\ UNCHANGED <<workerVars, turn, bundle, upgrades, hostA>>

(* Nothing to do: what is not gone is another version's.                   *)
FleetRest ==
  /\ pass = "none"
  /\ cr  = "gone" \/ ~Handles("A")
  /\ crB = "gone" \/ ~Handles("B")
  /\ UNCHANGED fleetVars

FleetNext ==
  \/ WorkOnA \/ WorkOnB \/ WorkFails
  \/ ForA(HostNext) \/ ForB(B!HostNext)
  \/ UserChangesBundle \/ FleetRest

(* The worker goes on with its pass.  The informer brings up every         *)
(* FlannelConfig again and again, so the worker, whenever it is free, may  *)
(* not pass over one for ever: strong fairness.  B's surroundings move on  *)
(* and B's guest cluster is drained.  Of A's nothing is assumed.           *)
FleetFairness ==
  /\ WF_fleetVars(pass # "none" /\ (WorkOnA \/ WorkOnB))
  /\ SF_fleetVars(pass = "none" /\ WorkOnB)
  /\ WF_fleetVars(ForB(B!Collects))
  /\ \A n \in Namespaces : WF_fleetVars(ForB(B!RemoveNamespace(n)))
  /\ WF_fleetVars(ForB(B!AgentMoves))
  /\ WF_fleetVars(ForB(B!JobPodMoves))
  /\ WF_fleetVars(ForB(B!PodsDrained))
  /\ WF_fleetVars(ForB(B!ClusterNamespaceDeleted))

FleetSpec == FleetInit /\ [][FleetNext]_fleetVars

----------------------------------------------------------------------------
(* Types: the variables of both networks and of the worker stay in their   *)
(* sets.                                                                   *)
FleetTypeOK ==
  /\ TypeOK /\ B!HostTypeOK
  /\ turn \in {"A", "B"}
  /\ bundle \in [{"A", "B"} -> Bundles \cup {OwnBundle}]
  /\ upgrades \in 0 .. MaxUpgrades

(* Whether a FlannelConfig was the operator's from the start, is given to  *)
(* it or taken from it, in the middle of a pass, too, and whatever turns   *)
(* the worker takes: the one that is released is the one that is clean,    *)
(* and no cleanup job meets an agent of its own network.                   *)
FinishedWith(x) == turn = x /\ pass = "delete" /\ step = "Finish" /\ ~kept

EachInOrder ==
  /\ FinishedWith("A") => Clean
  /\ FinishedWith("B") => B!Clean
  /\ CleanupAloneOnNodes /\ B!CleanupAloneOnNodes
  /\ DeletedNetworkIsDown /\ B!DeletedNetworkIsDown

(* So each network goes through the life cycle of its own: what the worker *)
(* does for the other one, or has done before it turned to it, neither     *)
(* brings it up again nor cleans up after it too early.                    *)
CreatesFor(x) == turn = x /\ pass = "create"

StageA ==
  IF job.created THEN "cleaning"
  ELSE IF namespaces["network"] = "Absent" /\ cr # "live" /\ ~CreatesFor("A") THEN "closed"
  ELSE "open"

StageB ==
  IF jobB.created THEN "cleaning"
  ELSE IF namespacesB["network"] = "Absent" /\ crB # "live" /\ ~CreatesFor("B") THEN "closed"
  ELSE "open"

LifecycleA == INSTANCE NetworkLifecycle WITH stage <- StageA, cleaners <- job.running

LifecycleB == INSTANCE NetworkLifecycle WITH
                stage <- StageB, agents <- agentsB, cleaners <- jobB.running,
                bridges <- bridgesB

EachImplementsLifecycle == LifecycleA!Spec /\ LifecycleB!Spec

(* A FlannelConfig that has always belonged to another version of the      *)
(* operator is left to it, with its network as that version has set it up, *)
(* also when it is deleted.                                                *)
Owned(x) == bundle[x] = OwnBundle

ForeignUntouched ==
  upgrades = 0 =>
    /\ ~Owned("A") /\ churn = 0 => AsFound
    /\ ~Owned("B") /\ churnB = 0 => B!AsFound

(* A FlannelConfig is released although the deletion of another one waits  *)
(* for ever for its guest cluster: a wait that gets nowhere ends, and the  *)
(* worker takes up the next FlannelConfig.                                 *)
NeighbourReleased == <>[]Owned("B") => (crB = "deleting" ~> crB = "gone")

(* Likewise one that stays gets its network and keeps it.                  *)
NeighbourConverges == <>[](Owned("B") /\ crB = "live") => <>[]B!Converged
=============================================================================
