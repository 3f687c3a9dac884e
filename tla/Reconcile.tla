----------------------------- MODULE Reconcile -----------------------------
(***************************************************************************)
(* The control flow every resource of the operator runs in.  The worker    *)
(* takes the FlannelConfig it was handed through the resources of          *)
(* resource_set.go one after the other, creating or deleting (a pass).     *)
(* A step is one call of the Kubernetes API or of etcd, so that anything   *)
(* may happen between two calls.  operatorkit itself is not in the         *)
(* repository: the order of the calls of a CRUD resource, what canceling a *)
(* resource or a reconciliation does, that finalizers may be kept and that *)
(* failures are retried is what the resources are written against.         *)
(***************************************************************************)
EXTENDS HostCluster

CONSTANTS
  MaxRetries,  \* how often a failing resource is retried within a pass
  MaxFaults    \* bound on failing calls and crashes

ASSUME ReconcileAssumption == MaxRetries \in Nat /\ MaxFaults \in Nat

VARIABLES
  pass,      \* "none", or the kind of the pass: "create" or "delete"
  step,      \* the next call of the pass
  object,    \* the network config in the FlannelConfig the pass was handed
  stored,    \* the network config GetCurrentState found in etcd
  found,     \* did GetCurrentState find the namespace (the daemon set)?
  replicas,  \* the number of schedulable nodes counted for the cleanup job
  kept,      \* finalizerskeptcontext
  attempts,  \* the retries of the current resource
  faults     \* how many calls failed and how often the operator crashed

dataVars   == <<object, stored, found, replicas>>
passVars   == <<pass, step, dataVars, kept, attempts>>
workerVars == <<passVars, faults>>

ConfigSteps    == {"GetConfig", "CreateConfig", "ClearConfig", "WriteConfig", "DeleteConfig"}
NamespaceSteps == {"GetNamespace", "ListNamespacePods", "CreateNamespace", "DeleteNamespace"}
GrantSteps     == {"CreateAccount", "BindNetwork", "BindNetworkPsp"}
TearDownSteps  == {"ListNetworkPods", "DeleteLegacyDaemonSet", "DeleteAccount",
                   "WaitClusterNamespace", "WaitNetworkNamespace"}
SetupSteps     == {"CreateDestroyer", "GetDestroyer", "BindDeletion", "BindDeletionPsp",
                   "CreateDestroyerAccount", "CountNodes", "CreateJob"}
CleanUpSteps   == {"WaitJob", "DeleteDestroyer", "UnbindDeletion", "UnbindNetwork",
                   "UnbindNetworkPsp", "UnbindDeletionPsp"}
LegacySteps    == GrantSteps \cup TearDownSteps \cup SetupSteps \cup CleanUpSteps
FlanneldSteps  == {"GetLegacyDaemonSet", "ListAgentPods", "GetDaemonSet",
                   "CreateDaemonSet", "DeleteDaemonSet"}
CallSteps      == ConfigSteps \cup NamespaceSteps \cup LegacySteps \cup FlanneldSteps
Steps          == CallSteps \cup {"Idle", "Finish", "Canceled"}

WorkerTypeOK ==
  /\ pass \in {"none", "create", "delete"}
  /\ step \in Steps
  /\ object \in Configs \cup {NoConfig}
  /\ stored \in Configs \cup {NoConfig}
  /\ found \in BOOLEAN
  /\ replicas \in Nat
  /\ kept \in BOOLEAN
  /\ attempts \in 0 .. MaxRetries
  /\ faults \in 0 .. MaxFaults

----------------------------------------------------------------------------
(* The first call of each resource.  clusterrolebindings makes none.       *)
ConfigEntry    == "GetConfig"
NamespaceEntry == "GetNamespace"
LegacyEntry    == IF pass = "create" THEN "CreateAccount" ELSE "ListNetworkPods"
FlanneldEntry  == "GetLegacyDaemonSet"

(* Mutant: the daemon set comes before the legacy resource's rights.       *)
AfterResourceFlanneldFirst ==
  \/ step \in ConfigSteps    /\ step' = NamespaceEntry
  \/ step \in NamespaceSteps /\ step' = FlanneldEntry
  \/ step \in FlanneldSteps  /\ step' = LegacyEntry
  \/ step \in LegacySteps    /\ step' = "Finish"

(* The resource that comes after the current one.                          *)
AfterResource ==
  \/ step \in ConfigSteps    /\ step' = NamespaceEntry
  \/ step \in NamespaceSteps /\ step' = LegacyEntry
  \/ step \in LegacySteps    /\ step' = FlanneldEntry
  \/ step \in FlanneldSteps  /\ step' = "Finish"

(* Where a retry resumes: with the operation of the resource that failed   *)
(* (the calls of one Go function) or with the resource as a whole.  The    *)
(* retry wrapper is not in the repository, so both are allowed.            *)
RetryPoint ==
  \/ step \in ConfigSteps /\ step' = ConfigEntry
  \/ step \in {"ClearConfig", "WriteConfig"} /\ step' = "ClearConfig"
  \/ step \in {"CreateConfig", "DeleteConfig"} /\ step' = step
  \/ step \in NamespaceSteps /\ step' = NamespaceEntry
  \/ step \in {"CreateNamespace", "DeleteNamespace"} /\ step' = step
  \/ step \in LegacySteps /\ step' = LegacyEntry
  \/ step \in FlanneldSteps /\ step' = FlanneldEntry
  \/ step \in {"CreateDaemonSet", "DeleteDaemonSet"} /\ step' = step

At(s) == pass # "none" /\ step = s

(* Go on within the resource; the retries counted so far stay counted.     *)
Goto(s) ==
  /\ step' = s
  /\ UNCHANGED <<pass, dataVars, kept, attempts, faults>>

(* The resource is done, or canceled itself: go on with the next one.      *)
NextResource ==
  /\ AfterResource
  /\ attempts' = 0
  /\ UNCHANGED <<pass, dataVars, kept, faults>>

(* Mutant: the resource is canceled, the finalizer not kept.               *)
CancelResourceOnly ==
  /\ AfterResource
  /\ attempts' = 0
  /\ UNCHANGED <<pass, dataVars, kept, faults>>

(* finalizerskeptcontext.SetKept and resourcecanceledcontext.SetCanceled   *)
KeepAndCancelResource ==
  /\ AfterResource
  /\ kept' = TRUE
  /\ attempts' = 0
  /\ UNCHANGED <<pass, dataVars, faults>>

(* reconciliationcanceledcontext.SetCanceled: no further resource runs.    *)
CancelReconciliation ==
  /\ step' = "Canceled"
  /\ UNCHANGED <<pass, dataVars, kept, attempts, faults>>

(* The end of a pass, however it ends: all it knew is forgotten.           *)
EndPass ==
  /\ pass' = "none" /\ step' = "Idle"
  /\ object' = NoConfig /\ stored' = NoConfig /\ found' = FALSE /\ replicas' = 0
  /\ kept' = FALSE /\ attempts' = 0

(* Mutant: one retry too many.                                             *)
RetryOnceMore ==
  /\ attempts <= MaxRetries
  /\ attempts' = attempts + 1
  /\ RetryPoint
  /\ UNCHANGED <<pass, dataVars, kept>>

(* A resource returned an error: it is retried or, when the back-off is    *)
(* used up, the pass ends and the finalizer stays for the next one.        *)
Retry ==
  /\ attempts < MaxRetries
  /\ attempts' = attempts + 1
  /\ RetryPoint
  /\ UNCHANGED <<pass, dataVars, kept>>

GiveUp == attempts = MaxRetries /\ EndPass

Fail == (Retry \/ GiveUp) /\ UNCHANGED <<faults, hostVars>>

(* A call that fails for reasons outside the model (the API server or etcd *)
(* does not answer, a token expires).  An answer that is lost after the    *)
(* call took effect is a call that succeeds and a next one that fails.     *)
CallFails ==
  /\ pass # "none" /\ step \in CallSteps
  /\ faults < MaxFaults
  /\ faults' = faults + 1
  /\ Retry \/ GiveUp
  /\ UNCHANGED hostVars

(* The operator's process dies in the middle of a pass and is restarted.   *)
Crash ==
  /\ pass # "none"
  /\ faults < MaxFaults
  /\ faults' = faults + 1
  /\ EndPass
  /\ UNCHANGED hostVars
=============================================================================
