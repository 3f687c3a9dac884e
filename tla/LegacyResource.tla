--------------------------- MODULE LegacyResource ---------------------------
(***************************************************************************)
(* The legacy resource.  On creation it gives the daemon set its rights.   *)
(* On deletion it takes the network apart: it waits until nothing of it    *)
(* runs any more, has a job remove the network bridge from every node, and *)
(* removes what the job and the network needed.                            *)
(***************************************************************************)
EXTENDS Reconcile

(* Creating an object that exists already is fine, in a namespace that is  *)
(* missing or terminating it is an error.                                  *)
CreateServiceAccount(n, next) ==
  \/ Accepts(n) /\ PutAccounts(accounts \cup {n}) /\ next
  \/ ~Accepts(n) /\ Fail

Bind(b, next)   == PutBindings(bindings \cup {b}) /\ next
Unbind(b, next) == PutBindings(bindings \ {b}) /\ next

----------------------------------------------------------------------------
(* newCreateChange *)

CreateAccount  == At("CreateAccount")  /\ CreateServiceAccount("network", Goto("BindNetwork"))
BindNetwork    == At("BindNetwork")    /\ Bind("network", Goto("BindNetworkPsp"))
BindNetworkPsp == At("BindNetworkPsp") /\ Bind("networkPsp", NextResource)

----------------------------------------------------------------------------
(* newDeleteChange: take down the network *)

(* As long as the guest cluster has pods its network is needed.            *)
ListNetworkPods ==
  /\ At("ListNetworkPods")
  /\ \/ pods /\ KeepAndCancelResource
     \/ ~pods /\ Goto("DeleteLegacyDaemonSet")
  /\ UNCHANGED hostVars

DeleteLegacyDaemonSet ==
  /\ At("DeleteLegacyDaemonSet")
  /\ PutDaemonSets(WithoutDaemonSet("extensions"))
  /\ Goto("DeleteAccount")

DeleteAccount ==
  /\ At("DeleteAccount")
  /\ PutAccounts(accounts \ {"network"})
  /\ Goto("WaitClusterNamespace")

(* Mutant: the wait has no end.                                            *)
WaitForNamespaceDeletedEndlessly(n, next) ==
  /\ IF namespaces[n] = "Absent" THEN Goto(next) ELSE UNCHANGED workerVars
  /\ UNCHANGED hostVars

(* waitForNamespaceDeleted polls until the namespace is not found; after   *)
(* two minutes it returns the error of the last poll.                      *)
WaitForNamespaceDeleted(n, next) ==
  \/ namespaces[n] = "Absent" /\ Goto(next) /\ UNCHANGED hostVars
  \/ namespaces[n] # "Absent" /\ Fail

WaitClusterNamespace ==
  /\ At("WaitClusterNamespace")
  /\ WaitForNamespaceDeleted("cluster", "WaitNetworkNamespace")

(* Mutant: a namespace that terminates is taken for one that is gone.      *)
WaitNetworkNamespaceUntilTerminating ==
  /\ At("WaitNetworkNamespace")
  /\ \/ namespaces["network"] # "Active" /\ Goto("CreateDestroyer")
     \/ namespaces["network"] = "Active" /\ Fail
  /\ UNCHANGED hostVars

WaitNetworkNamespace ==
  /\ At("WaitNetworkNamespace")
  /\ WaitForNamespaceDeleted("network", "CreateDestroyer")

----------------------------------------------------------------------------
(* newDeleteChange: set up the cleanup job *)

(* Mutant: where the namespace exists, the job's rights are taken to exist. *)
CreateDestroyerWithRights ==
  /\ At("CreateDestroyer")
  /\ IF namespaces["destroyer"] = "Absent"
     THEN PutNamespace("destroyer", "Active") /\ Goto("BindDeletion")
     ELSE Goto("CountNodes") /\ UNCHANGED hostVars

(* Mutant: the job is set up in the network namespace.                     *)
CreateDestroyerInNetwork ==
  /\ At("CreateDestroyer")
  /\ IF namespaces["network"] = "Absent"
     THEN PutNamespace("network", "Active") /\ Goto("BindDeletion")
     ELSE Goto("GetDestroyer") /\ UNCHANGED hostVars

CreateDestroyer ==
  /\ At("CreateDestroyer")
  /\ IF namespaces["destroyer"] = "Absent"
     THEN PutNamespace("destroyer", "Active") /\ Goto("BindDeletion")
     ELSE Goto("GetDestroyer") /\ UNCHANGED hostVars

(* The namespace existed already: a terminating one is left to terminate,  *)
(* one that is gone by now is an error.                                    *)
GetDestroyer ==
  /\ At("GetDestroyer")
  /\ \/ namespaces["destroyer"] = "Terminating" /\ KeepAndCancelResource /\ UNCHANGED hostVars
     \/ namespaces["destroyer"] = "Active" /\ Goto("BindDeletion") /\ UNCHANGED hostVars
     \/ namespaces["destroyer"] = "Absent" /\ Fail

BindDeletion    == At("BindDeletion")    /\ Bind("deletion", Goto("BindDeletionPsp"))
BindDeletionPsp == At("BindDeletionPsp") /\ Bind("deletionPsp", Goto("CreateDestroyerAccount"))

CreateDestroyerAccount ==
  /\ At("CreateDestroyerAccount")
  /\ CreateServiceAccount("destroyer", Goto("CountNodes"))

(* One pod of the job for every node that is not cordoned right now.       *)
CountNodes ==
  /\ At("CountNodes")
  /\ replicas' = Cardinality(schedulable)
  /\ step' = "CreateJob"
  /\ UNCHANGED <<pass, object, stored, found, kept, attempts, faults, hostVars>>

(* Mutant: a job that exists already is an error.                          *)
CreateJobAnew ==
  /\ At("CreateJob")
  /\ \/ Accepts("destroyer") /\ ~job.created /\ PutJob(NewJob(replicas)) /\ Goto("WaitJob")
     \/ (~Accepts("destroyer") \/ job.created) /\ Fail

(* A job that exists already keeps the size it was created with.           *)
CreateJob ==
  /\ At("CreateJob")
  /\ \/ Accepts("destroyer") /\ PutJob(IF job.created THEN job ELSE NewJob(replicas)) /\ Goto("WaitJob")
     \/ ~Accepts("destroyer") /\ Fail

(* Mutant: pods that run count as pods that succeeded.                     *)
WaitJobStarted ==
  /\ At("WaitJob")
  /\ \/ /\ job.created /\ job.succeeded + Cardinality(job.running) = replicas
        /\ Goto("DeleteDestroyer") /\ UNCHANGED hostVars
     \/ ~(job.created /\ job.succeeded = replicas) /\ Fail

(* Polls until exactly as many pods succeeded as nodes were counted; gives *)
(* up after two minutes, and when the job is not there.                    *)
WaitJob ==
  /\ At("WaitJob")
  /\ \/ job.created /\ job.succeeded = replicas /\ Goto("DeleteDestroyer") /\ UNCHANGED hostVars
     \/ ~(job.created /\ job.succeeded = replicas) /\ Fail

----------------------------------------------------------------------------
(* newDeleteChange: remove what the job and the network needed *)

DeleteDestroyer ==
  /\ At("DeleteDestroyer")
  /\ \/ /\ namespaces["destroyer"] # "Absent"
        /\ PutNamespace("destroyer", "Terminating")
        /\ Goto("UnbindDeletion")
     \/ namespaces["destroyer"] = "Absent" /\ Goto("UnbindDeletion") /\ UNCHANGED hostVars
     \/ namespaces["destroyer"] = "Terminating" /\ Fail

UnbindDeletion    == At("UnbindDeletion")    /\ Unbind("deletion", Goto("UnbindNetwork"))
UnbindNetwork     == At("UnbindNetwork")     /\ Unbind("network", Goto("UnbindNetworkPsp"))
UnbindNetworkPsp  == At("UnbindNetworkPsp")  /\ Unbind("networkPsp", Goto("UnbindDeletionPsp"))
UnbindDeletionPsp == At("UnbindDeletionPsp") /\ Unbind("deletionPsp", NextResource)

LegacyNext ==
  \/ CreateAccount \/ BindNetwork \/ BindNetworkPsp
  \/ ListNetworkPods \/ DeleteLegacyDaemonSet \/ DeleteAccount
  \/ WaitClusterNamespace \/ WaitNetworkNamespace
  \/ CreateDestroyer \/ GetDestroyer \/ BindDeletion \/ BindDeletionPsp
  \/ CreateDestroyerAccount \/ CountNodes \/ CreateJob \/ WaitJob
  \/ DeleteDestroyer \/ UnbindDeletion \/ UnbindNetwork \/ UnbindNetworkPsp \/ UnbindDeletionPsp
=============================================================================
