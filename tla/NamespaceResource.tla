-------------------------- MODULE NamespaceResource --------------------------
(***************************************************************************)
(* The namespace resource: the namespace flannel-network-<cluster> that    *)
(* holds the daemon set and its service account.                           *)
(***************************************************************************)
EXTENDS Reconcile

(* A terminating namespace cancels the whole reconciliation, and does so   *)
(* without keeping the finalizer.                                          *)
GetNamespace ==
  /\ At("GetNamespace")
  /\ \/ /\ namespaces["network"] = "Terminating"
        /\ CancelReconciliation
     \/ /\ namespaces["network"] # "Terminating"
        /\ found' = (namespaces["network"] = "Active")
        /\ \/ pass = "delete" /\ step' = "ListNamespacePods" /\ UNCHANGED attempts
           \/ pass = "create" /\ ~found' /\ step' = "CreateNamespace" /\ UNCHANGED attempts
           \/ pass = "create" /\ found' /\ AfterResource /\ attempts' = 0
        /\ UNCHANGED <<pass, object, stored, replicas, kept, faults>>
  /\ UNCHANGED hostVars

(* Mutant: the namespace is deleted under the pods.                        *)
ListNamespacePodsUnchecked ==
  /\ At("ListNamespacePods")
  /\ IF found THEN Goto("DeleteNamespace") ELSE NextResource
  /\ UNCHANGED hostVars

(* As long as the guest cluster has pods its network is needed.            *)
ListNamespacePods ==
  /\ At("ListNamespacePods")
  /\ \/ pods /\ KeepAndCancelResource
     \/ ~pods /\ found /\ Goto("DeleteNamespace")
     \/ ~pods /\ ~found /\ NextResource
  /\ UNCHANGED hostVars

CreateNamespace ==
  /\ At("CreateNamespace")
  /\ IF namespaces["network"] = "Absent" THEN PutNamespace("network", "Active")
                                         ELSE UNCHANGED hostVars
  /\ NextResource

(* Not found is fine; deleting a namespace that terminates may be refused. *)
DeleteNamespace ==
  /\ At("DeleteNamespace")
  /\ \/ /\ namespaces["network"] # "Absent"
        /\ PutNamespace("network", "Terminating")
        /\ NextResource
     \/ namespaces["network"] = "Absent" /\ NextResource /\ UNCHANGED hostVars
     \/ namespaces["network"] = "Terminating" /\ Fail

NamespaceNext == GetNamespace \/ ListNamespacePods \/ CreateNamespace \/ DeleteNamespace
=============================================================================
