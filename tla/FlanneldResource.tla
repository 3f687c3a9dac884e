-------------------------- MODULE FlanneldResource --------------------------
(***************************************************************************)
(* The flanneld resource: the apps/v1 daemon set whose pods run flanneld   *)
(* and build the network bridge on every node.  It is created and deleted, *)
(* and never updated.                                                      *)
(***************************************************************************)
EXTENDS Reconcile

(* A daemon set left by the legacy resource is left to the legacy one.     *)
GetLegacyDaemonSet ==
  /\ At("GetLegacyDaemonSet")
  /\ \/ HasDaemonSet("extensions") /\ NextResource
     \/ ~HasDaemonSet("extensions") /\ pass = "delete" /\ Goto("ListAgentPods")
     \/ ~HasDaemonSet("extensions") /\ pass = "create" /\ Goto("GetDaemonSet")
  /\ UNCHANGED hostVars

ListAgentPods ==
  /\ At("ListAgentPods")
  /\ \/ pods /\ KeepAndCancelResource
     \/ ~pods /\ Goto("GetDaemonSet")
  /\ UNCHANGED hostVars

GetDaemonSet ==
  /\ At("GetDaemonSet")
  /\ found' = HasDaemonSet("apps")
  /\ \/ pass = "delete" /\ found' /\ step' = "DeleteDaemonSet" /\ UNCHANGED attempts
     \/ pass = "create" /\ ~found' /\ step' = "CreateDaemonSet" /\ UNCHANGED attempts
     \/ found' = (pass = "create") /\ AfterResource /\ attempts' = 0
  /\ UNCHANGED <<pass, object, stored, replicas, kept, faults, hostVars>>

CreateDaemonSet ==
  /\ At("CreateDaemonSet")
  /\ \/ Accepts("network") /\ PutDaemonSets(daemonSets \cup {"apps"}) /\ NextResource
     \/ ~Accepts("network") /\ Fail

DeleteDaemonSet ==
  /\ At("DeleteDaemonSet")
  /\ PutDaemonSets(WithoutDaemonSet("apps"))
  /\ NextResource

FlanneldNext ==
  GetLegacyDaemonSet \/ ListAgentPods \/ GetDaemonSet \/ CreateDaemonSet \/ DeleteDaemonSet
=============================================================================
