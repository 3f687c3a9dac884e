------------------------------- MODULE MCFleet -------------------------------
(***************************************************************************)
(* Fleet for TLC, in the case that threatens B: A is the operator's, its   *)
(* network was set up by an earlier version and its guest cluster, without *)
(* pods, is never taken down, so that every delete pass of A waits for the *)
(* namespace in vain.  B goes through everything.  A failure or a change   *)
(* of a version bundle happens, not both.                                  *)
(***************************************************************************)
EXTENDS Fleet

StuckInit == FleetInit /\ bundle["A"] = OwnBundle /\ Upgraded

StuckNext ==
  /\ FleetNext
  /\ faults' + upgrades' <= 1
  /\ bundle'["A"] = OwnBundle /\ namespaces'["cluster"] = "Active" /\ ~pods'

StuckSpec == StuckInit /\ [][StuckNext]_fleetVars /\ FleetFairness
=============================================================================
