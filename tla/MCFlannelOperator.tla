--------------------------- MODULE MCFlannelOperator ---------------------------
(***************************************************************************)
(* FlannelOperator for TLC: its constants are given model values in the    *)
(* configurations.  A deletion gets nowhere when nodes are cordoned or     *)
(* pods come back in the middle of it, and nothing does while the stored   *)
(* config is spoiled, so the run for progress has calm behaviors:          *)
(* disturbed only while the FlannelConfig lives, and not by cordoning      *)
(* nodes or spoiling the config.  No earlier network has left environment  *)
(* files, which would only spare the agents a wait.                        *)
(***************************************************************************)
EXTENDS FlannelOperator

CalmInit == Init /\ (config = NoConfig => envFiles = {})

CalmNext ==
  /\ Next
  /\ UNCHANGED schedulable /\ config' # Unreadable
  /\ cr # "live" => UNCHANGED churn

CalmSpec == CalmInit /\ [][CalmNext]_vars /\ Fairness
=============================================================================
