------------------------------- MODULE Overlap -------------------------------
(***************************************************************************)
(* A rolling update of the operator itself.  The deployment has one        *)
(* replica, the strategy RollingUpdate and no leader election: the new     *)
(* process starts while the old one still works, and the old one dies at   *)
(* some point of whatever pass it is in.  In between two workers, the      *)
(* same code each, reconcile the same FlannelConfig over one host cluster. *)
(*                                                                         *)
(* The new worker has the variables of FlannelOperator, the old one those  *)
(* of an instance.  Failing calls are FlannelOperator's subject: the fault *)
(* here is the other worker.                                               *)
(***************************************************************************)
EXTENDS FlannelOperator

VARIABLES
  rollout,  \* "both" processes run, or only the "new" one
  crossed,  \* did one worker delete the network while the other still created it?
  alone,    \* has the new worker begun a pass since the old one is gone?
  oldPass, oldStep, oldObject, oldStored, oldFound, oldReplicas, oldKept,
  oldAttempts, oldFaults

oldVars     == <<oldPass, oldStep, oldObject, oldStored, oldFound, oldReplicas,
                 oldKept, oldAttempts, oldFaults>>
overlapVars == <<vars, rollout, crossed, alone, oldVars>>

Old == INSTANCE FlannelOperator WITH
         pass <- oldPass, step <- oldStep, object <- oldObject, stored <- oldStored,
         found <- oldFound, replicas <- oldReplicas, kept <- oldKept,
         attempts <- oldAttempts, faults <- oldFaults

----------------------------------------------------------------------------
(* The new pod is up and has not begun a pass; nor has the old one, which  *)
(* may do any number of steps before the new one does its first.           *)
OverlapInit ==
  /\ Init
  /\ rollout = "both" /\ crossed = FALSE /\ alone = FALSE
  /\ oldPass = "none" /\ oldStep = "Idle"
  /\ oldObject = NoConfig /\ oldStored = NoConfig /\ oldFound = FALSE
  /\ oldReplicas = 0 /\ oldKept = FALSE /\ oldAttempts = 0 /\ oldFaults = 0

(* History: a create pass of one worker meets a delete pass of the other.  *)
Cross == crossed' = (crossed \/ {pass', oldPass'} = {"create", "delete"})

OldWorks ==
  /\ rollout = "both"
  /\ Old!OperatorNext
  /\ UNCHANGED <<workerVars, rollout, alone>>
  /\ Cross

NewWorks ==
  /\ OperatorNext
  /\ UNCHANGED <<oldVars, rollout>>
  /\ Cross
  /\ alone' = (rollout = "new" /\ (alone \/ pass = "none"))

(* The old pod is terminated, in the middle of a pass or between two.      *)
OldStops ==
  /\ rollout = "both"
  /\ rollout' = "new"
  /\ Old!EndPass
  /\ UNCHANGED <<vars, oldFaults, crossed, alone>>

ByItself(A) == A /\ UNCHANGED <<workerVars, oldVars, rollout, crossed, alone>>

HostWorks == ByItself(HostNext)

OverlapRest ==
  /\ cr = "gone" /\ rollout = "new" /\ pass = "none"
  /\ UNCHANGED overlapVars

OverlapNext == OldWorks \/ NewWorks \/ OldStops \/ HostWorks \/ OverlapRest

OverlapSpec == OverlapInit /\ [][OverlapNext]_overlapVars

----------------------------------------------------------------------------
(* Types: the variables of both workers stay in their sets.                *)
OverlapTypeOK ==
  /\ TypeOK
  /\ Old!WorkerTypeOK
  /\ rollout \in {"both", "new"}
  /\ {crossed, alone} \subseteq BOOLEAN

(* The one thing two workers must not do is to create and to delete at the *)
(* same time.  As long as they do not, the cleanup job stays alone on the  *)
(* nodes although a second worker waits for, sets up or removes the same   *)
(* job ...                                                                 *)
CleanupAloneUnlessCrossed == ~crossed => CleanupAloneOnNodes

(* ... the daemon set and its pods do not lose their rights to the other   *)
(* worker ...                                                              *)
RightsUnlessCrossed == ~crossed => RightsBeforeUse

(* ... when one worker releases the FlannelConfig in the middle of a pass  *)
(* of the other, the network is down or going ...                          *)
DownUnlessCrossed == ~crossed => DeletedNetworkIsDown

(* ... and agents and cleanup job work on the bridges of the nodes in the  *)
(* order that one worker keeps, where the network is down for good once    *)
(* neither worker can create its namespace again.                          *)
Down ==
  /\ namespaces["network"] = "Absent"
  /\ cr # "live" /\ pass # "create" /\ oldPass # "create"

SharedStage == IF job.created THEN "cleaning" ELSE IF Down THEN "closed" ELSE "open"

Shared == INSTANCE NetworkLifecycle WITH stage <- SharedStage, cleaners <- job.running

LifecycleUnlessCrossed ==
  Shared!Init /\ [][crossed' \/ [Shared!Next]_(Shared!vars)]_overlapVars

(* Even if they do cross, a network that is down stays down: what either   *)
(* worker still does, in a pass or after a restart, brings back neither    *)
(* its namespace nor a bridge ...                                          *)
DownStaysDown == [][Down => Down' /\ bridges' \subseteq bridges]_overlapVars

(* ... and no worker takes a network away from pods: what it has learnt of *)
(* the pods stays true whatever the other does.                            *)
DrainBeforeTeardownByBoth == [][cr # "live" /\ TakesDown => ~pods]_overlapVars

(* However the two have left the network, the worker that stays puts it in *)
(* order: a delete pass that it goes through from the beginning without    *)
(* the other one leaves nothing to do, also after the two have crossed.    *)
CleanOnceAlone == alone => FinishedIsClean
=============================================================================
