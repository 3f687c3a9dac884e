---------------------------- MODULE ConfigPasses ----------------------------
(***************************************************************************)
(* The networkconfig resource over the etcd store, message by message.     *)
(* NetworkConfigResource takes each call of the store for one step of      *)
(* FlannelOperator; here a call is a request and an answer, either of      *)
(* which may get lost, and a request whose caller has given up may still   *)
(* be served, in the middle of whatever pass comes later.                  *)
(***************************************************************************)
EXTENDS EtcdStore

CONSTANTS
  Network,     \* the network of the FlannelConfig
  Worker,      \* the operator, as a client of the store
  MaxRetries,  \* how often a failing resource is retried within a pass
  MaxLosses,   \* bound on lost requests and answers, and on crashes
  MaxChanges   \* bound on changes of the spec

ASSUME PassesAssumption ==
  /\ Network \in Networks /\ Clients = {Worker}
  /\ {MaxRetries, MaxLosses, MaxChanges} \subseteq Nat

VARIABLES
  wanted,     \* the network config in the FlannelConfig
  deleted,    \* is the FlannelConfig deleted?
  released,   \* has the resource let the FlannelConfig go?
  pass,       \* "none", or the kind of the pass: "create" or "delete"
  step,       \* the call of the store the resource is at
  desired,    \* the config the pass was handed
  attempts,   \* the retries of this pass
  losses, changes

userVars  == <<wanted, deleted, changes>>
passVars  == <<pass, step, desired, attempts>>
passesVars == <<storeVars, userVars, released, passVars, losses>>

Steps == {"Idle", "GetConfig", "CreateConfig", "ClearConfig", "WriteConfig", "DeleteConfig"}

Config == tree[ConfigKey(Network)]

PassesInit ==
  /\ StoreInit
  /\ wanted \in Configs /\ deleted = FALSE /\ released = FALSE /\ changes = 0
  /\ pass = "none" /\ step = "Idle" /\ desired = wanted /\ attempts = 0 /\ losses = 0

----------------------------------------------------------------------------
(* How the resource goes on after a call.                                  *)
Goto(s) == step' = s /\ UNCHANGED <<pass, desired, attempts, released>>

EndPass ==
  /\ pass' = "none" /\ step' = "Idle" /\ attempts' = 0
  /\ UNCHANGED desired

(* Mutant: an error of the resource goes unnoticed.                        *)
FailUnnoticed ==
  /\ EndPass
  /\ released' = (pass = "delete")

(* Mutant: one retry more than there are.                                  *)
FailOnceMore ==
  /\ \/ /\ attempts <= MaxRetries
        /\ attempts' = attempts + 1
        /\ step' \in {"GetConfig", IF step = "WriteConfig" THEN "ClearConfig" ELSE step}
        /\ UNCHANGED <<pass, desired>>
     \/ EndPass
  /\ UNCHANGED released

(* An error: the operation or the resource is retried, or the pass ends.   *)
Fail ==
  /\ \/ /\ attempts < MaxRetries
        /\ attempts' = attempts + 1
        /\ step' \in {"GetConfig", IF step = "WriteConfig" THEN "ClearConfig" ELSE step}
        /\ UNCHANGED <<pass, desired>>
     \/ EndPass
  /\ UNCHANGED released

(* The resource is done; whether the pass releases the FlannelConfig is    *)
(* up to the resources after it.                                           *)
Done ==
  /\ EndPass
  /\ released' \in {released, pass = "delete"}

Lose == losses < MaxLosses /\ losses' = losses + 1

----------------------------------------------------------------------------
(* A pass and its calls.                                                   *)
StartPass ==
  /\ pass = "none" /\ ~released
  /\ pass' = IF deleted THEN "delete" ELSE "create"
  /\ step' = "GetConfig"
  /\ desired' = wanted
  /\ UNCHANGED <<attempts, released, losses, userVars, storeVars>>

Operation ==
  CASE step = "GetConfig" -> "search"
    [] step \in {"CreateConfig", "WriteConfig"} -> "create"
    [] step \in {"ClearConfig", "DeleteConfig"} -> "delete"

Call ==
  /\ pass # "none"
  /\ Ask(Worker)
  /\ request'[Worker] = [op |-> Operation, net |-> Network, config |-> desired]
  /\ UNCHANGED <<userVars, released, passVars, losses>>

Answered(status) == answer[Worker].status = status

(* Mutant: only a config that is missing is written.                       *)
AfterGetConfigIfMissing ==
  /\ step = "GetConfig"
  /\ IF pass = "create"
     THEN \/ Answered("notFound") /\ Goto("CreateConfig")
          \/ Answered("ok") /\ Done
     ELSE \/ Answered("ok") /\ Goto("DeleteConfig")
          \/ Answered("notFound") /\ Done

(* GetCurrentState, and the change it leads to.                            *)
AfterGetConfig ==
  /\ step = "GetConfig"
  /\ IF pass = "create"
     THEN \/ Answered("notFound") /\ Goto("CreateConfig")
          \/ Answered("ok") /\ answer[Worker].config # desired /\ Goto("ClearConfig")
          \/ Answered("ok") /\ answer[Worker].config = desired /\ Done
     ELSE \/ Answered("ok") /\ Goto("DeleteConfig")
          \/ Answered("notFound") /\ Done

(* A config that was created differs from what GetCurrentState found.      *)
AfterCreateConfig == step = "CreateConfig" /\ Answered("ok") /\ Goto("ClearConfig")
AfterClearConfig  == step = "ClearConfig"  /\ Answered("ok") /\ Goto("WriteConfig")
AfterWriteConfig  == step = "WriteConfig"  /\ Answered("ok") /\ Done
AfterDeleteConfig == step = "DeleteConfig" /\ Answered("ok") /\ Done

(* Not found is an error for who deletes.                                  *)
AfterFailure ==
  /\ Answered("failed") \/ (Answered("notFound") /\ step \in {"ClearConfig", "DeleteConfig"})
  /\ Fail

Continue ==
  /\ Return(Worker)
  /\ \/ AfterGetConfig \/ AfterCreateConfig \/ AfterClearConfig
     \/ AfterWriteConfig \/ AfterDeleteConfig \/ AfterFailure
  /\ UNCHANGED <<userVars, losses>>

(* The request or its answer does not arrive in time.                      *)
Unanswered ==
  /\ GiveUp(Worker) \/ Return(Worker)
  /\ Lose
  /\ Fail
  /\ UNCHANGED userVars

(* The operator dies; its request may be on its way.                       *)
Crash ==
  /\ pass # "none"
  /\ GiveUp(Worker) \/ Return(Worker) \/ (phase[Worker] = "idle" /\ UNCHANGED storeVars)
  /\ Lose
  /\ EndPass
  /\ UNCHANGED <<released, userVars>>

----------------------------------------------------------------------------
Alone == UNCHANGED <<released, passVars, losses>>

UserChangesSpec ==
  /\ ~deleted
  /\ changes < MaxChanges /\ changes' = changes + 1
  /\ wanted' \in Configs \ {wanted}
  /\ Alone /\ UNCHANGED <<deleted, storeVars>>

UserDeletes ==
  /\ ~deleted /\ deleted' = TRUE
  /\ Alone /\ UNCHANGED <<wanted, changes, storeVars>>

EtcdTakes   == Take(Worker) /\ Alone /\ UNCHANGED userVars
EtcdIsLate  == (\E r \in late : TakeLate(r)) /\ Alone /\ UNCHANGED userVars
AgentLeases ==
  /\ \E h \in Hosts : WriteLease(Network, h) \/ ExpireLease(Network, h)
  /\ Alone /\ UNCHANGED userVars

PassesNext ==
  \/ StartPass \/ Call \/ Continue \/ Unanswered \/ Crash
  \/ UserChangesSpec \/ UserDeletes
  \/ EtcdTakes \/ EtcdIsLate \/ AgentLeases

(* The worker works, etcd answers, and what is on its way arrives.  Passes *)
(* are repeated by the resync of the informer.                             *)
PassesFairness ==
  /\ WF_passesVars(StartPass) /\ WF_passesVars(Call) /\ WF_passesVars(Continue)
  /\ WF_passesVars(EtcdTakes) /\ WF_passesVars(EtcdIsLate)

PassesSpec     == PassesInit /\ [][PassesNext]_passesVars
FairPassesSpec == PassesSpec /\ PassesFairness

----------------------------------------------------------------------------
(* Types: the store and the worker keep to their sets.                     *)
PassesTypeOK ==
  /\ StoreTypeOK
  /\ wanted \in Configs /\ desired \in Configs
  /\ deleted \in BOOLEAN /\ released \in BOOLEAN
  /\ pass \in {"none", "create", "delete"} /\ step \in Steps
  /\ attempts \in 0 .. MaxRetries /\ losses \in 0 .. MaxLosses /\ changes \in 0 .. MaxChanges

(* No request has been served behind the back of its caller, or will be.   *)
NothingLate == delays = 0

(* The config of a network that was let go is gone for good: lost answers, *)
(* crashes and repeated calls do not leave it behind; only a create that   *)
(* is served late could bring it back.                                     *)
ReleasedStaysGone == released /\ NothingLate => Config = NoConfig

(* A create pass of the resource that reports success has left the config  *)
(* it was handed, whatever the calls of earlier passes came to.            *)
Succeeds == pass = "create" /\ pass' = "none" /\ Continue /\ ~AfterFailure

SuccessIsDesired == [][Succeeds /\ NothingLate => Config = desired]_passesVars

(* A FlannelConfig that stays has its config in etcd in the end, the one   *)
(* it asks for last, although requests are lost, repeated and served late, *)
(* and the agents go on writing leases into the directory.                 *)
ConfigSettles == []~deleted => <>[](Config = wanted)
=============================================================================
