------------------------ MODULE NetworkConfigResource ------------------------
(***************************************************************************)
(* The networkconfig resource: the value flanneld reads its network from,  *)
(* kept in etcd at coreos.com/network/br-<cluster>/config.                 *)
(***************************************************************************)
EXTENDS Reconcile

(* Mutant: only a config that is missing is written.                       *)
NeedsUpdateIfMissing(current) == current = NoConfig

(* Mutant: only the config the FlannelConfig asks for is deleted.          *)
NeedsDeleteIfDesired(current) == current = object

(* The change GetCurrentState and GetDesiredState lead to.  A config that  *)
(* was not found is created, and differs from the desired one as well, so  *)
(* that it is updated in the same pass.                                    *)
NeedsCreate(current) == current = NoConfig
NeedsUpdate(current) == current # object
NeedsDelete(current) == current # NoConfig

(* store.Search of the config key; not found is the empty config, and what *)
(* is no JSON an error.                                                    *)
GetConfig ==
  /\ At("GetConfig")
  /\ \/ /\ config # Unreadable
        /\ stored' = config
        /\ IF pass = "create"
           THEN \/ NeedsCreate(config) /\ step' = "CreateConfig" /\ UNCHANGED attempts
                \/ ~NeedsCreate(config) /\ NeedsUpdate(config) /\ step' = "ClearConfig" /\ UNCHANGED attempts
                \/ ~NeedsUpdate(config) /\ AfterResource /\ attempts' = 0
           ELSE \/ NeedsDelete(config) /\ step' = "DeleteConfig" /\ UNCHANGED attempts
                \/ ~NeedsDelete(config) /\ AfterResource /\ attempts' = 0
        /\ UNCHANGED <<pass, object, found, replicas, kept, faults, hostVars>>
     \/ config = Unreadable /\ Fail

(* store.Create leaves a key alone that exists already.                    *)
StoreCreate == PutConfig(IF config = NoConfig THEN object ELSE config)

CreateConfig ==
  /\ At("CreateConfig")
  /\ StoreCreate
  /\ IF NeedsUpdate(stored) THEN Goto("ClearConfig") ELSE NextResource

(* store.Delete removes the directory of the network with the config and   *)
(* the leases of the agents.  Without a config it finds the directory only *)
(* if leases are left in it; otherwise it answers with an error.           *)
StoreDelete(next) ==
  \/ PutConfig(NoConfig) /\ next
  \/ config = NoConfig /\ Fail

ClearConfig ==
  /\ At("ClearConfig")
  /\ StoreDelete(Goto("WriteConfig"))

WriteConfig ==
  /\ At("WriteConfig")
  /\ StoreCreate
  /\ NextResource

DeleteConfig ==
  /\ At("DeleteConfig")
  /\ StoreDelete(NextResource)

NetworkConfigNext ==
  GetConfig \/ CreateConfig \/ ClearConfig \/ WriteConfig \/ DeleteConfig
=============================================================================
