------------------------- MODULE ConfigPassesProofs -------------------------
(***************************************************************************)
(* Proofs about ConfigPasses, for any configs, hosts, retries and losses:  *)
(* the types, and what the worker may conclude from the answers it gets.   *)
(* Of the store only what EtcdStoreProofs proves of its operations is used.*)
(***************************************************************************)
EXTENDS ConfigPasses, EtcdStoreProofs

(* Where the worker is: the steps of a pass belong to its kind, and a      *)
(* request on its way is the one of the current step.                      *)
Asked == [op |-> Operation, net |-> Network, config |-> desired]

WorkerInv ==
  /\ wanted \in Configs /\ desired \in Configs
  /\ deleted \in BOOLEAN /\ released \in BOOLEAN
  /\ attempts \in 0 .. MaxRetries /\ losses \in 0 .. MaxLosses /\ changes \in 0 .. MaxChanges
  /\ \/ pass = "none"   /\ step = "Idle"
     \/ pass = "create" /\ step \in {"GetConfig", "CreateConfig", "ClearConfig", "WriteConfig"}
     \/ pass = "delete" /\ step \in {"GetConfig", "DeleteConfig"}
  /\ released => pass = "none"
  /\ phase[Worker] # "idle" => pass # "none" /\ request[Worker] = Asked

(* What it knows, as long as nothing was served late: the answer it has    *)
(* got, or what it did before, tells it the config.                        *)
KnownInv ==
  /\ late = {}
  /\ released => Config = NoConfig
  /\ step = "WriteConfig" /\ phase[Worker] # "answered" => Config = NoConfig
  /\ phase[Worker] = "answered" =>
       /\ step = "GetConfig" /\ Answered("ok") => Config = answer[Worker].config
       /\ step = "GetConfig" /\ Answered("notFound") => Config = NoConfig
       /\ step \in {"ClearConfig", "DeleteConfig"} /\ Answered("ok") => Config = NoConfig
       /\ step = "WriteConfig" /\ Answered("ok") => Config = desired

PassesInv == StoreInv /\ WorkerInv /\ (NothingLate => KnownInv)

----------------------------------------------------------------------------
(* The operator is the only client of the store.                           *)
LEMMA TheWorker == Worker \in Clients /\ Network \in Networks /\ Clients = {Worker}
  BY PassesAssumption

(* Steps of the passes are steps of the store: whoever takes a step, the   *)
(* store takes one of its own or none.                                     *)
LEMMA StoreSteps == ASSUME PassesNext PROVE [StoreNext]_storeVars
<1>1. CASE StartPass \/ UserChangesSpec \/ UserDeletes
  BY <1>1 DEF StartPass, UserChangesSpec, UserDeletes
<1>2. CASE Call
  BY <1>2, TheWorker DEF Call, StoreNext
<1>3. CASE Continue \/ Unanswered \/ Crash
  BY <1>3, TheWorker DEF Continue, Unanswered, Crash, StoreNext
<1>4. CASE EtcdTakes \/ EtcdIsLate
  BY <1>4, TheWorker DEF EtcdTakes, EtcdIsLate, StoreNext
<1>5. CASE AgentLeases
  BY <1>5, TheWorker DEF AgentLeases, StoreNext
<1>6. QED
  BY <1>1, <1>2, <1>3, <1>4, <1>5 DEF PassesNext

(* The leases of the agents leave the config alone.                        *)
LEMMA LeasesKeepConfig ==
  ASSUME StoreInv, NEW h \in Hosts, WriteLease(Network, h) \/ ExpireLease(Network, h)
  PROVE  Config' = Config
<1> DEFINE k == ConfigKey(Network)
           l == LeaseKey(Network, h)
<1>1. k \in Keys /\ k \in ConfigKeys /\ l \in Keys /\ l # k
  BY TheWorker, KeyKinds, FileKinds
<1>2. k \notin Above(l)
  BY <1>1, FilesAreLeaves
<1>3. tree \in [Keys -> Configs \cup {NoConfig, Directory, Lease}]
  BY DEF StoreInv, StoreTypeOK
<1>4. CASE WriteLease(Network, h)
  BY <1>1, <1>2, <1>4 DEF WriteLease, Put, Config
<1>5. CASE ExpireLease(Network, h)
  BY <1>1, <1>3, <1>5 DEF ExpireLease, Config
<1>6. QED
  BY <1>4, <1>5

(* What serving the worker's request does to the config, and tells it.     *)
LEMMA TakeMeans ==
  ASSUME StoreInv, Take(Worker), request[Worker].net = Network
  PROVE  LET a == answer'[Worker]
             r == request[Worker]
         IN  /\ r.op = "search" =>
                  /\ Config' = Config
                  /\ a.status = "ok" => a.config = Config
                  /\ a.status = "notFound" => Config = NoConfig
             /\ r.op = "create" => Config' = IF Config = NoConfig THEN r.config ELSE Config
             /\ r.op = "delete" => Config' = NoConfig
<1> DEFINE r == request[Worker]
<1>0. TreeOK /\ CallsOK
  BY InvParts
<1>1. r \in Requests /\ Network \in Networks
  BY <1>0, TheWorker DEF CallsOK
<1>2. PICK a \in Answers : Serve(r, a) /\ answer' = [answer EXCEPT ![Worker] = a]
  BY DEF Take
<1>3. answer'[Worker] = a
  BY <1>0, <1>2, TheWorker DEF CallsOK
<1>4. Register!Effect(r, a)
  BY <1>0, <1>1, <1>2, Served
<1>5. Registers[Network] = Config /\ Registers'[Network] = Config'
  BY <1>1 DEF Registers, Config
<1>6. r.op = "search" => Register!Search(r, a)
  BY <1>4 DEF Register!Effect, Register!Search, Register!Create, Register!Delete, Register!Exists, Register!List
<1>7. r.op = "create" => Register!Create(r, a)
  BY <1>4 DEF Register!Effect, Register!Search, Register!Create, Register!Delete, Register!Exists, Register!List
<1>8. r.op = "delete" => Register!Delete(r, a)
  BY <1>4 DEF Register!Effect, Register!Search, Register!Create, Register!Delete, Register!Exists, Register!List
<1>9. ASSUME r.op = "search"
      PROVE  Config' = Config /\ (a.status = "ok" => a.config = Config) /\ (a.status = "notFound" => Config = NoConfig)
  <2>1. Registers' = Registers /\ a = IF Registers[Network] # NoConfig
          THEN [Register!Told("ok") EXCEPT !.config = Registers[Network]] ELSE Register!Told("notFound")
    BY <1>6, <1>9 DEF Register!Search, Register!Holds, Registers
  <2>2. QED
    BY <1>5, <2>1 DEF Register!Told
<1>10. ASSUME r.op = "create" PROVE Config' = IF Config = NoConfig THEN r.config ELSE Config
  <2>1. Registers' = [Registers EXCEPT ![Network] =
                        IF Registers[Network] # NoConfig THEN Registers[Network] ELSE r.config]
    BY <1>7, <1>10 DEF Register!Create, Register!SetTo, Register!Holds, Registers
  <2>2. QED
    BY <1>1, <1>5, <2>1 DEF Registers
<1>11. ASSUME r.op = "delete" PROVE Config' = NoConfig
  <2>1. Registers' = [Registers EXCEPT ![Network] = NoConfig]
    BY <1>8, <1>11 DEF Register!Delete, Register!SetTo, Registers
  <2>2. QED
    BY <1>1, <1>5, <2>1 DEF Registers
<1>12. QED
  BY <1>3, <1>9, <1>10, <1>11

(* The end of a call, however it came about.                               *)
LEMMA CallOver ==
  ASSUME StoreInv, Return(Worker) \/ GiveUp(Worker)
  PROVE  /\ phase[Worker] # "idle" /\ phase'[Worker] = "idle"
         /\ Config' = Config
  BY TheWorker DEF StoreInv, StoreTypeOK, Return, GiveUp, Config

----------------------------------------------------------------------------
(* Where the worker is.                                                    *)

(* At first the worker has no pass, and no call under way.                 *)
LEMMA WorkerInit == PassesInit => WorkerInv
<1> SUFFICES ASSUME PassesInit PROVE WorkerInv
  OBVIOUS
<1>1. phase[Worker] = "idle"
  BY TheWorker DEF PassesInit, StoreInit
<1>2. {attempts, losses, changes} = {0} /\ MaxRetries \in Nat /\ MaxLosses \in Nat /\ MaxChanges \in Nat
  BY PassesAssumption DEF PassesInit
<1>3. deleted \in BOOLEAN /\ released \in BOOLEAN /\ (released => pass = "none")
  BY Zenon DEF PassesInit
<1>4. wanted \in Configs /\ desired \in Configs /\ pass = "none" /\ step = "Idle"
  BY DEF PassesInit
<1>5. attempts \in 0 .. MaxRetries /\ losses \in 0 .. MaxLosses /\ changes \in 0 .. MaxChanges
  BY <1>2
<1>6. QED
  BY <1>1, <1>3, <1>4, <1>5 DEF WorkerInv

(* The end of a pass keeps the worker in order.                            *)
LEMMA EndKeepsWorker ==
  ASSUME WorkerInv, EndPass, phase'[Worker] = "idle", released' \in BOOLEAN,
         losses' \in 0 .. MaxLosses, UNCHANGED userVars
  PROVE  WorkerInv'
  BY PassesAssumption DEF WorkerInv, EndPass, userVars

(* So does a failure, retried or not.                                      *)
LEMMA FailKeepsWorker ==
  ASSUME WorkerInv, pass # "none", Fail, phase'[Worker] = "idle",
         losses' \in 0 .. MaxLosses, UNCHANGED userVars
  PROVE  WorkerInv'
<1>1. CASE EndPass
  BY <1>1, EndKeepsWorker DEF Fail, WorkerInv
<1>2. CASE ~EndPass
  BY <1>2, PassesAssumption DEF WorkerInv, Fail, userVars
<1>3. QED
  BY <1>1, <1>2

(* An answer leads to the next step of the same pass, or to its end.       *)
LEMMA ContinueKeepsWorker == ASSUME StoreInv, WorkerInv, Continue PROVE WorkerInv'
<1>1. phase'[Worker] = "idle" /\ pass # "none" /\ losses' \in 0 .. MaxLosses /\ UNCHANGED userVars
  BY CallOver DEF Continue, WorkerInv
<1>2. CASE Done
  BY <1>1, <1>2, EndKeepsWorker DEF Done, WorkerInv
<1>3. CASE AfterFailure
  BY <1>1, <1>3, FailKeepsWorker DEF AfterFailure
<1>4. CASE AfterGetConfig /\ ~Done
  BY <1>1, <1>4 DEF AfterGetConfig, Goto, WorkerInv, userVars
<1>5. CASE AfterCreateConfig \/ AfterClearConfig
  BY <1>1, <1>5 DEF AfterCreateConfig, AfterClearConfig, Goto, WorkerInv, userVars
<1>6. QED
  BY <1>2, <1>3, <1>4, <1>5 DEF Continue, AfterWriteConfig, AfterDeleteConfig

(* Every step keeps the worker in order.                                   *)
LEMMA WorkerStep == ASSUME StoreInv, WorkerInv, [PassesNext]_passesVars PROVE WorkerInv'
<1> USE TheWorker, PassesAssumption DEF WorkerInv, Asked, Operation, userVars, passVars
<1>1. CASE StartPass
  BY <1>1 DEF StartPass, storeVars, callVars
<1>2. CASE Call
  <2>1. request'[Worker] = Asked' /\ pass' # "none"
    BY <1>2 DEF Call
  <2>2. QED
    BY <1>2, <2>1 DEF Call
<1>3. CASE Continue
  BY <1>3, ContinueKeepsWorker
<1>4. CASE Unanswered
  <2>1. losses' \in 0 .. MaxLosses
    BY <1>4 DEF Unanswered, Lose
  <2>2. QED
    BY <1>4, <2>1, CallOver, FailKeepsWorker DEF Unanswered
<1>5. CASE Crash
  <2>1. losses' \in 0 .. MaxLosses /\ phase'[Worker] = "idle"
    BY <1>5, CallOver DEF Crash, Lose, storeVars, callVars
  <2>2. QED
    BY <1>5, <2>1, EndKeepsWorker DEF Crash
<1>6. CASE UserChangesSpec \/ UserDeletes
  <2>1. wanted' \in Configs /\ changes' \in 0 .. MaxChanges
    BY <1>6 DEF UserChangesSpec, UserDeletes
  <2>2. deleted' \in BOOLEAN
    BY <1>6, Zenon DEF UserChangesSpec, UserDeletes
  <2>3. UNCHANGED <<released, losses, pass, step, desired, attempts, phase, request>>
    BY <1>6 DEF UserChangesSpec, UserDeletes, Alone, storeVars, callVars
  <2>4. QED
    BY <2>1, <2>2, <2>3
<1>7. CASE EtcdTakes
  <2>1. phase[Worker] # "idle" /\ request' = request
    BY <1>7 DEF EtcdTakes, Take
  <2>2. QED
    BY <1>7, <2>1 DEF EtcdTakes, Alone
<1>8. CASE EtcdIsLate \/ AgentLeases
  BY <1>8 DEF EtcdIsLate, AgentLeases, TakeLate, WriteLease, ExpireLease, Alone, callVars
<1>9. CASE UNCHANGED passesVars
  BY <1>9 DEF passesVars, storeVars, callVars
<1>10. QED
  BY <1>1, <1>2, <1>3, <1>4, <1>5, <1>6, <1>7, <1>8, <1>9 DEF PassesNext

----------------------------------------------------------------------------
(* What the worker knows.                                                  *)

(* Requests that were late stay on the record.                             *)
LEMMA LateBefore ==
  ASSUME StoreInv, [PassesNext]_passesVars, NothingLate', NothingLate => late = {}
  PROVE  NothingLate /\ late' = {}
<1>1. delays \in Nat
  BY DEF StoreInv, StoreTypeOK
<1>2. [StoreNext]_storeVars
  BY StoreSteps DEF passesVars
<1>3. CASE UNCHANGED storeVars
  BY <1>3 DEF storeVars, NothingLate
<1>4. CASE StoreNext
  BY <1>1, <1>4 DEF StoreNext, Ask, Take, Return, GiveUp, TakeLate, WriteLease, ExpireLease,
                    NothingLate, callVars
<1>5. QED
  BY <1>2, <1>3, <1>4

(* Between its calls the worker relies on the config only before it writes *)
(* one, having deleted what was there, and after the release.              *)
LEMMA IdleKnows ==
  ASSUME Config' = Config, late' = {}, phase'[Worker] = "idle",
         released' => Config = NoConfig, step' = "WriteConfig" => Config = NoConfig
  PROVE  KnownInv'
  BY DEF KnownInv

(* After a failure the worker asks again, and relies on nothing.           *)
LEMMA FailKnows ==
  ASSUME WorkerInv, KnownInv, pass # "none", Fail, Config' = Config, late' = {}, phase'[Worker] = "idle"
  PROVE  KnownInv'
<1>1. step' # "WriteConfig"
  BY DEF Fail, EndPass, WorkerInv
<1>2. released' = released
  BY DEF Fail
<1>3. QED
  BY <1>1, <1>2, IdleKnows DEF KnownInv

(* An answer, and what it tells the worker.                                *)
LEMMA ContinueKnows ==
  ASSUME StoreInv, WorkerInv, KnownInv, Continue, late' = {}
  PROVE  KnownInv'
<1>1. phase[Worker] = "answered" /\ phase'[Worker] = "idle" /\ Config' = Config /\ pass # "none" /\ ~released
  BY CallOver DEF Continue, Return, WorkerInv
<1>2. CASE AfterFailure
  BY <1>1, <1>2, FailKnows DEF AfterFailure
<1>3. CASE AfterGetConfig
  <2>1. step' # "WriteConfig"
    BY <1>3 DEF AfterGetConfig, Goto, Done, EndPass
  <2>2. released' => Config = NoConfig
    BY <1>1, <1>3 DEF AfterGetConfig, Goto, Done, KnownInv
  <2>3. QED
    BY <1>1, <2>1, <2>2, IdleKnows
<1>4. CASE AfterCreateConfig \/ AfterClearConfig
  <2>1. step' = "WriteConfig" => Config = NoConfig
    BY <1>1, <1>4 DEF AfterCreateConfig, AfterClearConfig, Goto, KnownInv
  <2>2. ~released'
    BY <1>1, <1>4 DEF AfterCreateConfig, AfterClearConfig, Goto
  <2>3. QED
    BY <1>1, <2>1, <2>2, IdleKnows
<1>5. CASE AfterWriteConfig \/ AfterDeleteConfig
  <2>1. step' = "Idle"
    BY <1>5 DEF AfterWriteConfig, AfterDeleteConfig, Done, EndPass
  <2>2. released' => Config = NoConfig
    BY <1>1, <1>5 DEF AfterWriteConfig, AfterDeleteConfig, Done, KnownInv, WorkerInv
  <2>3. QED
    BY <1>1, <2>1, <2>2, IdleKnows
<1>6. QED
  BY <1>2, <1>3, <1>4, <1>5 DEF Continue

(* Serving a request, and what its answer will tell.                       *)
LEMMA TakeKnows ==
  ASSUME StoreInv, WorkerInv, KnownInv, EtcdTakes, late' = {}
  PROVE  KnownInv'
<1>1. phase[Worker] = "sent" /\ phase'[Worker] = "answered"
  BY TheWorker DEF EtcdTakes, Take, StoreInv, StoreTypeOK
<1>2. UNCHANGED <<released, step, desired, pass>> /\ request[Worker] = Asked /\ ~released
  BY <1>1 DEF EtcdTakes, Alone, passVars, WorkerInv
<1>3. request[Worker].net = Network /\ request[Worker].config = desired /\ request[Worker].op = Operation
  BY <1>2 DEF Asked
<1>4. CASE step = "GetConfig"
  BY <1>1, <1>2, <1>3, <1>4, TakeMeans DEF EtcdTakes, KnownInv, Operation, Answered
<1>5. CASE step \in {"ClearConfig", "DeleteConfig"}
  BY <1>1, <1>2, <1>3, <1>5, TakeMeans DEF EtcdTakes, KnownInv, Operation, Answered
<1>6. CASE step = "WriteConfig"
  <2>1. Config = NoConfig
    BY <1>1, <1>6 DEF KnownInv
  <2>2. Config' = desired
    BY <1>3, <1>6, <2>1, TakeMeans DEF EtcdTakes, Operation
  <2>3. QED
    BY <1>1, <1>2, <1>6, <2>2 DEF KnownInv
<1>7. CASE step \notin {"GetConfig", "ClearConfig", "DeleteConfig", "WriteConfig"}
  BY <1>1, <1>2, <1>7 DEF KnownInv
<1>8. QED
  BY <1>4, <1>5, <1>6, <1>7

(* Every step keeps what the worker knows, if no request is late.          *)
LEMMA KnownStep ==
  ASSUME PassesInv, [PassesNext]_passesVars, NothingLate'
  PROVE  KnownInv'
<1>0. StoreInv /\ WorkerInv /\ KnownInv /\ late' = {}
  BY LateBefore DEF PassesInv, KnownInv
<1>1. CASE StartPass
  BY <1>0, <1>1 DEF StartPass, KnownInv, WorkerInv, Config, storeVars, callVars
<1>2. CASE Call
  <2>1. phase'[Worker] # "answered" /\ phase[Worker] # "answered"
    BY <1>0, <1>2, TheWorker DEF Call, Ask, StoreInv, StoreTypeOK
  <2>2. QED
    BY <1>0, <1>2, <2>1 DEF Call, Ask, KnownInv, Config, passVars
<1>3. CASE Continue
  BY <1>0, <1>3, ContinueKnows
<1>4. CASE Unanswered
  BY <1>0, <1>4, CallOver, FailKnows DEF Unanswered, WorkerInv
<1>5. CASE Crash
  <2>1. phase'[Worker] = "idle" /\ Config' = Config
    BY <1>0, <1>5, CallOver DEF Crash, Config, storeVars, callVars
  <2>2. step' # "WriteConfig" /\ released' = released
    BY <1>5 DEF Crash, EndPass
  <2>3. QED
    BY <1>0, <2>1, <2>2, IdleKnows DEF KnownInv
<1>6. CASE UserChangesSpec \/ UserDeletes
  BY <1>0, <1>6 DEF UserChangesSpec, UserDeletes, Alone, KnownInv, Config, Answered, passVars,
                    storeVars, callVars
<1>7. CASE EtcdTakes
  BY <1>0, <1>7, TakeKnows
<1>8. CASE EtcdIsLate
  BY <1>0, <1>8 DEF EtcdIsLate, KnownInv
<1>9. CASE AgentLeases
  BY <1>0, <1>9, LeasesKeepConfig
  DEF AgentLeases, WriteLease, ExpireLease, Alone, KnownInv, Answered, passVars, callVars
<1>10. CASE UNCHANGED passesVars
  BY <1>0, <1>10 DEF passesVars, KnownInv, Config, Answered, passVars, storeVars, callVars
<1>11. QED
  BY <1>1, <1>2, <1>3, <1>4, <1>5, <1>6, <1>7, <1>8, <1>9, <1>10 DEF PassesNext

----------------------------------------------------------------------------
(* The invariant, and what follows from it.                                *)

(* The invariant holds at first ...                                        *)
LEMMA PassesInvInit == PassesInit => PassesInv
<1> SUFFICES ASSUME PassesInit PROVE PassesInv
  OBVIOUS
<1>1. StoreInv
  BY StoreInvInit DEF PassesInit
<1>2. KnownInv
  BY TheWorker DEF PassesInit, StoreInit, KnownInv
<1>3. QED
  BY <1>1, <1>2, WorkerInit DEF PassesInv

(* ... every step keeps it ...                                             *)
LEMMA PassesInvStep == PassesInv /\ [PassesNext]_passesVars => PassesInv'
<1> SUFFICES ASSUME PassesInv, [PassesNext]_passesVars PROVE PassesInv'
  OBVIOUS
<1>1. StoreInv'
  BY StoreSteps, StoreInvStep DEF PassesInv, passesVars
<1>2. WorkerInv'
  BY WorkerStep DEF PassesInv
<1>3. QED
  BY <1>1, <1>2, KnownStep DEF PassesInv

(* ... and so it holds throughout.                                         *)
LEMMA PassesInvariant == PassesSpec => []PassesInv
  BY PassesInvInit, PassesInvStep, PTL DEF PassesSpec

(* The store and the worker keep to their sets (networkconfig, etcdv2.go). *)
THEOREM PassesTypes == PassesSpec => []PassesTypeOK
<1>1. PassesInv => PassesTypeOK
  BY DEF PassesInv, StoreInv, WorkerInv, PassesTypeOK, Steps
<1>2. QED
  BY <1>1, PassesInvariant, PTL

(* A network that was let go has no config, whatever requests and answers  *)
(* were lost, as long as none is served late (networkconfig/delete.go      *)
(* 12-32).                                                                 *)
THEOREM ReleasedIsGone == PassesSpec => []ReleasedStaysGone
<1>1. PassesInv => ReleasedStaysGone
  BY DEF PassesInv, KnownInv, ReleasedStaysGone
<1>2. QED
  BY <1>1, PassesInvariant, PTL

(* A create pass that reports success has left the config it was handed,   *)
(* although creating one that exists counts as success and a repeated call *)
(* meets what the first one did (networkconfig/update.go 13-43).           *)
THEOREM SuccessMeansDesired == PassesSpec => SuccessIsDesired
<1>1. ASSUME PassesInv, Succeeds, NothingLate PROVE Config = desired
  <2>1. KnownInv /\ phase[Worker] = "answered" /\ pass' # pass
    BY <1>1 DEF PassesInv, Succeeds, Continue, Return
  <2>2. CASE AfterGetConfig
    BY <1>1, <2>1, <2>2 DEF Succeeds, AfterGetConfig, Goto, KnownInv
  <2>3. CASE AfterWriteConfig
    BY <2>1, <2>3 DEF AfterWriteConfig, KnownInv
  <2>4. CASE AfterCreateConfig \/ AfterClearConfig
    BY <2>1, <2>4 DEF AfterCreateConfig, AfterClearConfig, Goto
  <2>5. CASE AfterDeleteConfig
    BY <1>1, <2>5 DEF AfterDeleteConfig, Succeeds, PassesInv, WorkerInv
  <2>6. QED
    BY <1>1, <2>2, <2>3, <2>4, <2>5 DEF Succeeds, Continue
<1>2. PassesInv /\ [PassesNext]_passesVars => [Succeeds /\ NothingLate => Config = desired]_passesVars
  BY <1>1
<1>3. QED
  BY <1>2, PassesInvariant, PTL DEF PassesSpec, SuccessIsDesired
=============================================================================
