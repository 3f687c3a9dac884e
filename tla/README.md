# flannel-operator in TLA+

flannel-operator runs in a host cluster and gives every guest cluster (a
`FlannelConfig` custom resource) a flannel network of its own: a network config
in etcd, a namespace, a daemon set of `flanneld` pods that build a bridge on
every node, and the rights these pods need.  When the FlannelConfig is deleted
it takes all of that down again, in an order that matters: not before the guest
cluster is drained, and with a job that removes the bridges from the nodes once
nothing can build them any more.

This directory holds the TLA+ modules that model that code, the TLC
configurations that check them and the TLAPS proofs about them.  Paths below are
relative to the repository, `v3/` stands for `service/controller/v3/`.

## 1. Inventory

| Component | Code | State it keeps | Operations |
|---|---|---|---|
| Controller and version dispatch | `service/controller/network.go`, `v3/version_bundle.go`, `v3/resource_set.go` | the finalizer of the FlannelConfig; the context of a pass (canceled? finalizer kept?); the retries of a resource | run a create or delete pass through the resources in a fixed order, retry a failing one, cancel, keep or remove the finalizer |
| networkconfig resource | `v3/resource/networkconfig` | etcd key `coreos.com/network/br-<id>/config` | search; create; delete the directory and create (update); delete the directory |
| etcd store | `v3/etcd` | the etcd v2 key space | `Create` (leaves an existing key alone), recursive `Delete`, `Search`, `Exists`, `List` |
| namespace resource | `v3/resource/namespace` | namespace `flannel-network-<id>` | get (a terminating one cancels the reconciliation), list the guest cluster's pods, create, delete |
| legacy resource | `v3/resource/legacy` | service accounts, four cluster role bindings, namespace `flannel-destroyer-<id>` with the cleanup job, an old `extensions/v1beta1` daemon set | grant rights; on deletion wait for pods and two namespaces, run the cleanup job on every schedulable node, remove everything |
| flanneld resource | `v3/resource/flanneld` | the `apps/v1` daemon set | get (an old daemon set cancels the resource), create, delete; never updates |
| clusterrolebindings resource | `v3/resource/clusterrolebindings` | none | both operations are empty |
| names and keys | `v3/key`, `legacy/keys.go`, `flanneld/desired.go` | none | names of namespaces, accounts, bindings, links, files; ports: pure functions of the custom resource |
| deployment of the operator | `helm/flannel-operator/templates/deployment.yaml` | the running processes | rolling update: the new process starts before the old one ends |
| service, server, flags, metric | `service/service.go`, `server`, `flag`, `main.go`, `flanneld/metric.go` | none that the above reads | boot, version and health endpoints |

How they interact.  operatorkit (a library, not in the repository) watches
FlannelConfigs and runs one reconciliation after the other.  `resource_set.go`
hands it the resources in the order clusterrolebindings, networkconfig,
namespace, legacy, flanneld.  The resources never call each other: they share
the objects in Kubernetes and etcd, and three flags in the context of the pass,
"resource canceled", "reconciliation canceled" and "finalizers kept".  The
service account of `legacy` is used by the daemon set of `flanneld`; the
namespace that `namespace` deletes is the one `legacy` waits for; the config
that `networkconfig` writes is read by the agents.  Several FlannelConfigs share the
worker, the nodes and one name space of objects; during a rolling update two
workers share one FlannelConfig.

What is hard.  A pass makes some thirty calls one after the other, and everybody
else goes on in between: the user, the owner of the guest cluster, the
namespace, daemon set and job controllers, the agents.  Waits end after two
minutes with an error, errors are retried and the retries run out, calls fail,
the process crashes; every time the next pass has to pick up from whatever is
there.  And the FlannelConfig is released as soon as one delete pass neither
fails nor keeps the finalizer.  Requests to etcd may be served after their
caller has given up, next to agents that write their leases into the directory
that is being deleted.  Objects are found by names that are joined from ids.

What makes each part correct.  *networkconfig*: etcd ends up with the config the
spec asks for, whatever interrupts an update.  *namespace*, *flanneld*: the
network stays until the guest cluster is drained.  *legacy*: the cleanup job
works alone and with its rights, is let finish, and nothing is left behind.
*controller*: a deleted FlannelConfig is released in the end, and not before the
network is gone; one FlannelConfig does not hold up or spoil another.  *etcd
store*: it is a register per network.  *names*: no cluster finds another one's
objects, apart from those whose names really do coincide.  *deployment*: two processes at work do not undo each other's order.  The
hazards that threaten these, each at its line, are listed in `PROJECT.json`.

## 2. Modules

```
HostCluster            Kubernetes API, controllers, nodes, etcd, users (external)
  Reconcile            passes, order of resources, cancelation, retries, failures
    NetworkConfigResource  NamespaceResource  LegacyResource  FlanneldResource
      FlannelOperator      one worker + host cluster: Init, Next, fairness, properties
        Overlap              two workers, one FlannelConfig: rolling update
        Fleet                one worker, two FlannelConfigs with version bundles
NetworkLifecycle       what is promised about agents, cleanup and bridges

EtcdStore              the store over the key tree of etcd, requests and answers
  ConfigPasses         the networkconfig resource as its client
ConfigRegister         what the store is taken for: a register per network

Names                  the key functions
  SharedObjects        the objects of all clusters, found by name
PrivateObjects         what each cluster may take the host cluster for

MC*                    for TLC
FlannelOperatorProofs < LifecycleProofs < FleetProofs       for TLAPS
FlannelOperatorProofs < WorkerMoves < OverlapProofs
EtcdStoreProofs < ConfigPassesProofs
SharedObjectsProofs
```

In the first tree each module extends the one above it, so that all share one
state; `NetworkLifecycle` is instantiated by `FlannelOperator`, `ConfigRegister` by
`EtcdStore`, `PrivateObjects` by `SharedObjects`.  A step of
the worker is **one call** of the Kubernetes API or of etcd, together with the
computation up to the next call; its name is the value of `step` at which it is
enabled.  Between two steps anything else may happen.

* `HostCluster` has the state outside the process: the FlannelConfig (`cr`,
  `finalizer`, `spec`), the config in etcd, the phases of the three namespaces
  the operator looks at, daemon sets by API group, the nodes on which an agent
  runs, accounts, bindings, the cleanup job with its running and succeeded pods,
  the nodes that carry a bridge or are cordoned, and the environment files on the
  nodes' disks.  Its actions are everybody else's steps.  None of this is code of the repository; it is what the calls
  rely on and the answers they are prepared for.  What the pods do is taken from
  the manifests (`newDaemonSet`, `newJob`, `newPodAffinity`): flanneld needs the
  config and writes the environment file (`AgentWritesEnvFile`), the bridge
  container waits for that file only (`AgentBuildsBridge`,
  `flanneld/desired.go:172`).  The file is on a path of the host and outlives the pods,
  so a bridge can be built without a config.  The bindings name a service account and
  a role (`Subject`, `RoleOf`, from the constructors), and a controller may start a pod if
  its account exists and is bound to the pod security policy (`Admitted`).
* `Reconcile` has the state of the worker: the pass, the next call, the object
  the pass was handed, what the current resource has read (`stored`, `found`,
  `replicas`), the kept flag, the retries.  A canceled resource goes on with the
  next resource, a canceled reconciliation ends the pass.
* The four resource modules have one action per call.  `NewUpdatePatch` of a
  create pass calls the create change first and the update change second, which
  is why `CreateConfig` may be followed by `ClearConfig`.  `GetConfig` fails on a
  config that is no JSON (`Unreadable`, `networkconfig/current.go:28`), in create and
  delete passes alike.
* `FlannelOperator` composes them.  The initial states are a FlannelConfig just
  created, and one whose network an older version of the operator has set up
  with an `extensions/v1beta1` daemon set.

* `NetworkLifecycle` is the abstract specification: a network is open, closed for
  good, or being cleaned; agents start and build bridges only while it is open,
  cleaners remove bridges only while it is cleaned, and a closed network never
  opens again.  It knows no passes, calls, namespaces or failures.  The
  refinement mapping is `Stage` in `FlannelOperator`: cleaning while the job
  exists; closed when the network namespace is gone, the FlannelConfig is
  deleted and no create pass is on its way any more; open otherwise.  The last of
  these matters: a create pass that was running when the FlannelConfig was
  deleted still creates the namespace, so absence alone closes nothing.

* `Overlap` adds a second worker: the variables of `FlannelOperator` are those of
  the new process, an instance has those of the old one, and both work on the same
  host cluster.  The deployment has one replica, the strategy `RollingUpdate` and
  nothing that elects a leader, so the old process is in any pass when the new one
  starts, and dies anywhere (`OldStops`).  There are two history variables.
  `crossed`: has a create pass of one worker met a delete pass of the other?  Only
  then is the order lost: with a create pass under way in one process, the delete
  pass of the other may release the FlannelConfig, and the network is created again
  behind it.  `alone`: has the new worker begun a pass since the old one is gone?
  Failing calls are left out here, the old process may die in their place.
* `Fleet` has two FlannelConfigs, A with the variables of `FlannelOperator` and B
  with those of an instance, and one worker whose variables belong to both.  It
  starts a pass only of a FlannelConfig with the operator's own version bundle
  (`Handles`, asked when the event comes in) and finishes a pass that it has
  begun, also when the bundle is changed in the middle.  The two
  networks have no object in common; where that is so is the subject of
  `SharedObjects`.
* `EtcdStore` has the key tree of etcd v2 as far as it matters: the directory of a
  network with its `config` and the leases of the agents below `subnets`.  All five
  operations of `etcdv2.go` are there, with their answers.  A call is a request,
  served at some moment, and an answer; a caller may give up, and its request is
  lost or served later (`TakeLate`).  Agents write leases at any time, also into
  the directory just deleted, and leases expire.
* `ConfigRegister` is what the rest of the operator takes the store for: one
  register per network.  The refinement mapping reads the config keys of the tree;
  leases are invisible.
* `ConfigPasses` is the networkconfig resource as a client of that store, with the
  passes reduced to this one resource.  Where `NetworkConfigResource` takes a call
  for one step, here request and answer are lost separately, and a request of an
  earlier pass is served in the middle of a later one.
* `Names` has the key functions.  A name is the sequence of the parts that the code
  joins with `-`, an id being such a sequence itself, so that two names are equal as
  sequences just if they are equal as strings.  The functions by which the cleanup job's
  links and files are named for deletion are not those by which they are created
  (`networkBridgeName`, `NetworkBridgeName`), hence `NameOf` and `DeletedName`.  Ports are
  numbers with the conversion to `int32`.
* `SharedObjects` has one set of objects for all clusters: creating an object whose
  path exists counts as success, whoever created it, and deleting goes by the path
  (`Target`).  `Meets` says which objects of different clusters have one name, and
  `Contested` are those objects.  `PrivateObjects` is the same with a set of its own for
  each cluster, where nothing is promised of contested objects, and `ImplementsPrivate`
  says that of all others nobody can tell the difference.

What stands for what:

| Code | Model |
|---|---|
| FlannelConfig, deletion timestamp, finalizers | `cr`, `finalizer`; the copy of the pass: `pass`, `object` |
| `flannel-network-<id>`, `spec.cluster.namespace`, `flannel-destroyer-<id>` | `namespaces["network"]`, `["cluster"]`, `["destroyer"]` |
| service accounts in the first and the last of these | `accounts` |
| the four cluster role bindings | `bindings`: `network`, `networkPsp`, `deletion`, `deletionPsp` |
| the network, subnet length and VNI in etcd | one of `Configs`, `NoConfig`, or `Unreadable` |
| `<run dir>/networks/br-<id>.env` on a node | `envFiles` |
| number of schedulable nodes | `replicas` |
| `spec.versionBundle.version` | `bundle` (in `Fleet`) |
| etcd key, path of an object | a sequence of its parts (`EtcdStore`, `Names`) |

Choices a reader should know of:

* *Failures.*  `CallFails` lets any call fail without an effect.  A call whose
  answer is lost is covered by a call that succeeds followed by a next one that
  fails, because a retry starts no later than the failed call.  `Crash` forgets the worker's
  state anywhere.  Both are bounded together by `MaxFaults`.  A wait of two
  minutes is one action that either sees what it waits for or fails; such
  failures are not bounded.
* *Retries.*  The wrapper that retries is not in the repository.  After a
  failure the model goes back to the start of the operation that failed or to
  the start of the resource, so whichever the wrapper does is covered.
* *The old daemon set.*  On some API servers `extensions/v1beta1` and `apps/v1`
  are views of the same objects, on others the operator sees two kinds.
  `SharedDaemonSets` says which; runs use both, the proofs hold for both.
* *etcd.*  `HostCluster` keeps no leases.  They only decide whether deleting a
  directory without a config is an error, and `StoreDelete` allows both answers;
  `EtcdStore` shows that this is all there is to them.
* *Late requests.*  etcd serves a request once, possibly after its caller has given
  up.  A create served late, after the delete pass, leaves a config behind that
  nobody removes, and a delete served late takes a new one away until the next pass.
  The code cannot prevent either; the safety properties of `ConfigPasses` exclude
  them (`NothingLate`), its liveness property does not.
* *Ids.*  Nobody in the code checks ids and VNIs, so `SharedAssumption` asks for no
  more than that ids are not empty and VNIs are integers; they need not differ.  Some
  names then coincide.  The binding of the agents' pod security policy of a
  cluster `a` is `flannel-network-a-psp`, and so is the binding of the agents of a
  cluster `a-psp`; the cluster that is deleted first takes the rights of the other
  away.  Equal VNIs mean one device and one port for two networks.  `Meets` lists
  all these cases, and `NamesMeet` proves that there are no more.
* *The job.*  Its pods are required to avoid nodes where a pod of the job
  *runs*; pods are started in any order, and a finished pod repels none.

## 3. Runs

Twelve runs, of which five end in a counterexample (section 5).  States are
distinct states.

| Run | Instance | States | Asks |
|---|---|---|---|
| `safety` | 2 nodes, 2 configs, one disturbance, retry, fault each | 1 219 000 | the order of setup and teardown, and the refinement of `NetworkLifecycle` |
| `progress` | the same, calm behaviors | 458 000 | a deleted FlannelConfig is released, drained first, cleanup pods let finish; one that stays gets its network |
| `overlap` | 1 node, 1 config, two workers | 1 880 000 | what holds while two processes overlap |
| `fleet` | 1 node, 1 config, two FlannelConfigs, one fault or one change of bundle | 234 000 | one FlannelConfig next to another that is stuck |
| `etcd_store` | 2 networks, 2 configs, 1 host, 1 client, one late request | 73 000 | the store is a register per network |
| `config_passes` | 2 configs, one late request, retry and change each, two losses | 42 000 | the networkconfig resource over that store |
| `shared_objects` | ids `a`, `a-psp`, `a-deletion`, three objects at a time | 5 700 | clusters notice each other at contested objects only |
| `network_kept`, `released`, `job_wait_early`, `job_wait_endless`, `every_node` | 1 or 2 nodes | | see section 5 |

The properties of the passing runs, besides one type invariant each:

* `CleanupAloneOnNodes`: the cleanup job exists only while the network
  namespace, its daemon sets and all agents are gone.  Otherwise an agent could
  build again the bridge the job has removed.
* `CleanupJobHasItsRights`: a job in an active namespace has its service account
  and both bindings, although they are created by separate calls that may be cut
  off, and a later pass finds only some of them.
* `RightsBeforeUse`: the daemon set never lacks its bindings, nor an agent while
  it runs.  On creation only the order of a slice in `resource_set.go` sees to
  that; on deletion the bindings go last.
* `FinishedIsClean`: a delete pass that went through and kept no finalizer has
  left nothing, whatever create pass was still running when the FlannelConfig
  was deleted.
* `ReleasedIsQuiet`: whichever pass releases the FlannelConfig, also one that was
  cut short, the network namespace is gone or going, no config is left in etcd, and
  no cleanup job is at work in an active namespace.  Agents that have not stopped yet
  may still build a bridge where their environment file is.
* `DrainBeforeTeardown`: in the deletion, the network namespace and the daemon
  sets are taken away only from a guest cluster without pods.
* `NoPodInterrupted`: when the job is removed, none of its pods is at work.
* `ImplementsLifecycle`, `NoBridgeReturns`: the refinement, and what a reader
  wants of it: after the teardown no late call of a pass, no retry and no restart
  brings back the network, or a bridge the job has removed.
* `DeletionCompletes`, `Converges`: the liveness of both kinds of passes.
* `CleanupAloneUnlessCrossed`, `RightsUnlessCrossed`, `DownUnlessCrossed`: the first,
  third and fifth of these while two processes overlap, as long as not one creates
  and the other deletes.  `LifecycleUnlessCrossed` is the refinement of
  `NetworkLifecycle` by two workers; the network is closed when its namespace is
  gone and neither can create it again.
* `DrainBeforeTeardownByBoth`, `DownStaysDown`: these two hold even if they do: pods
  keep their network, and a network that is down stays down with its bridges.
* `CleanOnceAlone`: however two workers have left the network, crossed or not, a
  delete pass that the new one begins and completes after the end of the old one
  leaves nothing behind.
* `EachInOrder`: the order holds for both of two FlannelConfigs, whatever turns the
  worker takes and whenever the version bundle of one is changed.  (That what a pass
  has read or flagged does not reach the next one is how the model is built, after
  the context that each pass gets.)
* `EachImplementsLifecycle`: the refinement of `NetworkLifecycle` by both of them.
* `ForeignUntouched`: a FlannelConfig of another version stays as it was found.
* `NeighbourReleased`, `NeighbourConverges`: B is released, or gets its network,
  although every delete pass of A waits in vain.
* `ImplementsRegister`: the refinement of `ConfigRegister`.
* `ReleasedStaysGone`, `SuccessIsDesired`: what a delete pass and a create pass of
  the networkconfig resource may report.  Creating a config that exists counts as
  success whatever it holds, so the second is not obvious.
* `ConfigSettles`: the config that was asked for last is there in the end.
* `ImplementsPrivate`: the refinement of `PrivateObjects`: of what is not contested, a
  cluster has what it created until it deletes it itself, and no call fails that would
  not fail without the others.

Bounds.  `Nodes` has two members where nodes are counted or cordoned: one can be
cleaned or without agent while the other is not, which is all the code tells apart.
`Configs` has two where the spec may change.  `MaxRetries` is 1: a retry and giving up
both happen; a further retry starts from the same state.  `MaxChurn` bounds the
disturbances: the user changing the spec, a pod coming back while the cluster is
drained, the network namespace deleted by hand, a node cordoned or uncordoned, the
config in etcd spoiled.
`MaxFaults` bounds failures and crashes.  One of each, in any order and at any call,
together with unbounded passes and time-outs, meets every step of a pass with every
interruption.  For the safety properties these bounds do not matter, since they are
proved.

`progress` has calm behaviors (`CalmNext` in `MCFlannelOperator`): no node is cordoned,
once the FlannelConfig is deleted nobody disturbs, nobody spoils the config (every pass
would fail on it), and there are no environment files of an earlier network (the
initial states of `safety` have any).  With such disturbances its
properties are not true of the code: a pod that comes back between the list of
pods and the deletion of the namespace is not noticed, and a node cordoned at
the wrong moment is the subject of `job_wait_early` and `job_wait_endless`.

`overlap` has no disturbances and no failures, so that its fault is the other worker
alone; two workers in two passes at any of their steps are many states already.
For the same reason the environment files are there from the start and stay
(`MCOverlap`): an agent may then build its bridge at any time, which is the worst case.
Four properties of a single worker are not claimed for two, because TLC finds
them violated even when the workers do not cross, by two delete passes side by
side: `CleanupJobHasItsRights` and `FinishedIsClean` (one removes the bindings
while the other still runs the job, or sets the cleanup up again behind it),
`NoPodInterrupted`, and that the wait for the job is waited out.  The second of them
is true again for passes begun after the old worker's end (`CleanOnceAlone`).
`SharedDaemonSets` is true in `overlap` and `fleet`, false in the other runs; the
proofs hold for both.

`fleet` is restricted in `MCFleet` to the case that threatens B: the network of A is
from an earlier version, its guest cluster has no pods and is never taken down, so
that its deletion waits for ever.  B is created or found, of this or the other
version, deleted or not, drained, disturbed in its passes by a failure, a crash or a
change of its bundle.  That the safety properties hold without these restrictions
is proved.

`etcd_store` is symmetric in its networks, configs and clients, and has no liveness
property.  `config_passes` has one network, as the store is shown to keep networks
apart.  In `shared_objects` the ids are chosen to meet: the bindings of `a` with those of
`a-psp` and of `a-deletion`.  Two VNIs are the same, and one is 44536, the first whose
port (21000 + VNI) is none.  Three objects at a time are enough for one to be looked
for, one to be found in its place, and the namespace it lies in.  The view leaves out
the last call, on which no step depends.

Fairness.  The worker is a goroutine that goes on (`OperatorNext`, weakly fair);
it need not meet failures or crashes.  The controllers of Kubernetes, the
scheduler, the agents and the pods of the job make progress.  For the deletion,
the guest cluster is drained and its owner deletes its namespace: the code waits
for both (`legacy/resource.go:170` and `:247`), nobody else can do it for them.
The user is never fair: no FlannelConfig has to be deleted or changed.  Weak
fairness is enough there, and each pass is a loop that returns to
the same wait, so no step has to be taken within a time.  In `Fleet` the worker,
whenever it is free, chooses between FlannelConfigs, so that starting a pass of B is
enabled again and again but not for good: it is strongly fair, because the
informer of operatorkit hands over every FlannelConfig again in each resync period.
Nothing is assumed of A's surroundings.  In `ConfigPasses` the worker and etcd go
on, and what is on its way arrives; losses are bounded by `MaxLosses`.

`CHECK_DEADLOCK` is on everywhere.  The only states in which nothing is left to do
are those of FlannelConfigs that are gone, or another version's, and whose objects
have been collected; the actions `Rest`, `OverlapRest` and `FleetRest` say that this is
intended.

## 4. Proofs

The theorems hold for every finite set of nodes, every set of configs, networks,
hosts, clients, ids and VNIs, and all bounds, from the assumptions on the constants that
the modules name (`HostAssumption`, `ReconcileAssumption`, `FleetAssumption`,
`StoreAssumption`, `PassesAssumption`, `SharedAssumption`).

| Module | Theorem | States |
|---|---|---|
| `FlannelOperatorProofs` | `TypeCorrect` | `Spec => []TypeOK` |
| | `CleanupAlone` | `Spec => []CleanupAloneOnNodes` |
| | `CleanupRights` | `Spec => []CleanupJobHasItsRights` |
| | `NetworkRights` | `Spec => []RightsBeforeUse` |
| | `FinishedClean` | `Spec => []FinishedIsClean` |
| `LifecycleProofs` | `Implementation` | `Spec => ImplementsLifecycle` |
| | `BridgesStayAway` | `Spec => NoBridgeReturns` |
| | `ReleasedAtRest` | `Spec => []ReleasedIsQuiet` |
| | `DrainedFirst` | `Spec /\ StaysQuiet => DrainBeforeTeardown` |
| | `PodsFinish` | `Spec /\ NodesAsTheyAre => NoPodInterrupted` |
| | `JobWaitedFor` | `Spec /\ NodesAsTheyAre => []WaitsForJob` |
| `FleetProofs` | `FleetTypes` | `FleetSpec => []FleetTypeOK` |
| | `BothInOrder` | `FleetSpec => []EachInOrder` |
| | `EachLifecycle` | `FleetSpec => EachImplementsLifecycle` |
| | `ForeignIsLeft` | `FleetSpec => []ForeignUntouched` |
| `WorkerMoves` | `CleanFromAnywhere` | `AnyNetwork /\ [][Next]_vars => []FinishedIsClean` |
| `OverlapProofs` | `OverlapTypes` | `OverlapSpec => []OverlapTypeOK` |
| | `AloneByBoth` | `OverlapSpec => []CleanupAloneUnlessCrossed` |
| | `DownByBoth` | `OverlapSpec => []DownUnlessCrossed` |
| | `LifecycleByBoth` | `OverlapSpec => LifecycleUnlessCrossed` |
| | `DownForGood` | `OverlapSpec => DownStaysDown` |
| | `CleanByTheOneThatStays` | `OverlapSpec => []CleanOnceAlone` |
| | `RightsByBoth` | `OverlapSpec /\ NeverByHand => []RightsUnlessCrossed` |
| | `DrainedByBoth` | `OverlapSpec /\ StaysQuiet => DrainBeforeTeardownByBoth` |
| `EtcdStoreProofs` | `StoreTypes` | `StoreSpec => []StoreTypeOK` |
| | `StoreIsRegister` | `StoreSpec => ImplementsRegister` |
| `ConfigPassesProofs` | `PassesTypes` | `PassesSpec => []PassesTypeOK` |
| | `ReleasedIsGone` | `PassesSpec => []ReleasedStaysGone` |
| | `SuccessMeansDesired` | `PassesSpec => SuccessIsDesired` |
| `SharedObjectsProofs` | `SharedTypes` | `SharedSpec => []SharedTypeOK` |
| | `NamesMeet` | the paths of two objects coincide just if `Meets` says so |
| | `OneHostEach` | `SharedSpec => ImplementsPrivate` |

Five theorems have a hypothesis about what others do, and none of them is true without
it.  `StaysQuiet`: once the FlannelConfig is deleted, no pod comes back to the guest
cluster, and nobody removes the network namespace by hand.  `NodesAsTheyAre`: once it is
deleted, no node is cordoned or uncordoned.  `NeverByHand`: nobody ever removes the
network namespace by hand.  These are conditions on the behavior and not on the
constants, so each excludes only what it names: before the deletion everything may be
disturbed, and during it everything else, with failures, crashes and time-outs.

*One worker.*  The theorems of `FlannelOperatorProofs` rest on one inductive invariant, `IInv`, because none of the four safety
properties is inductive: each is kept by where the worker is in its pass, and
that depends on the others.  Its parts:

* `PassInv`: a pass runs only while the finalizer holds the FlannelConfig, so it
  cannot vanish under the pass; a delete pass only once it is deleted.  A create
  pass takes only create steps, a delete pass only delete steps.
* `ContentInv`: a namespace that is gone is empty, a job that is gone has no pods.
* `TornDownInv`: from the end of the wait for the network namespace to the end
  of the legacy resource that namespace is gone, and while the destroyer
  namespace exists no create pass runs.  This is the heart: only a create pass
  can create the network namespace again, and after the deletion no create pass
  starts.
* `DestroyerInv`: which of the job's rights are there at which step, and that
  they are removed only when the destroyer namespace is no longer active.
* `NetworkRightsInv`: the same for the daemon set.
* `ProgressInv`: what a delete pass has achieved by each step, up to `Clean`
  behind the legacy resource unless the finalizer is kept.

The proof that a step preserves `IInv` has one lemma per resource, with one case
per action, and one for the host cluster.  Failures, retries, crashes and ends
of passes are lemmas of their own: they change nothing in the host cluster and
lead to a step at which less is known.

The refinement is proved from the same invariant.  Most steps are `Calm`: they
leave agents, job and bridges alone, start no pass, and neither create nor remove
the network namespace.  A calm step maps to a stutter, unless it ends the last
create pass of a deleted FlannelConfig, which closes the network
(`CalmStep`).  The others are taken one by one: `CreateNamespace` happens in
create passes only, `CreateJob` in a closed network, `StartPass` starts a create
pass only in an open one, and the steps of agents, cleanup pods and namespace
controller each map to an action of the life cycle.  `IInv` was checked by TLC as
an invariant before it was proved.

*The deletion.*  `DownInv` adds to `IInv` that a FlannelConfig without finalizer has no
network yet and that a delete pass that was cut short has seen the namespace
terminate.  `QuietInv` is the same for config and cleanup job: a delete pass that meets
the namespace terminating has deleted the config before, and there is no destroyer
namespace yet, as that comes only after the wait for the other.  `DrainedInv` says from
which step on a delete pass knows that there are no pods; under `StaysQuiet` none
comes back.  `JobInv` follows the cleanup job from the count of the nodes to its
removal: under `NodesAsTheyAre` the number that a pass counts is the size of the job,
so that the wait ends only with all pods succeeded and none running.

*A worker from the beginning.*  `FinishedIsClean` needs less than `IInv`.  `FreshInv` says
what a delete pass that began at its first step has achieved by each later one, and
nothing about how the network was found.  It is preserved because each step of the
delete pass checks or removes what it is there for, and nobody else creates anything
for a deleted FlannelConfig.  `CleanFromAnywhere` starts accordingly in `AnyNetwork`: every
state of the host cluster that has the right types, with an idle worker.

*Two FlannelConfigs.*  `Left` is what `IInv` and `DownInv` say of a network without
speaking of the worker.  A worker leaves every network so, in whatever step it is
(`WorkerLeaves`), the host cluster keeps it so while the worker is elsewhere
(`HostGoesOn`), and a worker between two passes may begin there (`WorkerReturns`).
The invariant `FleetInv` says that the network whose turn it is satisfies `IInv` and
`DownInv`, and the other one `Left`.  The lemmas are used for A directly and for B
through an instance of `LifecycleProofs`; the lemmas `Same...` say that it is the
same code.  For the life cycle of each, `LeftStage` is the stage of a network without a
worker.  A step of the worker on its network maps as in `Implementation`, a step of the
host cluster on the other one by `LeftStep`.  When the worker turns from one network to
the other, both ways to tell the stage agree, because it is between two passes
(`StagesOfA`, `StagesOfB`).

*Two workers.*  `WorkerMoves` says in one lemma, `OperatorMoves`, what a step of a
worker may do to the host cluster and what it must have learnt before; it is used
for the new worker directly and for the old one through an instance, so that no
action is considered twice.  `HostEffect` does the same for everybody else.  The
invariant `OverlapInv` rests on one observation: as
long as the workers have not crossed, a network that was seen gone by either is
closed, because the FlannelConfig is deleted and neither worker is in a create
pass, and nobody begins one any more.  `LifecycleByBoth` follows from it step by step, as
`Implementation` does from `IInv`.  That `Down` stays true once it is needs nothing that
depends on crossing: this is `DownForGood`.  Rights need
`NeverByHand`: a namespace removed by hand under one worker could be created again by
the other, which is already past the step that creates the service account.
`CleanByTheOneThatStays` uses `FreshInv` from the first pass that the new worker begins
alone; up to there nothing is known of the network, and nothing needs to be.

*The store.*  The invariant `StoreInv` is the type of the tree, in which a config key
holds configs only and a lease key leases, together with `WellFormed`: what is in the
tree is in directories that exist, which is etcd's doing.  From it follows
that no file lies above another key, so creating a config never fails, and that a
directory deleted has exactly one config below it.  Every operation is shown to do
to the config keys what the register does.

*The networkconfig resource.*  `PassesInv` adds where the worker is and, as long as no
request was served late, what the worker knows (`KnownInv`): the answer it has got, or
the step it has reached, tells it the config, because nobody else writes that key.

*Names.*  Names are sequences of unknown length here, as ids are.  `Cancel` and `EndsDiffer`
say when two such sequences can be equal: a common suffix may be taken off, different
last parts tell them apart; `Joins` puts that into the form in which names are built.
`BindingNames` and `OtherNames` use it for each pair of kinds, and with `Paths` they give
`NamesMeet`.  So the path of an object that is not contested is that of no other
(`UncontestedPaths`), it lies under no path but its own and its namespace's (`Apart`), and
deleting takes just what one would expect (`DeleteMeans`, `Targets`).  From there
`OwnStep` maps a call on such an object to one on the objects of its own cluster, and
`ContestedStep` shows that calls on the others touch none of these.

Only model-checked: liveness (`DeletionCompletes`, `Converges`, `NeighbourReleased`,
`NeighbourConverges`, `ConfigSettles`), which is out of the prover's reach.  Every safety
property of a passing run is a theorem.

## 5. Where code and comments disagree

Five runs end with a counterexample to a sentence in the code's comments.

* `network_kept`: "as long as pods are there we delay the deletion of the
  network" (`legacy/resource.go:163`).  `networkconfig` runs first and deletes the
  config in the first delete pass.  An agent that restarts on a node that is
  still being drained has no config.
* `released`: a terminating namespace needs no "further work"
  (`namespace/current.go:39`).  The delete pass that deletes the namespace waits
  for it in `legacy`.  If that pass ends in between (time-outs and retries used up, or
  a crash), the next one meets the namespace terminating, cancels the
  reconciliation, and does not keep the finalizer.  The FlannelConfig is
  released, bridges and bindings stay.  (`FinishedIsClean` holds because
  it speaks of passes that were not canceled.  What holds of these as well is
  `ReleasedIsQuiet`: what stays is idle.)
* `job_wait_early`, `job_wait_endless`: "wait for the cleanup job to complete"
  (`legacy/resource.go:360`).  A job that exists keeps its size; each pass counts
  the schedulable nodes again and compares for equality.  A node cordoned
  between two passes ends the wait too early, or makes it time out in every
  later pass.  `JobWaitedFor` says that this is the only cause of the former.
* `every_node`: "on every node using anti affinity" (`legacy/resource.go:321`).
  A pod of the job that has finished repels no other, so two pods may run on one
  node one after the other, and another node keeps its bridge.

What canceling a reconciliation does to the finalizer is operatorkit's: the model
takes it that only an error or the kept flag keeps it, as the resources do, which
set the flag wherever they want it kept.

## 6. Not modelled

* The template of the daemon set and of the job beyond what their pods need and
  do; wording, labels, metrics, logging.
* `clusterrolebindings`: neither operation makes a call.
* Boot, flags, HTTP endpoints, project constants: no state that the rest reads.
* Versions of the daemon set.  An existing daemon set is never updated
  (`flanneld/update.go:32`), so agents go on with the image and VNI they were created
  with; nothing the operator does later depends on it.
* Bridges on cordoned nodes: the code leaves them on purpose
  (`legacy/resource.go:333`), so they are in the model but no property asks for their
  removal.
* Crossed workers.  What happens once one process creates while the other deletes
  is in `Overlap`, but all that is claimed of it is `DrainBeforeTeardownByBoth`,
  `DownStaysDown` and `CleanOnceAlone`.
  The liveness of a deletion by two workers is not claimed either.

## 7. Plan

Done: the operator with its life cycle (`FlannelOperator`, `NetworkLifecycle`), two
workers (`Overlap`), two FlannelConfigs (`Fleet`), the etcd store and its client
(`EtcdStore`, `ConfigPasses`), names and ports (`SharedObjects`), and theorems for the
safety properties of all of them.  What is left, in this order:

1. Failures in `Overlap`, beyond the death of the old process.
2. Daemon sets with the version they were created with, and the agents' rolling
   update.
