------------------------------ MODULE EtcdStore ------------------------------
(***************************************************************************)
(* The etcd store (v3/etcd) over the key tree of etcd v2.  The operator    *)
(* keeps the config of a network at coreos.com/network/br-<id>/config; the *)
(* agents keep their leases below coreos.com/network/br-<id>/subnets, in   *)
(* the same directory, which the operator deletes as a whole.              *)
(*                                                                         *)
(* A call of the store is a request that etcd serves at some moment.  The  *)
(* caller may give up before it gets the answer; the request may be lost,  *)
(* or still be on its way and be served later.                             *)
(***************************************************************************)
EXTENDS Naturals, Sequences, FiniteSets

CONSTANTS
  Networks, Configs, NoConfig,
  Hosts,      \* those who hold leases
  Clients,    \* those who call the store, one call at a time
  Directory,  \* the contents of a directory
  Lease,      \* the contents of a lease
  MaxLate     \* bound on the requests that are served late

ASSUME StoreAssumption ==
  /\ NoConfig \notin Configs
  /\ {Directory, Lease} \cap (Configs \cup {NoConfig}) = {}
  /\ Directory # Lease
  /\ MaxLate \in Nat

VARIABLES
  tree,                    \* the contents of every key, NoConfig where there is none
  phase, request, answer,  \* the call of each client
  late,                    \* the requests that are on their way without a caller
  delays                   \* how many there were

callVars  == <<phase, request, answer>>
storeVars == <<tree, callVars, late, delays>>

----------------------------------------------------------------------------
(* Keys, as sequences of the names in a path; Service.key has put "/" in   *)
(* front of them, as the agents do, and left no empty name.                *)
Base           == <<"coreos.com", "network">>
NetworkDir(n)  == <<"coreos.com", "network", n>>
ConfigKey(n)   == <<"coreos.com", "network", n, "config">>
LeasesDir(n)   == <<"coreos.com", "network", n, "subnets">>
LeaseKey(n, h) == <<"coreos.com", "network", n, "subnets", h>>

ConfigKeys == {ConfigKey(n) : n \in Networks}
LeaseKeys  == {LeaseKey(n, h) : n \in Networks, h \in Hosts}
Keys ==
  {<<>>, <<"coreos.com">>, Base} \cup {NetworkDir(n) : n \in Networks}
    \cup {LeasesDir(n) : n \in Networks} \cup ConfigKeys \cup LeaseKeys

(* p is q or a directory above it.                                         *)
Covers(p, q) == Len(p) <= Len(q) /\ \A i \in 1 .. Len(p) : p[i] = q[i]

Above(p) == {q \in Keys \ {p} : Covers(q, p)}

----------------------------------------------------------------------------
(* etcd: creating a key makes the directories above it, deleting one takes *)
(* along all below it, and an empty directory stays.                       *)
IsFile(k) == tree[k] \notin {NoConfig, Directory}

Put(k, contents) ==
  tree' = [q \in Keys |-> IF q = k THEN contents ELSE IF q \in Above(k) THEN Directory ELSE tree[q]]

Cut(k) == tree' = [q \in Keys |-> IF Covers(k, q) THEN NoConfig ELSE tree[q]]

Told(status) == [status |-> status, config |-> NoConfig, names |-> {}]

(* Mutant: a key that exists already is written.                           *)
CreateAnyway(k, c, a) ==
  \/ (\E q \in Above(k) : IsFile(q)) /\ a = Told("failed") /\ UNCHANGED tree
  \/ (\A q \in Above(k) : ~IsFile(q)) /\ a = Told("ok") /\ Put(k, c)

(* A key that exists already is fine, whatever it holds.                   *)
Create(k, c, a) ==
  \/ tree[k] # NoConfig /\ a = Told("ok") /\ UNCHANGED tree
  \/ /\ tree[k] = NoConfig
     /\ \/ (\E q \in Above(k) : IsFile(q)) /\ a = Told("failed") /\ UNCHANGED tree
        \/ (\A q \in Above(k) : ~IsFile(q)) /\ a = Told("ok") /\ Put(k, c)

Delete(k, a) ==
  \/ tree[k] # NoConfig /\ a = Told("ok") /\ Cut(k)
  \/ tree[k] = NoConfig /\ a = Told("notFound") /\ UNCHANGED tree

(* The value of a directory is empty.                                      *)
Search(k, a) ==
  /\ UNCHANGED tree
  /\ a = IF tree[k] = NoConfig THEN Told("notFound")
         ELSE [Told("ok") EXCEPT !.config = IF IsFile(k) THEN tree[k] ELSE NoConfig]

Exists(k, a) ==
  /\ UNCHANGED tree
  /\ a = IF tree[k] = NoConfig THEN Told("notFound") ELSE Told("ok")

(* The names of the files in a directory; those of directories are left    *)
(* out, and no names at all count as not found.                            *)
Children(k) == {q[Len(k) + 1] : q \in {q \in Keys : Covers(k, q) /\ Len(q) = Len(k) + 1 /\ IsFile(q)}}

List(k, a) ==
  /\ UNCHANGED tree
  /\ a = IF tree[k] # Directory \/ Children(k) = {} THEN Told("notFound")
         ELSE [Told("ok") EXCEPT !.names = Children(k)]

(* Mutant: the config is written to the path of its network.               *)
ServeAtNetworkPath(r, a) ==
  \/ r.op = "create" /\ Create(NetworkDir(r.net), r.config, a)
  \/ r.op = "delete" /\ Delete(NetworkDir(r.net), a)
  \/ r.op = "search" /\ Search(NetworkDir(r.net), a)

(* Who calls the store chooses the key by the operation.                   *)
Serve(r, a) ==
  \/ r.op = "create" /\ Create(ConfigKey(r.net), r.config, a)
  \/ r.op = "delete" /\ Delete(NetworkDir(r.net), a)
  \/ r.op = "search" /\ Search(ConfigKey(r.net), a)
  \/ r.op = "exists" /\ Exists(ConfigKey(r.net), a)
  \/ r.op = "list"   /\ List(NetworkDir(r.net), a)

----------------------------------------------------------------------------
Operations == {"create", "delete", "search", "exists", "list"}
Requests   == [op : Operations, net : Networks, config : Configs]
Answers    == [status : {"ok", "notFound", "failed"}, config : Configs \cup {NoConfig, Lease},
               names : SUBSET ({"config"} \cup Hosts)]

StoreInit ==
  /\ tree = [k \in Keys |-> IF k = <<>> THEN Directory ELSE NoConfig]
  /\ phase = [c \in Clients |-> "idle"]
  /\ request \in [Clients -> Requests]
  /\ answer = [c \in Clients |-> Told("ok")]
  /\ late = {} /\ delays = 0

Ask(c) ==
  /\ phase[c] = "idle"
  /\ phase' = [phase EXCEPT ![c] = "sent"]
  /\ \E r \in Requests : request' = [request EXCEPT ![c] = r]
  /\ UNCHANGED <<tree, answer, late, delays>>

Take(c) ==
  /\ phase[c] = "sent"
  /\ phase' = [phase EXCEPT ![c] = "answered"]
  /\ \E a \in Answers : Serve(request[c], a) /\ answer' = [answer EXCEPT ![c] = a]
  /\ UNCHANGED <<request, late, delays>>

(* The caller has its answer, or its connection broke on the way back.     *)
Return(c) ==
  /\ phase[c] = "answered"
  /\ phase' = [phase EXCEPT ![c] = "idle"]
  /\ UNCHANGED <<tree, request, answer, late, delays>>

(* The caller waits no longer: the request is lost, or is served later.    *)
GiveUp(c) ==
  /\ phase[c] = "sent"
  /\ phase' = [phase EXCEPT ![c] = "idle"]
  /\ \/ UNCHANGED <<late, delays>>
     \/ delays < MaxLate /\ delays' = delays + 1 /\ late' = late \cup {request[c]}
  /\ UNCHANGED <<tree, request, answer>>

TakeLate(r) ==
  /\ r \in late
  /\ late' = late \ {r}
  /\ \E a \in Answers : Serve(r, a)
  /\ UNCHANGED <<callVars, delays>>

(* An agent writes or renews its lease, also where the directory was just  *)
(* deleted under it; a lease that is not renewed expires.                  *)
WriteLease(n, h) ==
  /\ Put(LeaseKey(n, h), Lease)
  /\ UNCHANGED <<callVars, late, delays>>

ExpireLease(n, h) ==
  /\ tree[LeaseKey(n, h)] = Lease
  /\ tree' = [tree EXCEPT ![LeaseKey(n, h)] = NoConfig]
  /\ UNCHANGED <<callVars, late, delays>>

StoreNext ==
  \/ \E c \in Clients : Ask(c) \/ Take(c) \/ Return(c) \/ GiveUp(c)
  \/ \E r \in late : TakeLate(r)
  \/ \E n \in Networks, h \in Hosts : WriteLease(n, h) \/ ExpireLease(n, h)

StoreSpec == StoreInit /\ [][StoreNext]_storeVars

----------------------------------------------------------------------------
(* Types: config keys hold configs, lease keys leases, and the keys above  *)
(* them are directories, if they exist.                                    *)
Contents(k) ==
  IF k \in ConfigKeys THEN Configs ELSE IF k \in LeaseKeys THEN {Lease} ELSE {Directory}

StoreTypeOK ==
  /\ tree \in [Keys -> Configs \cup {NoConfig, Directory, Lease}]
  /\ \A k \in Keys : tree[k] \in Contents(k) \cup {NoConfig}
  /\ phase \in [Clients -> {"idle", "sent", "answered"}]
  /\ request \in [Clients -> Requests]
  /\ answer \in [Clients -> Answers]
  /\ late \subseteq Requests
  /\ delays \in 0 .. MaxLate

(* The store is a register per network, whatever leases lie around: it     *)
(* never fails, finds a config just when one was created and not deleted   *)
(* since, never another network's, and deletes it with the directory.      *)
Register == INSTANCE ConfigRegister WITH register <- [n \in Networks |-> tree[ConfigKey(n)]]

ImplementsRegister == Register!Spec
=============================================================================
