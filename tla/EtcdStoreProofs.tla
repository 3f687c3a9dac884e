--------------------------- MODULE EtcdStoreProofs ---------------------------
(***************************************************************************)
(* Proofs about EtcdStore, for any networks, configs, hosts, clients and   *)
(* any number of late requests: the types and the shape of the tree are an *)
(* inductive invariant (StoreInv), and the tree of keys implements the     *)
(* register per network of ConfigRegister.                                 *)
(*                                                                         *)
(* The lemmas on keys come first; then what Put and Cut do to the          *)
(* invariant; then one lemma per operation, which the steps of the clients *)
(* and the late requests share.                                            *)
(***************************************************************************)
EXTENDS EtcdStore, TLAPS

(* What etcd sees to: whatever exists is in a directory that exists.       *)
WellFormed == \A k \in Keys : tree[k] # NoConfig => \A q \in Above(k) : tree[q] = Directory

StoreInv == StoreTypeOK /\ WellFormed

----------------------------------------------------------------------------
(* Keys.                                                                   *)

(* The keys of a network, and which of them are files.                     *)
LEMMA KeyKinds ==
  ASSUME NEW n \in Networks, NEW h \in Hosts
  PROVE  /\ NetworkDir(n) \in Keys /\ NetworkDir(n) \notin ConfigKeys \cup LeaseKeys
         /\ LeasesDir(n) \in Keys /\ LeasesDir(n) \notin ConfigKeys \cup LeaseKeys
         /\ ConfigKey(n) \in ConfigKeys
         /\ LeaseKey(n, h) \in LeaseKeys
  BY DEF Keys, ConfigKeys, LeaseKeys, NetworkDir, ConfigKey, LeasesDir, LeaseKey

(* Configs and leases are different keys.                                  *)
LEMMA FileKinds == ConfigKeys \subseteq Keys /\ LeaseKeys \subseteq Keys /\ ConfigKeys \cap LeaseKeys = {}
  BY DEF Keys, ConfigKeys, LeaseKeys, ConfigKey, LeaseKey

(* Every network has a config key of its own.                              *)
LEMMA OneConfigKey == ASSUME NEW n, NEW m PROVE ConfigKey(n) = ConfigKey(m) <=> n = m
  BY DEF ConfigKey

(* The directory of a network has its own config and no other's.           *)
LEMMA OwnConfig == ASSUME NEW n, NEW m PROVE Covers(NetworkDir(n), ConfigKey(m)) <=> n = m
  BY DEF ConfigKey, NetworkDir, Covers

(* How long a key may be.                                                  *)
LEMMA Lengths == ASSUME NEW k \in Keys PROVE Len(k) \in 0 .. 5
  BY DEF Keys, ConfigKeys, LeaseKeys, Base, NetworkDir, ConfigKey, LeasesDir, LeaseKey

(* To be the same key or above it is an order: reflexive ...               *)
LEMMA CoversItself == ASSUME NEW k \in Keys PROVE Covers(k, k)
  BY Lengths DEF Covers

(* ... transitive ...                                                      *)
LEMMA CoversBelow ==
  ASSUME NEW p \in Keys, NEW q \in Keys, NEW r \in Keys, Covers(p, q), Covers(q, r)
  PROVE  Covers(p, r)
  BY Lengths DEF Covers

(* ... and antisymmetric.                                                  *)
LEMMA CoversEither ==
  ASSUME NEW p \in Keys, NEW q \in Keys, Covers(p, q), Covers(q, p)
  PROVE  p = q
  BY DEF Covers, Keys, ConfigKeys, LeaseKeys, Base, NetworkDir, ConfigKey, LeasesDir, LeaseKey

(* Nothing lies below a file.                                              *)
LEMMA FilesAreLeaves ==
  ASSUME NEW k \in Keys, NEW q \in Above(k)
  PROVE  q \in Keys /\ q # k /\ q \notin ConfigKeys \cup LeaseKeys
<1>1. q \in Keys /\ q # k /\ Covers(q, k)
  BY DEF Above
<1>2. ASSUME q \in ConfigKeys PROVE FALSE
  <2>1. Len(q) = 4 /\ q[4] = "config"
    BY <1>2 DEF ConfigKeys, ConfigKey
  <2>2. CASE k \in ConfigKeys
    BY <1>1, <1>2, <2>2 DEF Covers, ConfigKeys, ConfigKey
  <2>3. CASE k \in LeaseKeys
    BY <1>1, <2>1, <2>3 DEF Covers, LeaseKeys, LeaseKey
  <2>4. CASE k \notin ConfigKeys \cup LeaseKeys
    <3>1. k # q /\ Len(k) \in 0 .. 4 /\ (Len(k) = 4 => k[4] = "subnets")
      BY <1>1, <2>4 DEF Keys, Base, NetworkDir, LeasesDir
    <3>2. QED
      BY <1>1, <2>1, <3>1 DEF Covers
  <2>5. QED
    BY <2>2, <2>3, <2>4
<1>3. ASSUME q \in LeaseKeys PROVE FALSE
  BY <1>1, <1>3
  DEF Covers, Keys, ConfigKeys, LeaseKeys, Base, NetworkDir, ConfigKey, LeasesDir, LeaseKey
<1>4. QED
  BY <1>1, <1>2, <1>3

(* The only file right below the directory of a network is its config.     *)
LEMMA FileBelow ==
  ASSUME NEW n \in Networks, NEW q \in ConfigKeys \cup LeaseKeys, Covers(NetworkDir(n), q),
         Len(q) = Len(NetworkDir(n)) + 1
  PROVE  q = ConfigKey(n) /\ q[Len(NetworkDir(n)) + 1] = "config"
  BY DEF Covers, ConfigKeys, LeaseKeys, NetworkDir, ConfigKey, LeaseKey

(* A config lies right below the directory of its network.                 *)
LEMMA ConfigBelow ==
  ASSUME NEW n \in Networks
  PROVE  /\ Len(ConfigKey(n)) = Len(NetworkDir(n)) + 1
         /\ ConfigKey(n)[Len(NetworkDir(n)) + 1] = "config"
         /\ NetworkDir(n) \in Above(ConfigKey(n))
<1>1. Len(ConfigKey(n)) = Len(NetworkDir(n)) + 1 /\ ConfigKey(n)[Len(NetworkDir(n)) + 1] = "config"
  BY DEF ConfigKey, NetworkDir
<1>2. NetworkDir(n) \in Keys
  BY DEF Keys
<1>3. NetworkDir(n) # ConfigKey(n)
  BY DEF ConfigKey, NetworkDir
<1>4. QED
  BY <1>1, <1>2, <1>3, OwnConfig DEF Above

----------------------------------------------------------------------------
(* The tree.                                                               *)

TreeOK ==
  /\ tree \in [Keys -> Configs \cup {NoConfig, Directory, Lease}]
  /\ \A k \in Keys : tree[k] \in Contents(k) \cup {NoConfig}
  /\ WellFormed

(* What is no file is a directory, or is not there.                        *)
LEMMA Directories ==
  ASSUME TreeOK, NEW k \in Keys, k \notin ConfigKeys \cup LeaseKeys
  PROVE  tree[k] \in {Directory, NoConfig}
  BY DEF TreeOK, Contents

(* Writing a file, with the directories above it, keeps the tree in order. *)
LEMMA PutKeepsTree ==
  ASSUME TreeOK, NEW k \in ConfigKeys \cup LeaseKeys, NEW x \in Contents(k), Put(k, x)
  PROVE  TreeOK'
<1>1. k \in Keys
  BY FileKinds
<1>2. x \in Configs \cup {Lease}
  BY DEF Contents
<1>3. tree' \in [Keys -> Configs \cup {NoConfig, Directory, Lease}]
  BY <1>2 DEF Put, TreeOK
<1>4. ASSUME NEW q \in Keys PROVE tree'[q] \in Contents(q) \cup {NoConfig}
  <2>1. q \in Above(k) => Contents(q) = {Directory}
    BY <1>1, FilesAreLeaves DEF Contents
  <2>2. QED
    BY <2>1 DEF Put, TreeOK
<1>5. ASSUME NEW q \in Keys, tree'[q] # NoConfig, NEW p \in Above(q) PROVE tree'[p] = Directory
  <2>1. p \in Keys /\ p # q /\ Covers(p, q) /\ p # k
    BY FilesAreLeaves DEF Above
  <2>2. CASE q = k
    BY <2>1, <2>2 DEF Put
  <2>3. CASE q \in Above(k)
    BY <1>1, <2>1, <2>3, CoversBelow DEF Put, Above
  <2>4. CASE q # k /\ q \notin Above(k)
    BY <2>1, <2>4, <1>5 DEF Put, TreeOK, WellFormed
  <2>5. QED
    BY <2>2, <2>3, <2>4
<1>6. QED
  BY <1>3, <1>4, <1>5 DEF TreeOK, WellFormed, Contents

(* Deleting a key with all below it keeps the tree in order.               *)
LEMMA CutKeepsTree ==
  ASSUME TreeOK, NEW k \in Keys, Cut(k)
  PROVE  TreeOK'
<1>1. tree' \in [Keys -> Configs \cup {NoConfig, Directory, Lease}]
  BY DEF Cut, TreeOK
<1>2. ASSUME NEW q \in Keys PROVE tree'[q] \in Contents(q) \cup {NoConfig}
  BY DEF Cut, TreeOK
<1>3. ASSUME NEW q \in Keys, tree'[q] # NoConfig, NEW p \in Above(q) PROVE tree'[p] = Directory
  <2>1. p \in Keys /\ Covers(p, q) /\ tree[p] = Directory /\ ~Covers(k, q)
    BY <1>3 DEF Cut, Above, TreeOK, WellFormed
  <2>2. ~Covers(k, p)
    BY <2>1, CoversBelow
  <2>3. QED
    BY <2>1, <2>2 DEF Cut
<1>4. QED
  BY <1>1, <1>2, <1>3 DEF TreeOK, WellFormed, Contents

(* A lease that expires leaves its directory behind.                       *)
LEMMA ExpiryKeepsTree ==
  ASSUME TreeOK, NEW n \in Networks, NEW h \in Hosts, ExpireLease(n, h)
  PROVE  TreeOK'
<1>1. LeaseKey(n, h) \in Keys /\ LeaseKey(n, h) \in LeaseKeys
  BY KeyKinds, FileKinds
<1>2. tree' = [tree EXCEPT ![LeaseKey(n, h)] = NoConfig]
  BY DEF ExpireLease
<1>3. ASSUME NEW q \in Keys PROVE tree'[q] = IF q = LeaseKey(n, h) THEN NoConfig ELSE tree[q]
  BY <1>1, <1>2 DEF TreeOK
<1>4. tree' \in [Keys -> Configs \cup {NoConfig, Directory, Lease}]
  BY <1>1, <1>2 DEF TreeOK
<1>5. ASSUME NEW q \in Keys PROVE tree'[q] \in Contents(q) \cup {NoConfig}
  BY <1>3 DEF TreeOK
<1>6. ASSUME NEW q \in Keys, tree'[q] # NoConfig, NEW p \in Above(q) PROVE tree'[p] = Directory
  BY <1>1, <1>3, <1>6, FilesAreLeaves DEF TreeOK, WellFormed
<1>7. QED
  BY <1>4, <1>5, <1>6 DEF TreeOK, WellFormed, Contents

----------------------------------------------------------------------------
(* The operations: each keeps the tree and does to the registers what      *)
(* ConfigRegister says.                                                    *)

Registers == [n \in Networks |-> tree[ConfigKey(n)]]

(* A change of one config key is a change of one register.                 *)
LEMMA SetRegister ==
  ASSUME NEW n \in Networks, NEW c,
         \A m \in Networks : tree'[ConfigKey(m)] = IF m = n THEN c ELSE tree[ConfigKey(m)]
  PROVE  Registers' = [Registers EXCEPT ![n] = c]
  BY DEF Registers

(* The store gives the answers of a register.                              *)
LEMMA ToldWhat ==
  ASSUME NEW s \in {"ok", "notFound"}
  PROVE  Told(s) \in Register!Answers /\ Told(s) = Register!Told(s)
  BY DEF Told, Register!Told, Register!Answers, Register!Statuses

(* Creating a config, over whatever is there already.                      *)
LEMMA CreateConfig ==
  ASSUME TreeOK, NEW r \in Requests, NEW a, r.op = "create", Create(ConfigKey(r.net), r.config, a)
  PROVE  TreeOK' /\ a \in Register!Answers /\ Register!Create(r, a)
<1> DEFINE n == r.net
           k == ConfigKey(n)
<1>1. n \in Networks /\ r.config \in Configs
  BY DEF Requests
<1>2. k \in ConfigKeys /\ k \in Keys /\ Contents(k) = Configs
  BY <1>1, FileKinds DEF ConfigKeys, Contents
<1>3. CASE tree[k] # NoConfig
  <2>1. a = Told("ok") /\ tree' = tree
    BY <1>3 DEF Create
  <2>2. Registers[n] # NoConfig /\ Registers' = [Registers EXCEPT ![n] = Registers[n]]
    BY <1>1, <1>3, <2>1 DEF Registers
  <2>3. Register!Create(r, a)
    BY <2>1, <2>2, ToldWhat DEF Register!Create, Register!SetTo, Register!Holds, Registers
  <2>4. QED
    BY <2>1, <2>3, ToldWhat DEF TreeOK, WellFormed
<1>4. CASE tree[k] = NoConfig
  <2>1. \A q \in Above(k) : ~IsFile(q)
    BY <1>2, FilesAreLeaves, Directories DEF IsFile
  <2>2. a = Told("ok") /\ Put(k, r.config)
    BY <1>4, <2>1 DEF Create
  <2>3. \A m \in Networks : tree'[ConfigKey(m)] = IF m = n THEN r.config ELSE tree[ConfigKey(m)]
    <3>1. ASSUME NEW m \in Networks
          PROVE  ConfigKey(m) \in Keys /\ ConfigKey(m) \notin Above(k) /\ (ConfigKey(m) = k <=> m = n)
      BY <1>2, FilesAreLeaves, FileKinds, OneConfigKey DEF ConfigKeys
    <3>2. QED
      BY <2>2, <3>1 DEF Put
  <2>4. Registers[n] = NoConfig /\ Registers' = [Registers EXCEPT ![n] = r.config]
    BY <1>1, <1>4, <2>3, SetRegister DEF Registers
  <2>5. Register!Create(r, a)
    BY <2>2, <2>4, ToldWhat DEF Register!Create, Register!SetTo, Register!Holds, Registers
  <2>6. QED
    BY <1>1, <1>2, <2>2, <2>5, ToldWhat, PutKeepsTree
<1>5. QED
  BY <1>3, <1>4

(* Deleting the directory of a network, with its config and its leases.    *)
LEMMA DeleteNetwork ==
  ASSUME TreeOK, NEW r \in Requests, NEW a, r.op = "delete", Delete(NetworkDir(r.net), a)
  PROVE  TreeOK' /\ a \in Register!Answers /\ Register!Delete(r, a)
<1> DEFINE n == r.net
           d == NetworkDir(n)
<1>1. n \in Networks
  BY DEF Requests
<1>2. d \in Keys /\ \A m \in Networks : ConfigKey(m) \in Keys
  BY <1>1, FileKinds DEF Keys, ConfigKeys
<1>3. CASE tree[d] # NoConfig
  <2>1. a = Told("ok") /\ Cut(d)
    BY <1>3 DEF Delete
  <2>2. \A m \in Networks : tree'[ConfigKey(m)] = IF m = n THEN NoConfig ELSE tree[ConfigKey(m)]
    BY <1>2, <2>1, OwnConfig DEF Cut
  <2>3. Registers' = [Registers EXCEPT ![n] = NoConfig]
    BY <1>1, <2>2, SetRegister
  <2>4. Register!Delete(r, a)
    BY <2>1, <2>3, ToldWhat DEF Register!Delete, Register!SetTo, Registers
  <2>5. QED
    BY <1>2, <2>1, <2>4, ToldWhat, CutKeepsTree
<1>4. CASE tree[d] = NoConfig
  <2>1. a = Told("notFound") /\ tree' = tree
    BY <1>4 DEF Delete
  <2>2. tree[ConfigKey(n)] = NoConfig
    BY <1>1, <1>2, <1>4, ConfigBelow, StoreAssumption DEF TreeOK, WellFormed
  <2>3. Registers[n] = NoConfig /\ Registers' = [Registers EXCEPT ![n] = NoConfig]
    BY <1>1, <2>1, <2>2 DEF Registers
  <2>4. Register!Delete(r, a)
    BY <2>1, <2>3, ToldWhat DEF Register!Delete, Register!SetTo, Register!Holds, Registers
  <2>5. QED
    BY <2>1, <2>4, ToldWhat DEF TreeOK, WellFormed
<1>5. QED
  BY <1>3, <1>4

(* The requests that only look.                                            *)
LEMMA LookUp ==
  ASSUME TreeOK, NEW r \in Requests, NEW a, r.op \in {"search", "exists", "list"}, Serve(r, a)
  PROVE  TreeOK' /\ a \in Register!Answers /\ Register!Effect(r, a)
<1> DEFINE n == r.net
           k == ConfigKey(n)
           d == NetworkDir(n)
<1>1. n \in Networks
  BY DEF Requests
<1>2. tree[k] \in Configs \cup {NoConfig} /\ k \in Keys /\ d \in Keys
  BY <1>1, FileKinds DEF TreeOK, Contents, ConfigKeys, Keys
<1>3. Registers[n] = tree[k] /\ (IsFile(k) <=> tree[k] # NoConfig)
  BY <1>1, <1>2, StoreAssumption DEF Registers, IsFile
<1>4. CASE r.op = "search"
  <2>1. tree' = tree /\ a = IF tree[k] # NoConfig THEN [Told("ok") EXCEPT !.config = tree[k]]
                            ELSE Told("notFound")
    BY <1>3, <1>4 DEF Serve, Search
  <2>2. a \in Register!Answers
    BY <1>2, <2>1, ToldWhat DEF Told, Register!Answers, Register!Statuses
  <2>3. Register!Search(r, a)
    BY <1>3, <1>4, <2>1, ToldWhat DEF Register!Search, Register!Holds, Registers
  <2>4. QED
    BY <2>1, <2>2, <2>3 DEF Register!Effect, TreeOK, WellFormed
<1>5. CASE r.op = "exists"
  <2>1. tree' = tree /\ a = IF tree[k] # NoConfig THEN Told("ok") ELSE Told("notFound")
    BY <1>5 DEF Serve, Exists
  <2>2. Register!Exists(r, a)
    BY <1>3, <1>5, <2>1, ToldWhat DEF Register!Exists, Register!Holds, Registers
  <2>3. QED
    BY <2>1, <2>2, ToldWhat DEF Register!Effect, TreeOK, WellFormed
<1>6. CASE r.op = "list"
  <2>1. Children(d) = IF tree[k] # NoConfig THEN {"config"} ELSE {}
    <3>1. ASSUME NEW q \in Keys, Covers(d, q), Len(q) = Len(d) + 1, IsFile(q)
          PROVE  q = k /\ q[Len(d) + 1] = "config"
      <4>1. q \in ConfigKeys \cup LeaseKeys
        BY <3>1, Directories DEF IsFile
      <4>2. QED
        BY <1>1, <3>1, <4>1, FileBelow
    <3>2. Covers(d, k) /\ Len(k) = Len(d) + 1 /\ k[Len(d) + 1] = "config"
      BY <1>1, OwnConfig, ConfigBelow
    <3>3. QED
      BY <1>2, <1>3, <3>1, <3>2 DEF Children
  <2>2. tree[k] # NoConfig => tree[d] = Directory
    BY <1>1, <1>2, ConfigBelow DEF TreeOK, WellFormed
  <2>3. tree' = tree /\ a = IF tree[k] # NoConfig THEN [Told("ok") EXCEPT !.names = {"config"}]
                            ELSE Told("notFound")
    BY <1>6, <2>1, <2>2 DEF Serve, List
  <2>4. a \in Register!Answers
    BY <2>3, ToldWhat DEF Told, Register!Answers, Register!Statuses
  <2>5. Register!List(r, a)
    BY <1>3, <1>6, <2>3, ToldWhat DEF Register!List, Register!Holds, Registers
  <2>6. QED
    BY <2>3, <2>4, <2>5 DEF Register!Effect, TreeOK, WellFormed
<1>7. QED
  BY <1>4, <1>5, <1>6

(* Every request does to the tree what it does to the register.            *)
LEMMA Served ==
  ASSUME TreeOK, NEW r \in Requests, NEW a, Serve(r, a)
  PROVE  TreeOK' /\ a \in Register!Answers /\ Register!Effect(r, a)
<1>1. CASE r.op = "create"
  BY <1>1, CreateConfig DEF Serve, Register!Effect
<1>2. CASE r.op = "delete"
  BY <1>2, DeleteNetwork DEF Serve, Register!Effect
<1>3. CASE r.op \in {"search", "exists", "list"}
  BY <1>3, LookUp
<1>4. QED
  BY <1>1, <1>2, <1>3 DEF Serve

----------------------------------------------------------------------------
(* The invariant.                                                          *)

CallsOK ==
  /\ phase \in [Clients -> {"idle", "sent", "answered"}]
  /\ request \in [Clients -> Requests]
  /\ answer \in [Clients -> Answers]
  /\ late \subseteq Requests
  /\ delays \in 0 .. MaxLate

(* The invariant is one of the tree and one of the calls.                  *)
LEMMA InvParts == StoreInv <=> TreeOK /\ CallsOK
  BY DEF StoreInv, StoreTypeOK, TreeOK, CallsOK

(* The invariant holds at first ...                                        *)
LEMMA StoreInvInit == StoreInit => StoreInv
<1> SUFFICES ASSUME StoreInit PROVE StoreInv
  OBVIOUS
<1>1. <<>> \in Keys /\ <<>> \notin ConfigKeys \cup LeaseKeys
  BY DEF Keys, ConfigKeys, LeaseKeys, ConfigKey, LeaseKey
<1>2. Above(<<>>) = {}
  BY DEF Above, Covers, Keys, ConfigKeys, LeaseKeys, Base, NetworkDir, ConfigKey, LeasesDir, LeaseKey
<1>3. TreeOK
  BY <1>1, <1>2 DEF StoreInit, TreeOK, Contents, WellFormed
<1>4. CallsOK
  BY StoreAssumption DEF StoreInit, CallsOK, Told, Answers
<1>5. QED
  BY <1>3, <1>4, InvParts

(* ... every step keeps it ...                                             *)
LEMMA StoreInvStep == StoreInv /\ [StoreNext]_storeVars => StoreInv'
<1> SUFFICES ASSUME StoreInv, [StoreNext]_storeVars PROVE StoreInv'
  OBVIOUS
<1>0. TreeOK /\ CallsOK
  BY InvParts
<1>1. ASSUME UNCHANGED tree PROVE TreeOK'
  BY <1>0, <1>1 DEF TreeOK, WellFormed
<1>2. ASSUME NEW c \in Clients, Ask(c) PROVE TreeOK' /\ CallsOK'
  BY <1>0, <1>1, <1>2 DEF Ask, CallsOK
<1>3. ASSUME NEW c \in Clients, Take(c) PROVE TreeOK' /\ CallsOK'
  <2>1. request[c] \in Requests
    BY <1>0 DEF CallsOK
  <2>2. QED
    BY <1>0, <1>3, <2>1, Served DEF Take, CallsOK
<1>4. ASSUME NEW c \in Clients, Return(c) PROVE TreeOK' /\ CallsOK'
  BY <1>0, <1>1, <1>4 DEF Return, CallsOK
<1>5. ASSUME NEW c \in Clients, GiveUp(c) PROVE TreeOK' /\ CallsOK'
  BY <1>0, <1>1, <1>5, StoreAssumption DEF GiveUp, CallsOK
<1>6. ASSUME NEW r \in late, TakeLate(r) PROVE TreeOK' /\ CallsOK'
  <2>1. r \in Requests
    BY <1>0 DEF CallsOK
  <2>2. QED
    BY <1>0, <1>6, <2>1, Served DEF TakeLate, CallsOK, callVars
<1>7. ASSUME NEW n \in Networks, NEW h \in Hosts, WriteLease(n, h) PROVE TreeOK' /\ CallsOK'
  <2>1. LeaseKey(n, h) \in LeaseKeys /\ Lease \in Contents(LeaseKey(n, h))
    BY KeyKinds, FileKinds DEF Contents
  <2>2. QED
    BY <1>0, <1>7, <2>1, PutKeepsTree DEF WriteLease, CallsOK, callVars
<1>8. ASSUME NEW n \in Networks, NEW h \in Hosts, ExpireLease(n, h) PROVE TreeOK' /\ CallsOK'
  BY <1>0, <1>8, ExpiryKeepsTree DEF ExpireLease, CallsOK, callVars
<1>9. ASSUME UNCHANGED storeVars PROVE TreeOK' /\ CallsOK'
  BY <1>0, <1>1, <1>9 DEF storeVars, callVars, CallsOK
<1>10. QED
  <2>1. ASSUME StoreNext PROVE TreeOK' /\ CallsOK'
    BY <1>2, <1>3, <1>4, <1>5, <1>6, <1>7, <1>8, <2>1 DEF StoreNext
  <2>2. TreeOK' /\ CallsOK'
    BY <1>9, <2>1
  <2>3. TreeOK' /\ CallsOK' => StoreInv'
    BY DEF StoreInv, StoreTypeOK, TreeOK, CallsOK
  <2>4. QED
    BY <2>2, <2>3

(* ... and so it holds throughout.                                         *)
LEMMA StoreInvariant == StoreSpec => []StoreInv
  BY StoreInvInit, StoreInvStep, PTL DEF StoreSpec

(* Config keys hold configs, lease keys leases, and the keys above them    *)
(* are directories; every answer is of its type (etcdv2.go 75-159).        *)
THEOREM StoreTypes == StoreSpec => []StoreTypeOK
  BY StoreInvariant, PTL DEF StoreInv

----------------------------------------------------------------------------
(* Refinement: writes and expiry of leases are stutters of the register,   *)
(* every other step of the store is the step of its name.                  *)

(* An empty tree is one of empty registers.                                *)
LEMMA RefineInit == StoreInit => Register!Init
<1> SUFFICES ASSUME StoreInit PROVE Register!Init
  OBVIOUS
<1>1. \A n \in Networks : ConfigKey(n) \in Keys /\ ConfigKey(n) # <<>>
  BY FileKinds DEF ConfigKeys, ConfigKey
<1>2. Registers = [n \in Networks |-> NoConfig]
  BY <1>1 DEF StoreInit, Registers
<1>3. QED
  BY <1>2, ToldWhat DEF StoreInit, Registers, Register!Init, Requests, Register!Requests,
     Operations, Register!Operations

(* Every step of the store is one of the registers, or none.               *)
LEMMA RefineStep == StoreInv /\ [StoreNext]_storeVars => [Register!Next]_Register!vars
<1> SUFFICES ASSUME TreeOK, CallsOK, [StoreNext]_storeVars PROVE [Register!Next]_Register!vars
  BY InvParts
<1>1. ASSUME UNCHANGED tree PROVE UNCHANGED Registers
  BY <1>1 DEF Registers
<1>2. ASSUME NEW c \in Clients, Ask(c) PROVE Register!Ask(c)
  BY <1>1, <1>2 DEF Ask, Register!Ask, Registers, Requests, Register!Requests, Operations,
     Register!Operations
<1>3. ASSUME NEW c \in Clients, Take(c) PROVE Register!Take(c)
  <2>1. request[c] \in Requests
    BY DEF CallsOK
  <2>2. PICK a \in Answers : Serve(request[c], a) /\ answer' = [answer EXCEPT ![c] = a]
    BY <1>3 DEF Take
  <2>3. a \in Register!Answers /\ Register!Effect(request[c], a)
    BY <2>1, <2>2, Served
  <2>4. QED
    BY <1>3, <2>2, <2>3 DEF Take, Register!Take
<1>4. ASSUME NEW c \in Clients, Return(c) PROVE Register!Return(c)
  BY <1>1, <1>4 DEF Return, Register!Return, Registers
<1>5. ASSUME NEW c \in Clients, GiveUp(c) PROVE Register!GiveUp(c)
  BY <1>1, <1>5 DEF GiveUp, Register!GiveUp, Registers
<1>6. ASSUME NEW r \in late, TakeLate(r) PROVE Register!TakeLate(r)
  <2>1. r \in Requests
    BY DEF CallsOK
  <2>2. PICK a \in Answers : Serve(r, a)
    BY <1>6 DEF TakeLate
  <2>3. a \in Register!Answers /\ Register!Effect(r, a)
    BY <2>1, <2>2, Served
  <2>4. QED
    BY <1>6, <2>3 DEF TakeLate, Register!TakeLate, callVars
<1>7. ASSUME NEW n \in Networks, NEW h \in Hosts, WriteLease(n, h) PROVE UNCHANGED Registers
  <2>1. LeaseKey(n, h) \in LeaseKeys
    BY KeyKinds
  <2>2. ASSUME NEW m \in Networks PROVE tree'[ConfigKey(m)] = tree[ConfigKey(m)]
    <3>1. ConfigKey(m) \in Keys /\ ConfigKey(m) # LeaseKey(n, h) /\ ConfigKey(m) \notin Above(LeaseKey(n, h))
      BY <2>1, FileKinds, FilesAreLeaves DEF ConfigKeys
    <3>2. QED
      BY <1>7, <3>1 DEF WriteLease, Put
  <2>3. QED
    BY <2>2 DEF Registers
<1>8. ASSUME NEW n \in Networks, NEW h \in Hosts, ExpireLease(n, h) PROVE UNCHANGED Registers
  <2>1. ASSUME NEW m \in Networks PROVE tree'[ConfigKey(m)] = tree[ConfigKey(m)]
    <3>1. ConfigKey(m) \in Keys /\ ConfigKey(m) # LeaseKey(n, h)
      BY KeyKinds, FileKinds DEF ConfigKeys
    <3>2. QED
      BY <1>8, <3>1 DEF ExpireLease, TreeOK
  <2>2. QED
    BY <2>1 DEF Registers
<1>9. QED
  BY <1>1, <1>2, <1>3, <1>4, <1>5, <1>6, <1>7, <1>8
  DEF StoreNext, storeVars, callVars, WriteLease, ExpireLease, Registers, Register!Next, Register!vars

(* The store is a register per network: a call that was answered took      *)
(* effect once, in between; leases never stand in its way; a late request  *)
(* takes effect once, at some later moment (etcdv2.go 75-163).             *)
THEOREM StoreIsRegister == StoreSpec => ImplementsRegister
<1>1. StoreInit => Register!Init
  BY RefineInit
<1>2. StoreInv /\ [StoreNext]_storeVars => [Register!Next]_Register!vars
  BY RefineStep
<1>3. QED
  BY <1>1, <1>2, StoreInvariant, PTL DEF StoreSpec, ImplementsRegister, Register!Spec
=============================================================================
