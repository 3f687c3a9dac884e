------------------------- MODULE SharedObjectsProofs -------------------------
(***************************************************************************)
(* Proofs about SharedObjects, for any ids and any VNIs: which names of    *)
(* different objects coincide, and that clusters notice one another at     *)
(* these names only.                                                       *)
(***************************************************************************)
EXTENDS SharedObjects, SequenceTheorems, TLAPS

----------------------------------------------------------------------------
(* Names.                                                                  *)

Literals == {"flannel", "network", "destroyer", "psp", "deletion", "br", "tap"}
Parts    == STRING \cup Literals
Words    == Seq(Parts)

(* Names of one part and of two.                                           *)
LEMMA ShortNames ==
  ASSUME NEW S, NEW v \in S, NEW w \in S
  PROVE  <<v>> \in Seq(S) /\ Len(<<v>>) = 1 /\ <<v, w>> \in Seq(S) /\ Len(<<v, w>>) = 2
  OBVIOUS

(* The parts that the code joins to an id.                                 *)
LEMMA Affixes ==
  /\ <<"flannel", "network">> \in Words /\ <<"flannel", "destroyer">> \in Words
  /\ <<"psp">> \in Words /\ <<"deletion">> \in Words /\ <<"deletion", "psp">> \in Words
  /\ <<"br">> \in Words /\ <<"tap">> \in Words
<1>1. Literals \subseteq Parts
  BY DEF Parts
<1>2. QED
  BY <1>1, ShortNames DEF Words, Literals

(* A name begins with its prefix.                                          *)
LEMMA Begins ==
  ASSUME NEW p \in Words, NEW i \in Words, NEW n \in 1 .. Len(p)
  PROVE  (p \o i)[n] = p[n]
<1>1. Len(p) \in Nat /\ Len(i) \in Nat
  BY LenProperties DEF Words
<1>2. n \in 1 .. Len(p) + Len(i) /\ n <= Len(p)
  BY <1>1
<1>3. QED
  BY <1>2, ConcatProperties DEF Words

(* A name ends with its last part.                                         *)
LEMMA Ends ==
  ASSUME NEW s \in Words, NEW w \in Parts
  PROVE  /\ s \o <<w>> \in Words
         /\ Len(s \o <<w>>) = Len(s) + 1
         /\ (s \o <<w>>)[Len(s) + 1] = w
<1>1. <<w>> \in Seq(Parts) /\ Len(<<w>>) = 1 /\ Len(s) \in Nat
  BY ShortNames, LenProperties DEF Words
<1>2. QED
  BY <1>1, ConcatProperties DEF Words

(* Names that end differently are different.                               *)
LEMMA EndsDiffer ==
  ASSUME NEW s \in Words, NEW t \in Words, NEW v \in Parts, NEW w \in Parts, s \o <<v>> = t \o <<w>>
  PROVE  v = w
<1>1. Len(s) \in Nat /\ Len(t) \in Nat
  BY LenProperties DEF Words
<1>2. Len(s) + 1 = Len(t) + 1
  BY Ends
<1>3. QED
  BY <1>1, <1>2, Ends

(* Joining names, apart from what sequences are.                           *)
Join(s, t) == s \o t

(* Joining forgets nothing, and may be done in any order.                  *)
LEMMA Cancel ==
  /\ \A s, t \in Words : Join(s, t) \in Words
  /\ \A s, t, v \in Words : Join(s, t) = Join(s, v) => t = v
  /\ \A s, t, v \in Words : Join(t, s) = Join(v, s) => t = v
  /\ \A s, t, v \in Words : Join(Join(s, t), v) = Join(s, Join(t, v))
<1>1. \A s, t \in Words : Join(s, t) \in Words
  BY ConcatProperties DEF Words, Join
<1>2. \A s, t, v \in Words : Join(s, t) = Join(s, v) => t = v
  BY ConcatSimplifications DEF Words, Join
<1>3. \A s, t, v \in Words : Join(t, s) = Join(v, s) => t = v
  BY ConcatSimplifications DEF Words, Join
<1>4. \A s, t, v \in Words : Join(Join(s, t), v) = Join(s, Join(t, v))
  BY ConcatAssociative DEF Words, Join
<1>5. QED
  BY <1>1, <1>2, <1>3, <1>4

(* What two names with common parts tell of the ids in them.               *)
LEMMA Joins ==
  ASSUME NEW f \in Words, NEW p \in Words, NEW d \in Words, NEW i \in Words, NEW j \in Words
  PROVE  /\ Join(f, i) = Join(f, j) <=> i = j
         /\ Join(i, d) = Join(j, d) <=> i = j
         /\ Join(Join(f, i), p) = Join(Join(f, j), p) <=> i = j
         /\ Join(f, i) = Join(Join(f, j), p) <=> i = Join(j, p)
         /\ Join(Join(f, i), p) = Join(Join(f, j), Join(d, p)) <=> i = Join(j, d)
<1>1. Join(f, i) \in Words /\ Join(f, j) \in Words /\ Join(j, p) \in Words /\ Join(j, d) \in Words
  BY Cancel
<1>2. Join(Join(f, j), p) = Join(f, Join(j, p))
  BY Cancel
<1>3. Join(Join(f, j), Join(d, p)) = Join(Join(f, Join(j, d)), p)
  BY <1>1, Cancel
<1>4. Join(f, Join(j, d)) \in Words
  BY <1>1, Cancel
<1>5. \A t, u \in Words : /\ Join(f, t) = Join(f, u) => t = u
                          /\ Join(t, p) = Join(u, p) => t = u
                          /\ Join(t, d) = Join(u, d) => t = u
  <2>1. \A t, u \in Words : Join(f, t) = Join(f, u) => t = u
    BY Cancel
  <2>2. \A s, t, u \in Words : Join(t, s) = Join(u, s) => t = u
    BY Cancel
  <2>3. QED
    BY <2>1, <2>2
<1>6. (Join(f, i) = Join(f, j) => i = j) /\ (Join(i, d) = Join(j, d) => i = j)
  BY <1>5
<1>7. Join(Join(f, i), p) = Join(Join(f, j), p) => i = j
  BY <1>1, <1>5
<1>8. Join(f, i) = Join(Join(f, j), p) => i = Join(j, p)
  BY <1>1, <1>2, <1>5
<1>9. Join(Join(f, i), p) = Join(Join(f, j), Join(d, p)) => i = Join(j, d)
  BY <1>1, <1>3, <1>4, <1>5
<1>10. QED
  BY <1>2, <1>3, <1>6, <1>7, <1>8, <1>9

(* The longest suffix is two of the others.                                *)
LEMMA LongSuffix == <<"deletion">> \o <<"psp">> = <<"deletion", "psp">>
<1>1. "psp" \in Parts /\ Len(<<"deletion">>) = 1 /\ Len(<<"deletion", "psp">>) = 2
  BY DEF Parts, Literals
<1>2. <<"deletion">> \o <<"psp">> \in Words /\ Len(<<"deletion">> \o <<"psp">>) = 2
  BY <1>1, Affixes, Ends
<1>3. (<<"deletion">> \o <<"psp">>)[1] = "deletion" /\ (<<"deletion">> \o <<"psp">>)[2] = "psp"
  BY <1>1, Affixes, Begins, Ends
<1>4. \A n \in 1 .. 2 : (<<"deletion">> \o <<"psp">>)[n] = <<"deletion", "psp">>[n]
  BY <1>3
<1>5. QED
  BY <1>1, <1>2, <1>4, Affixes, SeqEqual DEF Words

(* How ids can be parts of each other.                                     *)
WithPsp(i, j)         == i = j \o <<"psp">>
WithDeletion(i, j)    == i = j \o <<"deletion">>
WithDeletionPsp(i, j) == i = j \o <<"deletion", "psp">>
Overlapping(i, j)     == networkApp \o i = j \o <<"deletion">>

(* Where the four bindings of clusters i and j have one name.              *)
LEMMA BindingNames ==
  ASSUME NEW i \in Words, NEW j \in Words
  PROVE  LET n(id) == clusterRoleBinding(id)
             p(id) == clusterRoleBindingForPodSecurityPolicy(id)
             d(id) == clusterRoleBindingForDeletion(id)
             q(id) == clusterRoleBindingForPodSecurityPolicyForDeletion(id)
         IN  /\ (n(i) = n(j) <=> i = j) /\ (p(i) = p(j) <=> i = j)
             /\ (d(i) = d(j) <=> i = j) /\ (q(i) = q(j) <=> i = j)
             /\ n(i) = p(j) <=> WithPsp(i, j)
             /\ n(i) = q(j) <=> WithDeletionPsp(i, j)
             /\ p(i) = q(j) <=> WithDeletion(i, j)
             /\ n(i) = d(j) <=> Overlapping(i, j)
             /\ p(i) # d(j) /\ q(i) # d(j)
<1> DEFINE F == networkApp
           P == <<"psp">>
           D == <<"deletion">>
           Q == <<"deletion", "psp">>
<1>1. F \in Words /\ P \in Words /\ D \in Words /\ Q \in Words /\ Join(D, P) = Q
  BY Affixes, LongSuffix DEF networkApp, Join
<1>2. \A id : /\ clusterRoleBinding(id) = Join(F, id)
              /\ clusterRoleBindingForPodSecurityPolicy(id) = Join(Join(F, id), P)
              /\ clusterRoleBindingForDeletion(id) = Join(id, D)
              /\ clusterRoleBindingForPodSecurityPolicyForDeletion(id) = Join(Join(F, id), Q)
  BY DEF clusterRoleBinding, clusterRoleBindingForPodSecurityPolicy, clusterRoleBindingForDeletion,
         clusterRoleBindingForPodSecurityPolicyForDeletion, Join
<1>3. \A s \in Words : Join(s, P) # Join(j, D)
  <2>1. "psp" \in Parts /\ "deletion" \in Parts
    BY DEF Parts, Literals
  <2>2. QED
    BY <2>1, EndsDiffer DEF Join
<1>4. Overlapping(i, j) <=> Join(F, i) = Join(j, D)
  BY DEF Join, Overlapping
<1>5. /\ WithPsp(i, j) <=> i = Join(j, P)
      /\ WithDeletion(i, j) <=> i = Join(j, D)
      /\ WithDeletionPsp(i, j) <=> i = Join(j, Q)
  BY DEF Join, WithPsp, WithDeletion, WithDeletionPsp
<1> HIDE DEF F, P, D, Q
<1>6. /\ Join(F, i) = Join(F, j) <=> i = j
      /\ Join(Join(F, i), P) = Join(Join(F, j), P) <=> i = j
      /\ Join(i, D) = Join(j, D) <=> i = j
      /\ Join(Join(F, i), Q) = Join(Join(F, j), Q) <=> i = j
      /\ Join(F, i) = Join(Join(F, j), P) <=> i = Join(j, P)
      /\ Join(F, i) = Join(Join(F, j), Q) <=> i = Join(j, Q)
      /\ Join(Join(F, i), P) = Join(Join(F, j), Q) <=> i = Join(j, D)
  BY <1>1, Joins
<1>7. Join(Join(F, i), P) # Join(j, D) /\ Join(Join(F, i), Q) # Join(j, D)
  <2>1. Join(F, i) \in Words /\ Join(Join(F, i), D) \in Words
    BY <1>1, Cancel
  <2>2. Join(Join(F, i), Q) = Join(Join(Join(F, i), D), P)
    BY <1>1, <2>1, Cancel
  <2>3. QED
    BY <1>3, <2>1, <2>2
<1>8. QED
  BY <1>2, <1>4, <1>5, <1>6, <1>7

(* The other names tell the cluster and the kind.                          *)
LEMMA OtherNames ==
  ASSUME NEW i \in Words, NEW j \in Words, NEW v, NEW w
  PROVE  /\ NetworkNamespace(i) = NetworkNamespace(j) <=> i = j
         /\ destroyerNamespace(i) = destroyerNamespace(j) <=> i = j
         /\ NetworkNamespace(i) # destroyerNamespace(j)
         /\ NetworkBridgeName(i) = NetworkBridgeName(j) <=> i = j
         /\ NetworkTapName(i) = NetworkTapName(j) <=> i = j
         /\ NetworkFlannelDevice(v) = NetworkFlannelDevice(w) <=> v = w
         /\ NetworkBridgeName(i) # NetworkTapName(j)
         /\ NetworkBridgeName(i) # NetworkFlannelDevice(v)
         /\ NetworkTapName(i) # NetworkFlannelDevice(v)
<1>1. \A id : /\ NetworkNamespace(id) = Join(<<"flannel", "network">>, id)
              /\ destroyerNamespace(id) = Join(<<"flannel", "destroyer">>, id)
              /\ NetworkBridgeName(id) = Join(<<"br">>, id)
              /\ NetworkTapName(id) = Join(<<"tap">>, id)
  BY DEF NetworkNamespace, destroyerNamespace, NetworkID, destroyerApp, NetworkBridgeName, NetworkTapName, Join
<1>2. \A f \in Words : Join(f, i) = Join(f, j) <=> i = j
  BY Joins
<1>3. /\ NetworkNamespace(i) = NetworkNamespace(j) <=> i = j
      /\ destroyerNamespace(i) = destroyerNamespace(j) <=> i = j
      /\ NetworkBridgeName(i) = NetworkBridgeName(j) <=> i = j
      /\ NetworkTapName(i) = NetworkTapName(j) <=> i = j
  BY <1>1, <1>2, Affixes, Zenon
<1>4. NetworkNamespace(i)[2] = "network" /\ destroyerNamespace(j)[2] = "destroyer"
  BY Affixes, Begins DEF NetworkNamespace, destroyerNamespace, NetworkID, destroyerApp
<1>5. NetworkBridgeName(i)[1] = "br" /\ NetworkTapName(j)[1] = "tap" /\ NetworkTapName(i)[1] = "tap"
  BY Affixes, Begins DEF NetworkBridgeName, NetworkTapName
<1>6. NetworkFlannelDevice(v)[1] = "flannel." /\ (NetworkFlannelDevice(v) = NetworkFlannelDevice(w) <=> v = w)
  BY DEF NetworkFlannelDevice
<1>7. QED
  BY <1>3, <1>4, <1>5, <1>6

----------------------------------------------------------------------------
(* Kinds.                                                                  *)

(* What the kinds are called.                                              *)
LEMMA Calling ==
  ASSUME NEW id, NEW vni
  PROVE  /\ NameOf("networkNamespace", id, vni) = NetworkNamespace(id)
         /\ NameOf("destroyerNamespace", id, vni) = destroyerNamespace(id)
         /\ NameOf("network", id, vni) = clusterRoleBinding(id)
         /\ NameOf("networkPsp", id, vni) = clusterRoleBindingForPodSecurityPolicy(id)
         /\ NameOf("deletion", id, vni) = clusterRoleBindingForDeletion(id)
         /\ NameOf("deletionPsp", id, vni) = clusterRoleBindingForPodSecurityPolicyForDeletion(id)
         /\ NameOf("bridge", id, vni) = NetworkBridgeName(id)
         /\ NameOf("envFile", id, vni) = NetworkEnvFilePath(id)
         /\ NameOf("tap", id, vni) = NetworkTapName(id)
         /\ NameOf("device", id, vni) = NetworkFlannelDevice(vni)
         /\ NameOf("healthPort", id, vni) = livenessProbePort(vni)
  BY SMT DEF NameOf

(* What share their names.                                                 *)
LEMMA Sorts ==
  /\ \A k \in {"networkNamespace", "destroyerNamespace"} : Sort(k) = "namespace"
  /\ \A k \in {"network", "networkPsp", "deletion", "deletionPsp"} : Sort(k) = "binding"
  /\ \A k \in {"networkAccount", "destroyerAccount"} : Sort(k) = "account"
  /\ \A k \in {"bridge", "tap", "device"} : Sort(k) = "link"
  /\ \A k \in {"envFile", "healthPort", "daemonSet", "job"} : Sort(k) = k
  BY SMT DEF Sort

(* All that exists for a cluster.                                          *)
LEMMA AllKinds ==
  Kinds = {"networkNamespace", "networkAccount", "daemonSet", "destroyerNamespace", "destroyerAccount",
           "job", "network", "networkPsp", "deletion", "deletionPsp", "bridge", "tap", "device",
           "envFile", "healthPort"}
  BY DEF Kinds, Inside

(* What lies in a namespace of the cluster, and in which.                  *)
LEMMA Within ==
  /\ Inside["networkAccount"] = "networkNamespace" /\ Inside["daemonSet"] = "networkNamespace"
  /\ Inside["destroyerAccount"] = "destroyerNamespace" /\ Inside["job"] = "destroyerNamespace"
  /\ \A k \in Kinds \ {"networkAccount", "daemonSet", "destroyerAccount", "job"} : Inside[k] = "host"
  BY AllKinds DEF Inside

(* The kinds that lie in the host cluster itself.                          *)
Top == {"networkNamespace", "destroyerNamespace", "network", "networkPsp", "deletion", "deletionPsp",
        "bridge", "tap", "device", "envFile", "healthPort"}

(* Everything else lies in the host cluster, and so do the namespaces.     *)
LEMMA Tops ==
  /\ Top \subseteq Kinds
  /\ \A k \in Kinds : Inside[k] = "host" <=> k \in Top
  /\ \A k \in Kinds \ Top : Inside[k] \in {"networkNamespace", "destroyerNamespace"}
  BY AllKinds, Within DEF Top

----------------------------------------------------------------------------
(* Paths.                                                                  *)

Named(k, id) == <<Sort(k), NameOf(k, id, Vni[id])>>

(* Where an object is found.                                               *)
LEMMA Paths ==
  ASSUME NEW id \in Ids, NEW k \in Kinds
  PROVE  PathOf[<<k, id>>]
           = IF Inside[k] = "host" THEN <<Named(k, id)>> ELSE <<Named(Inside[k], id), Named(k, id)>>
  BY DEF PathOf, Path, Named, Objects

(* Cleaning up finds every object where it was created, although it has    *)
(* functions of its own for some names (legacy/keys.go, flanneld/desired.go*)
(* and key.go).                                                            *)
LEMMA Targets == Target = PathOf
<1>1. ASSUME NEW k, NEW id, NEW vni PROVE DeletedName(k, id, vni) = NameOf(k, id, vni)
  <2>1. /\ DeletedName("bridge", id, vni) = NameOf("bridge", id, vni)
        /\ DeletedName("envFile", id, vni) = NameOf("envFile", id, vni)
        /\ DeletedName("device", id, vni) = NameOf("device", id, vni)
    BY Calling DEF DeletedName, networkBridgeName, networkEnvFilePath, networkFlannelDevice,
                   NetworkBridgeName, NetworkEnvFilePath, NetworkFlannelDevice
  <2>2. k \notin {"bridge", "envFile", "device"} => DeletedName(k, id, vni) = NameOf(k, id, vni)
    BY DEF DeletedName
  <2>3. QED
    BY <2>1, <2>2
<1>2. QED
  BY <1>1, Zenon DEF Target, PathOf

(* Ids are names.                                                          *)
LEMMA IdsAreWords == ASSUME NEW id \in Ids PROVE id \in Words /\ Vni[id] \in Int
<1>1. id \in Seq(STRING) /\ Vni[id] \in Int
  BY SharedAssumption
<1>2. STRING \subseteq Parts
  BY DEF Parts
<1>3. QED
  BY <1>1, <1>2, SeqMonotonic DEF Words

(* What meeting says of each kind.                                         *)
LEMMA MeetsMeans ==
  ASSUME NEW i, NEW j, NEW k, NEW l
  PROVE  Meets(k, i, l, j) <=>
           \/ k = "network"    /\ l = "networkPsp"  /\ WithPsp(i, j)
           \/ k = "network"    /\ l = "deletionPsp" /\ WithDeletionPsp(i, j)
           \/ k = "networkPsp" /\ l = "deletionPsp" /\ WithDeletion(i, j)
           \/ k = "network"    /\ l = "deletion"    /\ Overlapping(i, j)
           \/ k = "device"     /\ l = "device"      /\ Vni[i] = Vni[j]
           \/ k = "healthPort" /\ l = "healthPort"  /\ livenessProbePort(Vni[i]) = livenessProbePort(Vni[j])
  BY Zenon DEF Meets, WithPsp, WithDeletion, WithDeletionPsp, Overlapping

(* Among the objects of the host cluster of one sort.                      *)
LEMMA TopNames ==
  ASSUME NEW i \in Ids, NEW j \in Ids, NEW k \in Top, NEW l \in Top, <<k, i>> # <<l, j>>, Sort(k) = Sort(l)
  PROVE  NameOf(k, i, Vni[i]) = NameOf(l, j, Vni[j]) <=> Meets(k, i, l, j) \/ Meets(l, j, k, i)
<1> USE IdsAreWords
<1>1. CASE k \in {"networkNamespace", "destroyerNamespace"}
  <2>1. l \in {"networkNamespace", "destroyerNamespace"}
    BY <1>1, Sorts DEF Top
  <2>2. /\ NetworkNamespace(i) # destroyerNamespace(j) /\ NetworkNamespace(j) # destroyerNamespace(i)
        /\ NetworkNamespace(i) = NetworkNamespace(j) <=> i = j
        /\ destroyerNamespace(i) = destroyerNamespace(j) <=> i = j
    BY OtherNames
  <2>3. NameOf(k, i, Vni[i]) # NameOf(l, j, Vni[j])
    BY <1>1, <2>1, <2>2, Calling
  <2>4. QED
    BY <1>1, <2>1, <2>3, MeetsMeans
<1>2. CASE k \in {"network", "networkPsp", "deletion", "deletionPsp"}
  <2>1. l \in {"network", "networkPsp", "deletion", "deletionPsp"}
    BY <1>2, Sorts DEF Top
  <2> DEFINE N(m, id) == NameOf(m, id, Vni[id])
  <2>2. \A s \in Ids, t \in Ids :
          /\ N("network", s) = N("network", t) <=> s = t
          /\ N("networkPsp", s) = N("networkPsp", t) <=> s = t
          /\ N("deletion", s) = N("deletion", t) <=> s = t
          /\ N("deletionPsp", s) = N("deletionPsp", t) <=> s = t
          /\ N("network", s) = N("networkPsp", t) <=> WithPsp(s, t)
          /\ N("network", s) = N("deletionPsp", t) <=> WithDeletionPsp(s, t)
          /\ N("networkPsp", s) = N("deletionPsp", t) <=> WithDeletion(s, t)
          /\ N("network", s) = N("deletion", t) <=> Overlapping(s, t)
          /\ N("networkPsp", s) # N("deletion", t) /\ N("deletionPsp", s) # N("deletion", t)
    <3> SUFFICES ASSUME NEW s \in Ids, NEW t \in Ids
                 PROVE  /\ N("network", s) = N("network", t) <=> s = t
                        /\ N("networkPsp", s) = N("networkPsp", t) <=> s = t
                        /\ N("deletion", s) = N("deletion", t) <=> s = t
                        /\ N("deletionPsp", s) = N("deletionPsp", t) <=> s = t
                        /\ N("network", s) = N("networkPsp", t) <=> WithPsp(s, t)
                        /\ N("network", s) = N("deletionPsp", t) <=> WithDeletionPsp(s, t)
                        /\ N("networkPsp", s) = N("deletionPsp", t) <=> WithDeletion(s, t)
                        /\ N("network", s) = N("deletion", t) <=> Overlapping(s, t)
                        /\ N("networkPsp", s) # N("deletion", t) /\ N("deletionPsp", s) # N("deletion", t)
      OBVIOUS
    <3>1. s \in Words /\ t \in Words
      BY IdsAreWords
    <3>2. QED
      BY <3>1, BindingNames, Calling
  <2> HIDE DEF N
  <2>3. ASSUME k = l PROVE N(k, i) # N(l, j) /\ ~Meets(k, i, l, j) /\ ~Meets(l, j, k, i)
    <3>1. i # j
      BY <2>3
    <3>2. QED
      BY <1>2, <2>2, <2>3, <3>1, MeetsMeans
  <2>4. ASSUME k # l PROVE N(k, i) = N(l, j) <=> Meets(k, i, l, j) \/ Meets(l, j, k, i)
    <3>1. CASE k = "network"
      BY <2>1, <2>2, <2>4, <3>1, MeetsMeans
    <3>2. CASE k = "networkPsp"
      BY <2>1, <2>2, <2>4, <3>2, MeetsMeans
    <3>3. CASE k = "deletion"
      BY <2>1, <2>2, <2>4, <3>3, MeetsMeans
    <3>4. CASE k = "deletionPsp"
      BY <2>1, <2>2, <2>4, <3>4, MeetsMeans
    <3>5. QED
      BY <1>2, <3>1, <3>2, <3>3, <3>4
  <2>5. QED
    BY <2>3, <2>4 DEF N
<1>3. CASE k \in {"bridge", "tap", "device"}
  <2>1. l \in {"bridge", "tap", "device"}
    BY <1>3, Sorts DEF Top
  <2>2. /\ NetworkBridgeName(i) # NetworkTapName(j) /\ NetworkBridgeName(j) # NetworkTapName(i)
        /\ NetworkBridgeName(i) # NetworkFlannelDevice(Vni[j]) /\ NetworkBridgeName(j) # NetworkFlannelDevice(Vni[i])
        /\ NetworkTapName(i) # NetworkFlannelDevice(Vni[j]) /\ NetworkTapName(j) # NetworkFlannelDevice(Vni[i])
        /\ NetworkBridgeName(i) = NetworkBridgeName(j) <=> i = j
        /\ NetworkTapName(i) = NetworkTapName(j) <=> i = j
        /\ NetworkFlannelDevice(Vni[i]) = NetworkFlannelDevice(Vni[j]) <=> Vni[i] = Vni[j]
    BY OtherNames
  <2>3. CASE k = "device" /\ l = "device"
    BY <2>2, <2>3, Calling, MeetsMeans
  <2>4. CASE ~(k = "device" /\ l = "device")
    <3>1. NameOf(k, i, Vni[i]) # NameOf(l, j, Vni[j])
      BY <1>3, <2>1, <2>2, <2>4, Calling
    <3>2. QED
      BY <1>3, <2>1, <2>4, <3>1, MeetsMeans
  <2>5. QED
    BY <2>3, <2>4
<1>4. CASE k = "envFile"
  <2>1. l = "envFile"
    BY <1>4, Sorts DEF Top
  <2>2. NetworkBridgeName(i) = NetworkBridgeName(j) <=> i = j
    BY OtherNames
  <2>3. QED
    BY <1>4, <2>1, <2>2, Calling, MeetsMeans DEF NetworkEnvFilePath
<1>5. CASE k = "healthPort"
  <2>1. l = "healthPort"
    BY <1>5, Sorts DEF Top
  <2>2. QED
    BY <1>5, <2>1, Calling, MeetsMeans
<1>6. QED
  BY <1>1, <1>2, <1>3, <1>4, <1>5 DEF Top

(* Namespaces of different clusters, or of one cluster, never meet.        *)
LEMMA NamespacesApart ==
  ASSUME NEW i \in Ids, NEW j \in Ids, NEW k \in {"networkNamespace", "destroyerNamespace"}, NEW l \in Top,
         Named(k, i) = Named(l, j)
  PROVE  k = l /\ i = j
<1>1. Sort(k) = Sort(l) /\ NameOf(k, i, Vni[i]) = NameOf(l, j, Vni[j])
  BY DEF Named
<1>2. ~Meets(k, i, l, j) /\ ~Meets(l, j, k, i) /\ k \in Top
  BY MeetsMeans DEF Top
<1>3. QED
  BY <1>1, <1>2, TopNames

(* Two objects are taken for one just where SharedObjects says so: a       *)
(* binding of the cluster "a-psp" and one of the cluster "a", the devices  *)
(* and ports of networks with one VNI, and nothing else (keys.go of the    *)
(* legacy resource, v3/key, desired.go of the flanneld resource).          *)
THEOREM NamesMeet ==
  \A k \in Kinds, l \in Kinds, i \in Ids, j \in Ids :
    <<k, i>> # <<l, j>> =>
      (PathOf[<<k, i>>] = PathOf[<<l, j>>] <=> Meets(k, i, l, j) \/ Meets(l, j, k, i))
<1> SUFFICES ASSUME NEW k \in Kinds, NEW l \in Kinds, NEW i \in Ids, NEW j \in Ids, <<k, i>> # <<l, j>>
             PROVE  PathOf[<<k, i>>] = PathOf[<<l, j>>] <=> Meets(k, i, l, j) \/ Meets(l, j, k, i)
  OBVIOUS
<1>1. k \notin Top \/ l \notin Top => ~Meets(k, i, l, j) /\ ~Meets(l, j, k, i)
  BY MeetsMeans DEF Top
<1>2. CASE k \in Top /\ l \in Top
  <2>1. PathOf[<<k, i>>] = <<Named(k, i)>> /\ PathOf[<<l, j>>] = <<Named(l, j)>>
    BY <1>2, Tops, Paths
  <2>2. Sort(k) # Sort(l) => ~Meets(k, i, l, j) /\ ~Meets(l, j, k, i)
    BY Sorts, MeetsMeans
  <2>3. Named(k, i) = Named(l, j) <=> Sort(k) = Sort(l) /\ NameOf(k, i, Vni[i]) = NameOf(l, j, Vni[j])
    BY DEF Named
  <2>4. QED
    BY <1>2, <2>1, <2>2, <2>3, TopNames
<1>3. CASE (k \in Top /\ l \notin Top) \/ (k \notin Top /\ l \in Top)
  <2>1. \A m \in Kinds, id \in Ids : Len(PathOf[<<m, id>>]) = IF m \in Top THEN 1 ELSE 2
    <3>1. ASSUME NEW m \in Kinds, NEW id \in Ids PROVE Len(PathOf[<<m, id>>]) = IF m \in Top THEN 1 ELSE 2
      <4> DEFINE own == Named(m, id)
                 outer == Named(Inside[m], id)
      <4>1. PathOf[<<m, id>>] = IF m \in Top THEN <<own>> ELSE <<outer, own>>
        BY Tops, Paths
      <4> HIDE DEF own, outer
      <4>2. Len(<<own>>) = 1 /\ Len(<<outer, own>>) = 2
        OBVIOUS
      <4>3. QED
        BY <4>1, <4>2
    <3>2. QED
      BY <3>1
  <2>2. QED
    BY <1>1, <1>3, <2>1
<1>4. CASE k \notin Top /\ l \notin Top
  <2>1. /\ PathOf[<<k, i>>] = <<Named(Inside[k], i), Named(k, i)>>
        /\ PathOf[<<l, j>>] = <<Named(Inside[l], j), Named(l, j)>>
    BY <1>4, Tops, Paths
  <2>2. ASSUME PathOf[<<k, i>>] = PathOf[<<l, j>>] PROVE FALSE
    <3>1. Named(Inside[k], i) = Named(Inside[l], j) /\ Sort(k) = Sort(l)
      BY <2>1, <2>2 DEF Named
    <3>2. Inside[k] \in {"networkNamespace", "destroyerNamespace"} /\ Inside[l] \in Top
      BY <1>4, Tops DEF Top
    <3>3. Inside[k] = Inside[l] /\ i = j
      BY <3>1, <3>2, NamespacesApart
    <3>4. k = l
      BY <1>4, <3>1, <3>3, AllKinds, Sorts, Within DEF Top
    <3>5. QED
      BY <3>3, <3>4
  <2>3. QED
    BY <1>1, <1>4, <2>2
<1>5. QED
  BY <1>2, <1>3, <1>4

(* Contested objects lie in the host cluster, and namespaces are none.     *)
LEMMA ContestedTop ==
  ASSUME NEW k \in Kinds, NEW id \in Ids, <<k, id>> \in Contested
  PROVE  k \in Top \ {"networkNamespace", "destroyerNamespace"}
<1>1. PICK p \in Objects : Meets(k, id, p[1], p[2]) \/ Meets(p[1], p[2], k, id)
  BY DEF Contested
<1>2. QED
  BY <1>1, MeetsMeans DEF Top

(* No other object is taken for one that is not contested.                 *)
LEMMA UncontestedPaths ==
  ASSUME NEW k \in Kinds, NEW l \in Kinds, NEW i \in Ids, NEW j \in Ids, <<l, j>> \notin Contested,
         PathOf[<<k, i>>] = PathOf[<<l, j>>]
  PROVE  k = l /\ i = j
<1> SUFFICES ASSUME <<k, i>> # <<l, j>> PROVE FALSE
  OBVIOUS
<1>1. Meets(k, i, l, j) \/ Meets(l, j, k, i)
  BY NamesMeet
<1>2. <<k, i>> \in Objects /\ <<l, j>> \in Objects
  BY DEF Objects
<1>3. <<l, j>> \in Contested
  BY <1>1, <1>2 DEF Contested
<1>4. QED
  BY <1>3

(* Its path is under another one just if that is its own or that of the    *)
(* namespace it lies in.                                                   *)
LEMMA Apart ==
  ASSUME NEW i \in Ids, NEW j \in Ids, NEW k \in Kinds, NEW l \in Kinds, <<l, j>> \notin Contested
  PROVE  Under(PathOf[<<k, i>>], PathOf[<<l, j>>]) <=> i = j /\ (k = l \/ Inside[l] = k)
<1>1. PathOf[<<k, i>>] = PathOf[<<l, j>>] <=> i = j /\ k = l
  BY UncontestedPaths
<1>2. CASE l \in Top
  <2>1. PathOf[<<l, j>>] = <<Named(l, j)>> /\ Inside[l] # k
    BY <1>2, Tops, Paths, AllKinds
  <2>2. QED
    BY <1>1, <2>1 DEF Under
<1>3. CASE l \notin Top
  <2>1. Inside[l] \in {"networkNamespace", "destroyerNamespace"} /\ Inside[l] \in Top /\ Inside[l] \in Kinds
    BY <1>3, Tops DEF Top
  <2>2. PathOf[<<l, j>>] = <<Named(Inside[l], j), Named(l, j)>> /\ PathOf[<<Inside[l], j>>] = <<Named(Inside[l], j)>>
    BY <1>3, <2>1, Tops, Paths
  <2>3. <<Inside[l], j>> \notin Contested
    BY <2>1, ContestedTop
  <2>4. PathOf[<<k, i>>] = PathOf[<<Inside[l], j>>] <=> i = j /\ k = Inside[l]
    BY <2>1, <2>3, UncontestedPaths
  <2>5. Under(PathOf[<<k, i>>], PathOf[<<l, j>>]) <=>
          PathOf[<<k, i>>] = PathOf[<<l, j>>] \/ PathOf[<<k, i>>] = PathOf[<<Inside[l], j>>]
    BY <2>2 DEF Under
  <2>6. QED
    BY <1>1, <2>4, <2>5
<1>4. QED
  BY <1>2, <1>3

(* An object that is found was created for the one who looks for it.       *)
LEMMA ExistsMeans ==
  ASSUME objects \subseteq Objects, NEW k \in Kinds, NEW id \in Ids, <<k, id>> \notin Contested
  PROVE  Exists(PathOf[<<k, id>>]) <=> <<k, id>> \in objects
<1>1. ASSUME NEW o \in objects, PathOf[o] = PathOf[<<k, id>>] PROVE o = <<k, id>>
  <2>1. PICK l \in Kinds, j \in Ids : o = <<l, j>>
    BY DEF Objects
  <2>2. QED
    BY <1>1, <2>1, UncontestedPaths
<1>2. QED
  BY <1>1 DEF Exists

(* Of what is not contested, deleting takes the object, what lies in it,   *)
(* and nothing else.                                                       *)
LEMMA DeleteMeans ==
  ASSUME objects \subseteq Objects, NEW k \in Kinds, NEW id \in Ids, Delete(k, id)
  PROVE  /\ objects' \subseteq objects
         /\ \A l \in Kinds, j \in Ids : <<l, j>> \notin Contested =>
              (<<l, j>> \in objects' <=> <<l, j>> \in objects /\ ~(id = j /\ (k = l \/ Inside[l] = k)))
<1>1. objects' = {o \in objects : ~Under(PathOf[<<k, id>>], PathOf[o])}
  BY Targets DEF Delete
<1>2. \A l \in Kinds, j \in Ids : <<l, j>> \notin Contested =>
        (Under(PathOf[<<k, id>>], PathOf[<<l, j>>]) <=> id = j /\ (k = l \/ Inside[l] = k))
  BY Apart
<1>3. QED
  BY <1>1, <1>2

----------------------------------------------------------------------------
(* The invariant.                                                          *)

vars == <<objects, call>>

(* Every call keeps whatever exists in something that exists.              *)
LEMMA TypeStep ==
  ASSUME SharedTypeOK, NEW k \in Kinds, NEW id \in Ids,
         CreateExisting(k, id) \/ CreateNew(k, id) \/ CreateFails(k, id) \/ Delete(k, id)
  PROVE  SharedTypeOK'
<1>1. objects \subseteq Objects
  BY DEF SharedTypeOK
<1>2. CASE UNCHANGED objects
  BY <1>2 DEF SharedTypeOK
<1>3. CASE CreateNew(k, id)
  <2>1. /\ objects' = objects \cup {<<k, id>>} /\ <<k, id>> \notin Refused
        /\ Inside[k] # "host" => Exists(PathOf[<<Inside[k], id>>])
    BY <1>3 DEF CreateNew, Creatable
  <2>2. Inside[k] # "host" => Inside[k] \in Kinds /\ <<Inside[k], id>> \notin Contested
    BY Within, Tops, AllKinds, ContestedTop DEF Top
  <2>3. Inside[k] # "host" => <<Inside[k], id>> \in objects
    BY <1>1, <2>1, <2>2, ExistsMeans
  <2>4. <<k, id>> \in Objects /\ Refused' = Refused
    BY DEF Objects, Refused
  <2>5. QED
    BY <1>1, <2>1, <2>3, <2>4 DEF SharedTypeOK
<1>4. CASE Delete(k, id)
  <2>1. objects' \subseteq objects
    BY <1>1, <1>4, DeleteMeans
  <2>2. ASSUME NEW l \in Kinds, NEW j \in Ids, <<l, j>> \in objects', Inside[l] # "host"
        PROVE  <<Inside[l], j>> \in objects'
    <3>1. <<l, j>> \in objects /\ <<Inside[l], j>> \in objects
      BY <2>1, <2>2 DEF SharedTypeOK
    <3>2. /\ Inside[l] \in {"networkNamespace", "destroyerNamespace"} /\ Inside[l] \in Kinds
          /\ Inside[Inside[l]] = "host" /\ "host" \notin Kinds /\ l \notin Top
      BY <2>2, Tops, AllKinds, Within DEF Top
    <3>3. <<l, j>> \notin Contested /\ <<Inside[l], j>> \notin Contested
      BY <3>2, ContestedTop
    <3>4. ~(id = j /\ Inside[l] = k)
      BY <1>1, <1>4, <2>2, <3>3, DeleteMeans
    <3>5. QED
      BY <1>1, <1>4, <3>1, <3>2, <3>3, <3>4, DeleteMeans
  <2>3. ASSUME NEW o \in objects'
        PROVE  o \notin Refused /\ (Inside[o[1]] # "host" => <<Inside[o[1]], o[2]>> \in objects')
    <3>1. PICK l \in Kinds, j \in Ids : o = <<l, j>> /\ o \in objects
      BY <1>1, <2>1 DEF Objects
    <3>2. QED
      BY <2>2, <3>1 DEF SharedTypeOK
  <2>4. objects' \subseteq Objects /\ Refused' = Refused /\ Objects' = Objects
    BY <1>1, <2>1 DEF Refused, Objects
  <2>5. QED
    BY <2>3, <2>4 DEF SharedTypeOK
<1>5. QED
  BY <1>2, <1>3, <1>4 DEF CreateExisting, CreateFails

(* Of whatever exists, what it lies in exists as well.                     *)
THEOREM SharedTypes == SharedSpec => []SharedTypeOK
<1>1. SharedInit => SharedTypeOK
  BY DEF SharedInit, SharedTypeOK
<1>2. SharedTypeOK /\ [SharedNext]_vars => SharedTypeOK'
  <2> SUFFICES ASSUME SharedTypeOK, [SharedNext]_vars PROVE SharedTypeOK'
    OBVIOUS
  <2>1. CASE SharedNext
    BY <2>1, TypeStep DEF SharedNext
  <2>2. CASE UNCHANGED vars
    BY <2>2 DEF vars, SharedTypeOK
  <2>3. QED
    BY <2>1, <2>2
<1>3. QED
  BY <1>1, <1>2, PTL DEF SharedSpec, vars

----------------------------------------------------------------------------
(* Refinement.                                                             *)

Owned == [id \in Ids |-> {k \in Kinds : <<k, id>> \in objects /\ <<k, id>> \notin Contested}]

(* What can be created does not depend on the other clusters.              *)
LEMMA PossibleMeans ==
  ASSUME SharedTypeOK, NEW k \in Kinds, NEW id \in Ids
  PROVE  Private!Possible(k, id) <=> Creatable(k, id)
<1>1. objects \subseteq Objects
  BY DEF SharedTypeOK
<1>2. Inside[k] # "host" => Inside[k] \in Kinds /\ <<Inside[k], id>> \notin Contested
  BY Within, Tops, AllKinds, ContestedTop DEF Top
<1>3. Inside[k] # "host" => (Exists(PathOf[<<Inside[k], id>>]) <=> Inside[k] \in Owned[id])
  BY <1>1, <1>2, ExistsMeans DEF Owned
<1>4. QED
  BY <1>3 DEF Private!Possible, Creatable, Owned

(* Every call on an object that is not contested is one on the objects of  *)
(* its cluster alone.                                                      *)
LEMMA OwnStep ==
  ASSUME SharedTypeOK, NEW k \in Kinds, NEW id \in Ids, <<k, id>> \notin Contested,
         CreateExisting(k, id) \/ CreateNew(k, id) \/ CreateFails(k, id) \/ Delete(k, id)
  PROVE  Private!Create(k, id) \/ Private!CreateFails(k, id) \/ Private!Delete(k, id)
<1>1. objects \subseteq Objects /\ Private!Own(k, id) /\ Contested' = Contested
  BY DEF SharedTypeOK, Private!Own, Contested, Objects, Meets
<1>2. CASE CreateExisting(k, id)
  <2>1. <<k, id>> \in objects /\ objects' = objects /\ call' = <<"create", k, id>>
    BY <1>1, <1>2, ExistsMeans DEF CreateExisting
  <2>2. <<k, id>> \notin Refused /\ (Inside[k] # "host" => <<Inside[k], id>> \in objects)
    BY <2>1 DEF SharedTypeOK
  <2>3. Inside[k] # "host" => Inside[k] \in Kinds /\ <<Inside[k], id>> \notin Contested
    BY Within, Tops, AllKinds, ContestedTop DEF Top
  <2>4. Inside[k] # "host" => Inside[k] \in Owned[id]
    BY <2>2, <2>3 DEF Owned
  <2>5. Private!Possible(k, id)
    BY <2>2, <2>4 DEF Private!Possible, Owned
  <2>6. Owned' = [Owned EXCEPT ![id] = Owned[id] \cup {k}]
    BY <1>1, <2>1 DEF Owned
  <2>7. QED
    BY <1>1, <2>1, <2>5, <2>6 DEF Private!Create, Owned
<1>3. CASE CreateNew(k, id)
  <2>1. objects' = objects \cup {<<k, id>>} /\ call' = <<"create", k, id>> /\ Private!Possible(k, id)
    BY <1>3, PossibleMeans DEF CreateNew
  <2>2. Owned' = [Owned EXCEPT ![id] = Owned[id] \cup {k}]
    BY <1>1, <2>1 DEF Owned
  <2>3. QED
    BY <1>1, <2>1, <2>2 DEF Private!Create, Owned
<1>4. CASE CreateFails(k, id)
  <2>1. objects' = objects /\ call' = <<"fail", k, id>> /\ ~Private!Possible(k, id)
    BY <1>4, PossibleMeans DEF CreateFails
  <2>2. Owned' = Owned
    BY <1>1, <2>1 DEF Owned
  <2>3. QED
    BY <1>1, <2>1, <2>2 DEF Private!CreateFails, Owned
<1>5. CASE Delete(k, id)
  <2>1. call' = <<"delete", k, id>>
    BY <1>5 DEF Delete
  <2>2. \A l \in Kinds, j \in Ids : <<l, j>> \notin Contested =>
          (<<l, j>> \in objects' <=> <<l, j>> \in objects /\ ~(id = j /\ (k = l \/ Inside[l] = k)))
    BY <1>1, <1>5, DeleteMeans
  <2>3. Owned' = [Owned EXCEPT ![id] = {l \in Owned[id] : l # k /\ Inside[l] # k}]
    BY <1>1, <2>2 DEF Owned
  <2>4. QED
    BY <1>1, <2>1, <2>3 DEF Private!Delete, Owned
<1>6. QED
  BY <1>2, <1>3, <1>4, <1>5

(* Calls on contested objects do not touch any other object.               *)
LEMMA ContestedStep ==
  ASSUME SharedTypeOK, NEW k \in Kinds, NEW id \in Ids, <<k, id>> \in Contested,
         CreateExisting(k, id) \/ CreateNew(k, id) \/ CreateFails(k, id) \/ Delete(k, id)
  PROVE  Private!CallContested(k, id)
<1>1. objects \subseteq Objects /\ ~Private!Own(k, id) /\ Contested' = Contested
  BY DEF SharedTypeOK, Private!Own, Contested, Objects, Meets
<1>2. call' \in {<<"create", k, id>>, <<"fail", k, id>>, <<"delete", k, id>>}
  BY DEF CreateExisting, CreateNew, CreateFails, Delete
<1>3. \A l \in Kinds, j \in Ids : <<l, j>> \notin Contested => (<<l, j>> \in objects' <=> <<l, j>> \in objects)
  <2>1. CASE UNCHANGED objects
    BY <2>1
  <2>2. CASE CreateNew(k, id)
    BY <2>2 DEF CreateNew
  <2>3. CASE Delete(k, id)
    <3>1. \A l \in Kinds : Inside[l] # k
      BY ContestedTop, Tops, AllKinds, Within
    <3>2. QED
      BY <1>1, <2>3, <3>1, DeleteMeans
  <2>4. QED
    BY <2>1, <2>2, <2>3 DEF CreateExisting, CreateFails
<1>4. Owned' = Owned
  BY <1>1, <1>3 DEF Owned
<1>5. QED
  BY <1>1, <1>2, <1>4 DEF Private!CallContested, Owned

(* Whatever their ids and VNIs are, clusters notice one another at         *)
(* contested objects only: of everything else, what one creates stays      *)
(* until it deletes it itself, AlreadyExists always means an object of its *)
(* own, and a call fails only where it would fail without the others       *)
(* (keys.go, key.go, legacy/resource.go 104-138 and 288-319).              *)
THEOREM OneHostEach == SharedSpec => ImplementsPrivate
<1>1. SharedInit => Private!Init
  <2>1. SharedInit => Owned = [id \in Ids |-> {}]
    BY DEF SharedInit, Owned
  <2>2. QED
    BY <2>1 DEF SharedInit, Private!Init, Owned
<1>2. SharedTypeOK /\ [SharedNext]_vars => [Private!Next]_Private!vars
  <2> SUFFICES ASSUME SharedTypeOK, [SharedNext]_vars PROVE [Private!Next]_Private!vars
    OBVIOUS
  <2>1. CASE SharedNext
    <3>1. PICK k \in Kinds, id \in Ids :
            CreateExisting(k, id) \/ CreateNew(k, id) \/ CreateFails(k, id) \/ Delete(k, id)
      BY <2>1 DEF SharedNext
    <3>2. QED
      BY <3>1, OwnStep, ContestedStep DEF Private!Next
  <2>2. CASE UNCHANGED vars
    BY <2>2 DEF vars, Private!vars
  <2>3. QED
    BY <2>1, <2>2
<1>3. QED
  BY <1>1, <1>2, SharedTypes, PTL DEF SharedSpec, vars, ImplementsPrivate, Private!Spec
=============================================================================
