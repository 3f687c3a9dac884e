----------------------------- MODULE MCEtcdStore -----------------------------
(* Instances of EtcdStore for TLC.                                          *)
EXTENDS EtcdStore, TLC

Symmetry == Permutations(Networks) \cup Permutations(Configs) \cup Permutations(Clients)
=============================================================================
