-------------------------- MODULE NetworkLifecycle --------------------------
(***************************************************************************)
(* What the operator promises about the bridges of one guest cluster, with *)
(* no word of resources, passes and calls: agents build bridges as long as *)
(* the network is in use, cleaners remove them when it is not, the two are *)
(* never at work together, and a network that was taken down is never      *)
(* brought up again.                                                       *)
(***************************************************************************)
CONSTANT Nodes

VARIABLES
  stage,     \* "open", "closed" (taken down for good), or "cleaning"
  agents,    \* the nodes on which an agent runs
  cleaners,  \* the nodes on which a cleaner runs
  bridges    \* the nodes that carry a bridge

vars == <<stage, agents, cleaners, bridges>>

Init ==
  /\ stage = "open"
  /\ agents \subseteq Nodes
  /\ cleaners = {}
  /\ bridges \subseteq Nodes

AgentStarts(n) ==
  /\ stage = "open"
  /\ agents' = agents \cup {n}
  /\ UNCHANGED <<stage, cleaners, bridges>>

AgentStops(n) ==
  /\ agents' = agents \ {n}
  /\ UNCHANGED <<stage, cleaners, bridges>>

BridgeBuilt(n) ==
  /\ n \in agents
  /\ bridges' = bridges \cup {n}
  /\ UNCHANGED <<stage, agents, cleaners>>

Close ==
  /\ stage = "open"
  /\ agents = {}
  /\ stage' = "closed"
  /\ UNCHANGED <<agents, cleaners, bridges>>

StartCleaning ==
  /\ stage = "closed"
  /\ stage' = "cleaning"
  /\ UNCHANGED <<agents, cleaners, bridges>>

CleanerStarts(n) ==
  /\ stage = "cleaning"
  /\ cleaners' = cleaners \cup {n}
  /\ UNCHANGED <<stage, agents, bridges>>

CleanerSucceeds(n) ==
  /\ n \in cleaners
  /\ cleaners' = cleaners \ {n}
  /\ bridges' = bridges \ {n}
  /\ UNCHANGED <<stage, agents>>

(* Cleaning may be called off, and started again.                          *)
StopCleaning ==
  /\ stage = "cleaning"
  /\ stage' = "closed"
  /\ cleaners' = {}
  /\ UNCHANGED <<agents, bridges>>

Next ==
  \/ Close \/ StartCleaning \/ StopCleaning
  \/ \E n \in Nodes :
       \/ AgentStarts(n) \/ AgentStops(n) \/ BridgeBuilt(n)
       \/ CleanerStarts(n) \/ CleanerSucceeds(n)

Spec == Init /\ [][Next]_vars

----------------------------------------------------------------------------
(* Once the network is closed no agent runs, and the network stays closed. *)
Quiet == stage # "open" => agents = {}

(* A bridge that is gone after the network was closed does not come back.  *)
NoBridgeReturns == [][stage # "open" => stage' # "open" /\ bridges' \subseteq bridges]_vars
=============================================================================
