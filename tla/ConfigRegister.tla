--------------------------- MODULE ConfigRegister ---------------------------
(***************************************************************************)
(* What the operator takes its etcd store for: one register per network,   *)
(* that holds a config or nothing.  A call takes effect at one moment      *)
(* between its request and its answer.  A caller that gives up does not    *)
(* know whether its call will still take effect, at some later moment and  *)
(* at most once.                                                           *)
(***************************************************************************)
CONSTANTS
  Networks, Configs, NoConfig,
  Clients   \* those who call the store, one call at a time

VARIABLES
  register,  \* the config of each network
  phase,     \* of each client: "idle", "sent" or "answered"
  request,   \* what it has asked for
  answer,    \* what it was told
  late       \* requests whose callers have given up

vars == <<register, phase, request, answer, late>>

Operations == {"create", "delete", "search", "exists", "list"}
Requests   == [op : Operations, net : Networks, config : Configs]
Statuses   == {"ok", "notFound"}
Answers    == [status : Statuses, config : Configs \cup {NoConfig}, names : SUBSET {"config"}]

Told(status)   == [status |-> status, config |-> NoConfig, names |-> {}]
Holds(n)       == register[n] # NoConfig
SetTo(n, c)    == register' = [register EXCEPT ![n] = c]

----------------------------------------------------------------------------
(* What a request does to its register, and its answer a.                  *)

Create(r, a) ==
  /\ r.op = "create"
  /\ SetTo(r.net, IF Holds(r.net) THEN register[r.net] ELSE r.config)
  /\ a = Told("ok")

(* Without a config there may be other things to delete.                   *)
Delete(r, a) ==
  /\ r.op = "delete"
  /\ SetTo(r.net, NoConfig)
  /\ a \in {Told("ok")} \cup IF Holds(r.net) THEN {} ELSE {Told("notFound")}

Search(r, a) ==
  /\ r.op = "search"
  /\ UNCHANGED register
  /\ a = IF Holds(r.net) THEN [Told("ok") EXCEPT !.config = register[r.net]] ELSE Told("notFound")

Exists(r, a) ==
  /\ r.op = "exists"
  /\ UNCHANGED register
  /\ a = IF Holds(r.net) THEN Told("ok") ELSE Told("notFound")

List(r, a) ==
  /\ r.op = "list"
  /\ UNCHANGED register
  /\ a = IF Holds(r.net) THEN [Told("ok") EXCEPT !.names = {"config"}] ELSE Told("notFound")

Effect(r, a) == Create(r, a) \/ Delete(r, a) \/ Search(r, a) \/ Exists(r, a) \/ List(r, a)

----------------------------------------------------------------------------
Init ==
  /\ register = [n \in Networks |-> NoConfig]
  /\ phase = [c \in Clients |-> "idle"]
  /\ request \in [Clients -> Requests]
  /\ answer = [c \in Clients |-> Told("ok")]
  /\ late = {}

Ask(c) ==
  /\ phase[c] = "idle"
  /\ phase' = [phase EXCEPT ![c] = "sent"]
  /\ \E r \in Requests : request' = [request EXCEPT ![c] = r]
  /\ UNCHANGED <<register, answer, late>>

Take(c) ==
  /\ phase[c] = "sent"
  /\ phase' = [phase EXCEPT ![c] = "answered"]
  /\ \E a \in Answers : Effect(request[c], a) /\ answer' = [answer EXCEPT ![c] = a]
  /\ UNCHANGED <<request, late>>

Return(c) ==
  /\ phase[c] = "answered"
  /\ phase' = [phase EXCEPT ![c] = "idle"]
  /\ UNCHANGED <<register, request, answer, late>>

GiveUp(c) ==
  /\ phase[c] = "sent"
  /\ phase' = [phase EXCEPT ![c] = "idle"]
  /\ late' \in {late, late \cup {request[c]}}
  /\ UNCHANGED <<register, request, answer>>

TakeLate(r) ==
  /\ r \in late
  /\ late' = late \ {r}
  /\ \E a \in Answers : Effect(r, a)
  /\ UNCHANGED <<phase, request, answer>>

Next ==
  \/ \E c \in Clients : Ask(c) \/ Take(c) \/ Return(c) \/ GiveUp(c)
  \/ \E r \in late : TakeLate(r)

Spec == Init /\ [][Next]_vars
=============================================================================
