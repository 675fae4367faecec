------------------------------ MODULE PortMap ------------------------------
(***************************************************************************)
(* What internal/ports promises the refresh cycle, with no loop, cursor or *)
(* set of used ports in sight: a map from tags to ports that only grows.   *)
(*                                                                         *)
(* A request names the tags it wants.  Each that has no ports is given a   *)
(* pair that nobody has, in the configured ranges and off the balancer's   *)
(* ports; the answer is the ports of exactly the wanted tags, or, with one *)
(* of them still without, that a range is full.                            *)
(***************************************************************************)
EXTENDS Integers

CONSTANTS
    Tags,         \* tags of subscription nodes
    Protos,       \* protocols
    MaxPort,      \* the last port
    Starts,       \* range starts the user may configure
    Balancers,    \* balancer ports the user may configure, per protocol
    Unmapped      \* no ports

VARIABLES
    start,        \* the first port of each range
    balancer,     \* the balancer's ports
    map,          \* the ports of each tag
    wanted,       \* the tags the request under way names
    answer,       \* "awaited" while one is, or the last answer
    plan          \* the tags and ports the last answer listed

mapVars == <<start, balancer, map, wanted, answer, plan>>

MapInit ==
    /\ start \in Starts
    /\ balancer \in Balancers
    /\ map \in [Tags -> [Protos -> Nat \ {0}] \cup {Unmapped}]
    /\ wanted = {}
    /\ answer = "none"
    /\ plan = {}

Mapped == {t \in Tags : map[t] # Unmapped}

Taken(k) == balancer[k] \cup {map[t][k] : t \in Mapped}

Ask(want) ==
    /\ answer # "awaited"
    /\ wanted' = want
    /\ answer' = "awaited"
    /\ plan' = {}
    /\ UNCHANGED <<start, balancer, map>>

Give(t, pair) ==
    /\ answer = "awaited"
    /\ t \in wanted \ Mapped
    /\ \A k \in Protos : pair[k] >= start[k] /\ pair[k] \notin Taken(k)
    /\ map' = [map EXCEPT ![t] = pair]
    /\ UNCHANGED <<start, balancer, wanted, answer, plan>>

Given ==
    /\ answer = "awaited"
    /\ wanted \subseteq Mapped
    /\ plan' = {[tag |-> t, ports |-> map[t]] : t \in wanted}
    /\ answer' = "ok"
    /\ wanted' = {}
    /\ UNCHANGED <<start, balancer, map>>

Full ==
    /\ answer = "awaited"
    /\ ~ (wanted \subseteq Mapped)
    /\ \E k \in Protos : start[k]..MaxPort \subseteq Taken(k)
    /\ answer' = "exhausted"
    /\ wanted' = {}
    /\ UNCHANGED <<start, balancer, map, plan>>

\* The settings change; the last answer says nothing about the new ones.
Configure(s, b) ==
    /\ answer # "awaited"
    /\ start' = s
    /\ balancer' = b
    /\ answer' = "none"
    /\ plan' = {}
    /\ UNCHANGED <<map, wanted>>

MapNext ==
    \/ \E want \in SUBSET Tags : Ask(want)
    \/ \E t \in wanted, pair \in [Protos -> 1..MaxPort] : Give(t, pair)
    \/ Given \/ Full
    \/ \E s \in Starts, b \in Balancers : Configure(s, b)

MapSpec == MapInit /\ [][MapNext]_mapVars
=============================================================================
