------------------------------ MODULE Builder ------------------------------
(***************************************************************************)
(* internal/core/builder.go: the sing-box options Build makes of nodes,    *)
(* assignments and overrides.                                              *)
(*                                                                         *)
(* An inbound tag is a protocol and a name ("socks-" + name).  A port is   *)
(* named by its protocol and its owner, a node tag or a balancer: which    *)
(* numbers those are is Planner's business.  Log, DNS, TLS and transport   *)
(* options are carried through and left out.                               *)
(***************************************************************************)
EXTENDS Subscription

CONSTANT Nothing    \* no override for a tag / no options built

Protos == {"socks", "http"}
Classes == {"ru", "nonru"}

\* ruSOCKSTag and the like end in the class; the groups are outbounds.
GroupTag == [ru |-> "ru-group", nonru |-> "nonru-group"]
DirectTag == "direct"

\* The places of the nodes that are proxied; "auto" entries are not.
Listed(ns) == {j \in DOMAIN ns : ~IsAuto(ns[j])}

\* buildVLESSOutbound: its buildTransport errs on any other network.
Buildable(node) == node.network \in {"tcp", "grpc", "ws", "xhttp"}

Usable(ns) == {j \in Listed(ns) : Buildable(ns[j])}

\* isRU: the override if there is one, else the flag.
Class(node, overrides) ==
    IF overrides[node.tag] # Nothing THEN overrides[node.tag]
    ELSE IF IsRU(node) THEN "ru" ELSE "nonru"

Members(ns, overrides, class) ==
    {ns[j].tag : j \in {i \in Usable(ns) : Class(ns[i], overrides) = class}}

NonEmptyClasses(ns, overrides) == {c \in Classes : Members(ns, overrides, c) # {}}

\* A VLESS outbound for each usable node, a group for each class that has
\* members, the direct fallback.
Outbounds(ns, overrides) ==
    {[type |-> "vless", tag |-> ns[j].tag, members |-> {}] : j \in Usable(ns)}
    \cup {[type |-> "urltest", tag |-> GroupTag[c], members |-> Members(ns, overrides, c)] :
              c \in NonEmptyClasses(ns, overrides)}
    \cup {[type |-> "direct", tag |-> DirectTag, members |-> {}]}

Assigned(ns, assigned) == {j \in Listed(ns) : ns[j].tag \in assigned}

\* buildInbounds: the balancers', then a pair for each assigned node.
Inbounds(ns, assigned) ==
    {[tag |-> <<k, c>>, port |-> <<k, c>>, at |-> 0] : k \in Protos, c \in Classes}
    \cup {[tag |-> <<k, SafeTag[ns[j].tag]>>, port |-> <<k, ns[j].tag>>, at |-> j] :
              k \in Protos, j \in Assigned(ns, assigned)}

\* Mutant: a node's rule names its SOCKS inbound only.
PairSocksOnly(name) == {<<"socks", name>>}

\* The two inbound tags a rule matches.
Pair(name) == {<<k, name>> : k \in Protos}

\* Mutant: the rule is given the node's tag where the inbound has the safe one.
NodeRuleRawTag(ns, j) == [at |-> j, inbounds |-> Pair(ns[j].tag), outbound |-> ns[j].tag]

NodeRule(ns, j) == [at |-> j, inbounds |-> Pair(SafeTag[ns[j].tag]), outbound |-> ns[j].tag]

GroupRule(c) == [at |-> 0, inbounds |-> Pair(c), outbound |-> GroupTag[c]]

\* buildRules: one per assigned node, in the order of the nodes, then one per
\* group.
NodeRules(ns, assigned) == {NodeRule(ns, j) : j \in Assigned(ns, assigned)}
GroupRules(ns, overrides) == {GroupRule(c) : c \in NonEmptyClasses(ns, overrides)}

\* Build errs when no outbound can be built.
BuildFailsOn(ns) == Usable(ns) = {}

Options(ns, assigned, overrides) ==
    [inbounds |-> Inbounds(ns, assigned),
     outbounds |-> Outbounds(ns, overrides),
     nodeRules |-> NodeRules(ns, assigned),
     groupRules |-> GroupRules(ns, overrides)]

Matching(rules, tag) == {r \in rules : tag \in r.inbounds}

First(rules) == CHOOSE r \in rules : \A q \in rules : r.at <= q.at

\* What sing-box does with a connection to an inbound of that tag: the first
\* rule that lists the tag decides, Route.Final without one.
Outlet(options, tag) ==
    IF Matching(options.nodeRules, tag) # {}
    THEN First(Matching(options.nodeRules, tag)).outbound
    ELSE IF Matching(options.groupRules, tag) # {}
    THEN First(Matching(options.groupRules, tag)).outbound
    ELSE DirectTag
=============================================================================
