------------------------------ MODULE Pipeline ------------------------------
(***************************************************************************)
(* The data that goes through a refresh: the provider's answer, the nodes  *)
(* Fetch parses it into, the assignments Plan returns for them, and the    *)
(* options Build makes of both and of the overrides in force by then.      *)
(* Refresh has the same stages with their interleavings and without the    *)
(* data.                                                                   *)
(***************************************************************************)
EXTENDS Builder

CONSTANT Bodies    \* what the provider may answer with status 200

ASSUME PipelineAssumption ==
    Bodies \subseteq [text : Seq(Lines), inside : Seq(Lines) \cup {Undecodable},
                      excess : 0..3]

ASSUME NumberingAssumption ==
    \A body \in Bodies :
        LET lines == MaybeBase64Decode(body)
        IN  \A j \in Accepted(lines) :
                lines[j].fragment = NoFragment => Position(lines, j) \in DOMAIN Numbered

VARIABLES
    pc,          \* the stage a refresh has come to, or that the process is gone
    nodes,       \* what Fetch returned
    assigned,    \* the tags Plan returned a pair of ports for
    overrides,   \* settings.RUOverrides
    built        \* the input and options of the last Build that succeeded

vars == <<pc, nodes, assigned, overrides, built>>

Init ==
    /\ pc = "idle"
    /\ nodes = <<>>
    /\ assigned = {}
    /\ overrides = [t \in Tags |-> Nothing]
    /\ built = Nothing

\* Fetch, up to its return of the nodes.
FetchOk(body) ==
    /\ pc = "idle"
    /\ ~DecodePanics(body)
    /\ DOMAIN ParseSubscriptionText(body) # {}
    /\ nodes' = ParseSubscriptionText(body)
    /\ pc' = "plan"
    /\ UNCHANGED <<assigned, overrides, built>>

\* "subscription produced no vless nodes": the refresh ends, all is as before.
FetchEmpty(body) ==
    /\ pc = "idle"
    /\ ~DecodePanics(body)
    /\ DOMAIN ParseSubscriptionText(body) = {}
    /\ UNCHANGED vars

\* Nothing recovers the panic, on either goroutine.
FetchPanics(body) ==
    /\ pc = "idle"
    /\ DecodePanics(body)
    /\ pc' = "dead"
    /\ UNCHANGED <<nodes, assigned, overrides, built>>

EndRefresh ==
    /\ pc' = "idle"
    /\ nodes' = <<>>
    /\ assigned' = {}

\* Plan returns an entry per listed node (Planner's PlanCoversNodes).
PlanOk ==
    /\ pc = "plan"
    /\ assigned' = {nodes[j].tag : j \in Listed(nodes)}
    /\ pc' = "build"
    /\ UNCHANGED <<nodes, overrides, built>>

PlanFails ==
    /\ pc = "plan"
    /\ EndRefresh
    /\ UNCHANGED <<overrides, built>>

BuildOk ==
    /\ pc = "build"
    /\ ~BuildFailsOn(nodes)
    /\ built' = [nodes |-> nodes, assigned |-> assigned,
                 options |-> Options(nodes, assigned, overrides)]
    /\ EndRefresh
    /\ UNCHANGED overrides

BuildFails ==
    /\ pc = "build"
    /\ BuildFailsOn(nodes)
    /\ EndRefresh
    /\ UNCHANGED <<overrides, built>>

\* The nodes window's check boxes, at any time the settings' lock is free.
Override(tag, class) ==
    /\ pc # "dead"
    /\ overrides[tag] # class
    /\ overrides' = [overrides EXCEPT ![tag] = class]
    /\ UNCHANGED <<pc, nodes, assigned, built>>

Next ==
    \/ \E body \in Bodies : FetchOk(body) \/ FetchEmpty(body) \/ FetchPanics(body)
    \/ PlanOk \/ PlanFails \/ BuildOk \/ BuildFails
    \/ \E tag \in Tags \ AutoTags, class \in Classes : Override(tag, class)

Spec == Init /\ [][Next]_vars

-----------------------------------------------------------------------------
(* Properties                                                              *)

Tagged(type) == {o.tag : o \in {q \in built.options.outbounds : q.type = type}}

OutboundTags == {o.tag : o \in built.options.outbounds}

\* The tags the tray and the nodes window list with an address.
Shown == {built.nodes[j].tag : j \in Listed(built.nodes)} \cap built.assigned

IsNodeList(ns) == DOMAIN ns \subseteq Nat \ {0} /\ \A j \in DOMAIN ns : ns[j] \in Nodes

TypeOK ==
    /\ pc \in {"idle", "plan", "build", "dead"}
    /\ IsNodeList(nodes)
    /\ assigned \subseteq Tags
    /\ overrides \in [Tags -> Classes \cup {Nothing}]
    /\ built # Nothing => IsNodeList(built.nodes) /\ built.assigned \subseteq Tags

\* Options refer to nothing they do not define: every rule leads to an
\* outbound, every group has members and they are outbounds.  Inbounds and
\* rules are made for every listed node and outbounds only for those whose
\* transport can be built, so this rests on the parser having dropped the
\* others.
ReferencesResolve ==
    built # Nothing =>
        /\ \A r \in built.options.nodeRules \cup built.options.groupRules :
              r.outbound \in OutboundTags
        /\ \A o \in built.options.outbounds :
              /\ o.members \subseteq OutboundTags
              /\ o.type = "urltest" => o.members # {}

\* Every listed node has an address to show, the options have an inbound for
\* its port, and no connection to it leaves by the direct fallback, whatever
\* the tags look like and however often one is repeated.
ListedIsProxied ==
    built # Nothing =>
        \A j \in Listed(built.nodes), k \in Protos :
            LET tag == built.nodes[j].tag
            IN  \E b \in built.options.inbounds :
                    /\ tag \in Shown
                    /\ b.port = <<k, tag>>
                    /\ Outlet(built.options, b.tag) \in Shown

\* The options route as the tray says: the connection made to a node's port
\* leaves through that node, the one made to a balancer's port through that
\* balancer's group or, when it has no member, directly.
RoutesAsShown ==
    \A b \in built.options.inbounds :
        LET owner == b.port[2]
        IN  Outlet(built.options, b.tag) =
                IF b.at # 0 THEN owner
                ELSE IF GroupTag[owner] \in Tagged("urltest")
                     THEN GroupTag[owner] ELSE DirectTag

\* So it is as long as the names SafeTag makes of the listed tags differ
\* from each other and from the balancers'.
NamesDiffer ==
    /\ \A s, t \in Shown : SafeTag[s] = SafeTag[t] => s = t
    /\ \A t \in Shown : SafeTag[t] \notin Classes

DistinctNamesRoute == (built # Nothing /\ NamesDiffer) => RoutesAsShown

\* What builder.go says of its rules: "one route rule per node (inbound pair
\* -> outbound)", without a condition on the tags.
NodeRoutesHold == built # Nothing => RoutesAsShown

\* What parse.go says of a body that is not base64: "the original text is
\* returned unchanged".
BodyReturned == pc # "dead"
=============================================================================
