---------------------------- MODULE Subscription ----------------------------
(***************************************************************************)
(* internal/sub/parse.go: from the body of a subscription to its nodes.    *)
(*                                                                         *)
(* A body is the sequence of its lines, what base64 decoding makes of it,  *)
(* and the remainder of its trimmed length by four, which is all that the  *)
(* padding depends on.  Of a link are kept the parts that decide whether   *)
(* it becomes a node and what later stages key on: scheme, user, fragment  *)
(* and network; URL parameters are carried through unchanged by the code.  *)
(***************************************************************************)
EXTENDS Integers, Sequences, FiniteSets

CONSTANTS
    Tags,          \* node tags
    Numbered,      \* Numbered[k] is the tag "node-k"
    AutoTags,      \* tags that contain "auto", in either alphabet
    FlagTags,      \* tags that contain the Russian flag
    Names,         \* inbound names
    SafeTag,       \* the name SafeTag makes of a tag; distinct tags may share one
    NoFragment,    \* a link without a fragment
    Undecodable    \* a body that is not base64

ASSUME SubscriptionAssumption ==
    /\ Numbered \in Seq(Tags)
    /\ AutoTags \subseteq Tags
    /\ FlagTags \subseteq Tags
    /\ SafeTag \in [Tags -> Names]
    /\ NoFragment \notin Tags

Schemes == {"vless", "vmess", "trojan", "none"}
Networks == {"tcp", "grpc", "ws", "xhttp", "other"}
Lines == [scheme : Schemes, uuid : BOOLEAN, fragment : Tags \cup {NoFragment},
          network : Networks]
Nodes == [tag : Tags, network : Networks]

\* MaybeBase64Decode pads with strings.Repeat("=", (-len(raw)) % 4).  Go's %
\* takes the sign of the dividend, so the count is zero or negative, and
\* Repeat panics on a negative count.
PaddingCount(body) == -body.excess

DecodePanics(body) == body.text # <<>> /\ PaddingCount(body) < 0

\* The decoded body, if there is a link in it, else the body as it came.
MaybeBase64Decode(body) ==
    IF /\ body.inside # Undecodable
       /\ \E j \in DOMAIN body.inside : body.inside[j].scheme # "none"
    THEN body.inside
    ELSE body.text

\* Mutant: the parser leaves the judgement of the transport to the builder.
AcceptsAnyNetwork(line) == line.scheme = "vless" /\ line.uuid

\* ParseVLESS accepts the line: buildTransport knows the network.
Accepts(line) ==
    /\ line.scheme = "vless"
    /\ line.uuid
    /\ line.network \in {"tcp", "grpc", "ws", "xhttp"}

\* The places of the lines that become nodes.
Accepted(lines) == {j \in DOMAIN lines : Accepts(lines[j])}

\* How many nodes there are up to a place.
Position(lines, j) == Cardinality({l \in Accepted(lines) : l <= j})

\* Mutant: an unnamed link stays unnamed.
LeavesUnnamed(body) ==
    LET lines == MaybeBase64Decode(body)
    IN  [j \in Accepted(lines) |-> [tag |-> lines[j].fragment, network |-> lines[j].network]]

\* The nodes by the places of their lines, which keep their order; an unnamed
\* one is numbered after the nodes accepted before it.
ParseSubscriptionText(body) ==
    LET lines == MaybeBase64Decode(body)
    IN  [j \in Accepted(lines) |->
            [tag |-> IF lines[j].fragment = NoFragment
                     THEN Numbered[Position(lines, j)] ELSE lines[j].fragment,
             network |-> lines[j].network]]

IsAuto(node) == node.tag \in AutoTags
IsRU(node) == node.tag \in FlagTags
=============================================================================
