----------------------------- MODULE MCPipeline -----------------------------
(***************************************************************************)
(* Tags that SafeTag maps to one name, a tag named like a balancer, auto   *)
(* and flagged tags, unnamed links, a link whose fragment is another's     *)
(* number, links the parser drops, bodies plain and encoded, of lengths    *)
(* that are and are not multiples of four.                                 *)
(***************************************************************************)
EXTENDS Pipeline

MCTags == {"a b", "a_b", "ru", "auto", "flag", "node-1", "node-2"}
MCNumbered == <<"node-1", "node-2">>
MCSafeTag ==
    [t \in MCTags |-> IF t = "a b" THEN "a_b" ELSE t]

Link(t, n) == [scheme |-> "vless", uuid |-> TRUE, fragment |-> t, network |-> n]
Text == [scheme |-> "none", uuid |-> FALSE, fragment |-> NoFragment, network |-> "tcp"]
Trojan == [Text EXCEPT !.scheme = "trojan"]
Anonymous == [Link("flag", "tcp") EXCEPT !.uuid = FALSE]

Plain(ls, r) == [text |-> ls, inside |-> Undecodable, excess |-> r]
Base64(ls, r) == [text |-> <<Text>>, inside |-> ls, excess |-> r]

MCBodies ==
    { Plain(<<Link("a b", "tcp"), Text, Link("auto", "tcp"), Link("flag", "ws")>>, 0),
      Plain(<<Link("a b", "tcp"), Link("a_b", "grpc")>>, 0),
      Plain(<<Link("a_b", "xhttp")>>, 3),
      Base64(<<Link(NoFragment, "ws"), Anonymous, Link(NoFragment, "tcp")>>, 0),
      Base64(<<Trojan, Link("node-2", "grpc"), Link(NoFragment, "tcp"), Link("flag", "other")>>, 0),
      Base64(<<Link("ru", "tcp"), Link("flag", "tcp")>>, 0),
      Base64(<<Link("ru", "tcp")>>, 2),
      Base64(<<Text>>, 0),
      Plain(<<Link("auto", "tcp")>>, 0),
      Plain(<<>>, 0) }
=============================================================================
