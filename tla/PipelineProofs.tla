--------------------------- MODULE PipelineProofs ---------------------------
(***************************************************************************)
(* For every set of tags, safe names and bodies: the options Build returns *)
(* refer to nothing they lack, proxy every node they list, and route as    *)
(* the tray says while the names of their inbounds differ.  What the       *)
(* options hold follows from how they were made, so the invariant          *)
(* remembers that: a node that has come through the parser can be built,   *)
(* the tags that have a pair of ports when Build is called are those of    *)
(* the nodes it lists, and the last options are those of such nodes and    *)
(* tags and of the overrides of that moment.                               *)
(***************************************************************************)
EXTENDS Pipeline, FiniteSetTheorems, WellFoundedInduction, TLAPS

TagsOf(ns) == {ns[j].tag : j \in Listed(ns)}

\* Every node has a transport that buildTransport of the builder knows too.
AllBuildable(ns) == \A j \in DOMAIN ns : Buildable(ns[j])

BuiltFrom ==
    built # Nothing =>
        /\ AllBuildable(built.nodes)
        /\ built.assigned = TagsOf(built.nodes)
        /\ \E ov : built.options = Options(built.nodes, built.assigned, ov)

IInv ==
    /\ TypeOK
    /\ AllBuildable(nodes)
    /\ pc = "build" => assigned = TagsOf(nodes)
    /\ BuiltFrom

-----------------------------------------------------------------------------
\* What the parser returns: nodes with a tag, that can be built.
LEMMA ParsedNodes ==
  ASSUME NEW body \in Bodies
  PROVE  /\ IsNodeList(ParseSubscriptionText(body))
         /\ AllBuildable(ParseSubscriptionText(body))
<1> DEFINE lines == MaybeBase64Decode(body)
           ns == ParseSubscriptionText(body)
<1>1. lines \in Seq(Lines)
  BY PipelineAssumption DEF MaybeBase64Decode
<1>2. DOMAIN ns = Accepted(lines) /\ Accepted(lines) \subseteq DOMAIN lines
  BY DEF ParseSubscriptionText, Accepted
<1>3. ASSUME NEW j \in Accepted(lines)
      PROVE  ns[j] \in Nodes /\ Buildable(ns[j])
  <2>1. lines[j] \in Lines /\ Accepts(lines[j])
    BY <1>1, <1>2 DEF Accepted
  <2>2. ns[j] = [tag |-> IF lines[j].fragment = NoFragment
                         THEN Numbered[Position(lines, j)] ELSE lines[j].fragment,
                 network |-> lines[j].network]
    BY DEF ParseSubscriptionText
  <2>3. lines[j].fragment = NoFragment => Numbered[Position(lines, j)] \in Tags
    <3>1. lines[j].fragment = NoFragment => Position(lines, j) \in DOMAIN Numbered
      BY NumberingAssumption
    <3>2. Numbered \in Seq(Tags)
      BY SubscriptionAssumption
    <3> QED
      BY <3>1, <3>2
  <2>4. ns[j].tag \in Tags
    BY <2>1, <2>2, <2>3 DEF Lines
  <2> QED
    BY <2>1, <2>2, <2>4 DEF Lines, Nodes, Accepts, Buildable, Networks
<1>4. DOMAIN ns \subseteq Nat \ {0}
  BY <1>1, <1>2
<1> QED
  BY <1>2, <1>3, <1>4 DEF IsNodeList, AllBuildable

\* The invariant holds before the first refresh.
LEMMA InitIInv == Init => IInv
<1> SUFFICES ASSUME Init PROVE IInv
  OBVIOUS
<1>1. DOMAIN nodes = {}
  BY DEF Init
<1> QED
  BY <1>1 DEF Init, IInv, TypeOK, IsNodeList, AllBuildable, BuiltFrom

\* No step of a refresh, and no override, breaks it.
LEMMA NextIInv == IInv /\ [Next]_vars => IInv'
<1> SUFFICES ASSUME IInv, [Next]_vars PROVE IInv'
  OBVIOUS
<1>1. ASSUME NEW body \in Bodies, FetchOk(body) PROVE IInv'
  BY <1>1, ParsedNodes DEF FetchOk, IInv, TypeOK, BuiltFrom
<1>2. ASSUME NEW body \in Bodies, FetchEmpty(body) PROVE IInv'
  BY <1>2 DEF FetchEmpty, vars, IInv, TypeOK, BuiltFrom
<1>3. ASSUME NEW body \in Bodies, FetchPanics(body) PROVE IInv'
  BY <1>3 DEF FetchPanics, IInv, TypeOK, BuiltFrom
<1>4. CASE PlanOk
  <2>1. TagsOf(nodes) \subseteq Tags
    BY DEF TagsOf, Listed, IInv, TypeOK, IsNodeList, Nodes
  <2>2. assigned' = TagsOf(nodes)
    BY <1>4 DEF PlanOk, TagsOf
  <2> QED
    BY <1>4, <2>1, <2>2 DEF PlanOk, IInv, TypeOK, BuiltFrom
<1>5. ASSUME EndRefresh, UNCHANGED <<overrides, built>> PROVE IInv'
  <2>1. DOMAIN nodes' = {}
    BY <1>5 DEF EndRefresh
  <2> QED
    BY <1>5, <2>1 DEF EndRefresh, IInv, TypeOK, IsNodeList, AllBuildable, BuiltFrom
<1>6. CASE BuildOk
  <2>1. DOMAIN nodes' = {}
    BY <1>6 DEF BuildOk, EndRefresh
  <2>2. IsNodeList(built.nodes)' /\ (built.assigned \subseteq Tags)'
    BY <1>6 DEF BuildOk, IInv, TypeOK
  <2>3. TypeOK' /\ AllBuildable(nodes)' /\ pc' = "idle"
    BY <1>6, <2>1, <2>2 DEF BuildOk, EndRefresh, IInv, TypeOK, IsNodeList, AllBuildable
  <2>4. BuiltFrom'
    <3>1. /\ built'.nodes = nodes
          /\ built'.assigned = assigned
          /\ built'.options = Options(nodes, assigned, overrides)
      BY <1>6 DEF BuildOk
    <3>2. assigned = TagsOf(nodes)
      BY <1>6 DEF BuildOk, IInv
    <3> QED
      BY <3>1, <3>2 DEF BuiltFrom, IInv
  <2> QED
    BY <2>3, <2>4 DEF IInv
<1>7. ASSUME NEW tag \in Tags, NEW class \in Classes, Override(tag, class) PROVE IInv'
  BY <1>7 DEF Override, IInv, TypeOK, BuiltFrom
<1>8. CASE UNCHANGED vars
  BY <1>8 DEF vars, IInv, TypeOK, BuiltFrom
<1> QED
  BY <1>1, <1>2, <1>3, <1>4, <1>5, <1>6, <1>7, <1>8 DEF Next, PlanFails, BuildOk, BuildFails

\* Nodes can be built and the last options are of such nodes, always.
THEOREM SpecIInv == Spec => []IInv
<1>1. Init => IInv
  BY InitIInv
<1>2. IInv /\ [Next]_vars => IInv'
  BY NextIInv
<1> QED
  BY <1>1, <1>2, PTL DEF Spec

\* The state keeps its types: the parser gives every node a tag.
THEOREM PipelineTypeOK == Spec => []TypeOK
<1>1. IInv => TypeOK
  BY DEF IInv
<1> QED
  BY <1>1, SpecIInv, PTL

-----------------------------------------------------------------------------
\* Of rules that stand somewhere, one stands first.
LEMMA FirstRule ==
  ASSUME NEW rules, rules # {}, \A r \in rules : r.at \in Nat
  PROVE  First(rules) \in rules
<1> DEFINE places == {r.at : r \in rules}
           Less == {ss \in Nat \X Nat : ss[1] < ss[2]}
<1>1. places \subseteq Nat /\ places # {}
  OBVIOUS
<1>2. PICK n \in places : \A m \in places : ~ (<<m, n>> \in Less)
  <2>1. IsWellFoundedOn(Less, Nat)
    BY NatLessThanWellFounded, Zenon DEF OpToRel
  <2> QED
    BY <1>1, <2>1, WFMin
<1>3. \A m \in places : n <= m
  <2> SUFFICES ASSUME NEW m \in places PROVE n <= m
    OBVIOUS
  <2>1. m \in Nat /\ n \in Nat
    BY <1>1
  <2>2. m < n => <<m, n>> \in Less
    BY <2>1
  <2> QED
    BY <1>2, <2>1, <2>2
<1>4. PICK r \in rules : r.at = n
  OBVIOUS
<1>5. \A q \in rules : r.at <= q.at
  BY <1>3, <1>4
<1> QED
  BY <1>5 DEF First

\* What the options of the last Build are made of.
LEMMA BuiltOptions ==
  ASSUME IInv, built # Nothing
  PROVE  /\ built.options.inbounds = Inbounds(built.nodes, built.assigned)
         /\ built.options.nodeRules = NodeRules(built.nodes, built.assigned)
         /\ \E ov : /\ built.options.groupRules = GroupRules(built.nodes, ov)
                    /\ built.options.outbounds = Outbounds(built.nodes, ov)
         /\ Shown = TagsOf(built.nodes)
         /\ Assigned(built.nodes, built.assigned) = Listed(built.nodes)
         /\ Usable(built.nodes) = Listed(built.nodes)
         /\ IsNodeList(built.nodes)
<1>1. PICK ov : built.options = Options(built.nodes, built.assigned, ov)
  BY DEF IInv, BuiltFrom
<1>2. /\ built.options.inbounds = Inbounds(built.nodes, built.assigned)
      /\ built.options.nodeRules = NodeRules(built.nodes, built.assigned)
      /\ built.options.groupRules = GroupRules(built.nodes, ov)
      /\ built.options.outbounds = Outbounds(built.nodes, ov)
  BY <1>1 DEF Options
<1>3. built.assigned = TagsOf(built.nodes) /\ AllBuildable(built.nodes)
  BY DEF IInv, BuiltFrom
<1>4. Shown = TagsOf(built.nodes)
  BY <1>3 DEF Shown, TagsOf
<1>5. Assigned(built.nodes, built.assigned) = Listed(built.nodes)
  BY <1>3 DEF Assigned, TagsOf
<1>6. Usable(built.nodes) = Listed(built.nodes)
  BY <1>3 DEF Usable, AllBuildable, Listed
<1> QED
  BY <1>2, <1>4, <1>5, <1>6 DEF IInv, TypeOK

\* Where a connection to a node's inbound leaves: through a listed node whose
\* safe name the inbound has.
LEMMA NodeOutlet ==
  ASSUME IInv, built # Nothing, NEW j \in Listed(built.nodes), NEW k \in Protos
  PROVE  \E i \in Listed(built.nodes) :
            /\ Outlet(built.options, <<k, SafeTag[built.nodes[j].tag]>>) = built.nodes[i].tag
            /\ SafeTag[built.nodes[i].tag] = SafeTag[built.nodes[j].tag]
<1> DEFINE ns == built.nodes
           tag == <<k, SafeTag[ns[j].tag]>>
           matching == Matching(built.options.nodeRules, tag)
<1>1. built.options.nodeRules = {NodeRule(ns, i) : i \in Listed(ns)}
  BY BuiltOptions DEF NodeRules
<1>2. NodeRule(ns, j) \in matching
  <2>1. tag \in Pair(SafeTag[ns[j].tag])
    BY DEF Pair
  <2> QED
    BY <1>1, <2>1 DEF NodeRule, Matching
<1>3. \A r \in matching : \E i \in Listed(ns) :
          /\ r = NodeRule(ns, i)
          /\ SafeTag[ns[i].tag] = SafeTag[ns[j].tag]
  BY <1>1 DEF NodeRule, Matching, Pair
<1>4. \A r \in matching : r.at \in Nat
  <2>1. Listed(ns) \subseteq Nat
    BY BuiltOptions DEF Listed, IsNodeList
  <2> QED
    BY <1>3, <2>1 DEF NodeRule
<1>5. First(matching) \in matching
  <2> HIDE DEF matching
  <2> QED
    BY <1>2, <1>4, FirstRule
<1>6. Outlet(built.options, tag) = First(matching).outbound
  BY <1>2 DEF Outlet
<1>7. PICK i \in Listed(ns) : /\ First(matching) = NodeRule(ns, i)
                              /\ SafeTag[ns[i].tag] = SafeTag[ns[j].tag]
  BY <1>3, <1>5
<1> QED
  BY <1>6, <1>7 DEF NodeRule

\* Every listed node has an address, an inbound for it, and no connection to
\* it leaves by the direct fallback.
THEOREM PipelineListedIsProxied == Spec => []ListedIsProxied
<1>1. IInv => ListedIsProxied
  <2> SUFFICES ASSUME IInv, built # Nothing,
                      NEW j \in Listed(built.nodes), NEW k \in Protos
               PROVE  \E b \in built.options.inbounds :
                          /\ built.nodes[j].tag \in Shown
                          /\ b.port = <<k, built.nodes[j].tag>>
                          /\ Outlet(built.options, b.tag) \in Shown
    BY DEF ListedIsProxied
  <2> DEFINE ns == built.nodes
             b == [tag |-> <<k, SafeTag[ns[j].tag]>>, port |-> <<k, ns[j].tag>>, at |-> j]
  <2>1. b \in built.options.inbounds
    BY BuiltOptions DEF Inbounds
  <2>2. Shown = TagsOf(ns)
    BY BuiltOptions
  <2>3. Outlet(built.options, b.tag) \in Shown
    BY <2>2, NodeOutlet DEF TagsOf
  <2>4. ns[j].tag \in Shown
    BY <2>2 DEF TagsOf
  <2> QED
    BY <2>1, <2>3, <2>4
<1> QED
  BY <1>1, SpecIInv, PTL

\* Every rule leads to an outbound, every group has members and they are
\* outbounds.
THEOREM PipelineReferencesResolve == Spec => []ReferencesResolve
<1>1. IInv => ReferencesResolve
  <2> SUFFICES ASSUME IInv, built # Nothing
               PROVE  /\ \A r \in built.options.nodeRules \cup built.options.groupRules :
                            r.outbound \in OutboundTags
                      /\ \A o \in built.options.outbounds :
                            /\ o.members \subseteq OutboundTags
                            /\ o.type = "urltest" => o.members # {}
    BY DEF ReferencesResolve
  <2> DEFINE ns == built.nodes
  <2>1. PICK ov : /\ built.options.groupRules = GroupRules(ns, ov)
                  /\ built.options.outbounds = Outbounds(ns, ov)
    BY BuiltOptions
  <2>2. TagsOf(ns) \subseteq OutboundTags
    <3> SUFFICES ASSUME NEW j \in Listed(ns) PROVE ns[j].tag \in OutboundTags
      BY DEF TagsOf
    <3>1. [type |-> "vless", tag |-> ns[j].tag, members |-> {}] \in built.options.outbounds
      BY <2>1, BuiltOptions DEF Outbounds
    <3> QED
      BY <3>1 DEF OutboundTags
  <2>3. ASSUME NEW c \in NonEmptyClasses(ns, ov) PROVE GroupTag[c] \in OutboundTags
    <3>1. [type |-> "urltest", tag |-> GroupTag[c], members |-> Members(ns, ov, c)]
              \in built.options.outbounds
      BY <2>1 DEF Outbounds
    <3> QED
      BY <3>1 DEF OutboundTags
  <2>4. \A r \in built.options.nodeRules : r.outbound \in OutboundTags
    BY <2>2, BuiltOptions DEF NodeRules, NodeRule, TagsOf
  <2>5. \A r \in built.options.groupRules : r.outbound \in OutboundTags
    BY <2>1, <2>3 DEF GroupRules, GroupRule
  <2>6. \A c : Members(ns, ov, c) \subseteq TagsOf(ns)
    BY BuiltOptions DEF Members, TagsOf
  <2>7. ASSUME NEW o \in built.options.outbounds
        PROVE  o.members \subseteq TagsOf(ns) /\ (o.type = "urltest" => o.members # {})
    BY <2>1, <2>6, <2>7 DEF Outbounds, NonEmptyClasses
  <2> QED
    BY <2>2, <2>4, <2>5, <2>7
<1> QED
  BY <1>1, SpecIInv, PTL

\* While the names of the inbounds differ, a connection leaves where the tray
\* says.
THEOREM PipelineDistinctNamesRoute == Spec => []DistinctNamesRoute
<1>1. IInv => DistinctNamesRoute
  <2> SUFFICES ASSUME IInv, built # Nothing, NamesDiffer, NEW b \in built.options.inbounds
               PROVE  Outlet(built.options, b.tag) =
                          IF b.at # 0 THEN b.port[2]
                          ELSE IF GroupTag[b.port[2]] \in Tagged("urltest")
                               THEN GroupTag[b.port[2]] ELSE DirectTag
    BY DEF DistinctNamesRoute, RoutesAsShown
  <2> DEFINE ns == built.nodes
  <2>1. Shown = TagsOf(ns)
    BY BuiltOptions
  <2>2. CASE b.at # 0
    <3>1. PICK k \in Protos, j \in Listed(ns) :
              b = [tag |-> <<k, SafeTag[ns[j].tag]>>, port |-> <<k, ns[j].tag>>, at |-> j]
      BY <2>2, BuiltOptions DEF Inbounds
    <3>2. PICK i \in Listed(ns) :
              /\ Outlet(built.options, b.tag) = ns[i].tag
              /\ SafeTag[ns[i].tag] = SafeTag[ns[j].tag]
      BY <3>1, NodeOutlet
    <3>3. ns[i].tag = ns[j].tag
      BY <2>1, <3>2 DEF NamesDiffer, TagsOf
    <3> QED
      BY <2>2, <3>1, <3>2, <3>3
  <2>3. CASE b.at = 0
    <3>1. PICK k \in Protos, c \in Classes : b.tag = <<k, c>> /\ b.port = <<k, c>>
      <4>1. \A j \in Listed(ns) : j # 0
        BY BuiltOptions DEF Listed, IsNodeList
      <4> QED
        BY <2>3, <4>1, BuiltOptions DEF Inbounds
    <3>2. Matching(built.options.nodeRules, b.tag) = {}
      <4> SUFFICES ASSUME NEW r \in built.options.nodeRules, b.tag \in r.inbounds
                   PROVE  FALSE
        BY DEF Matching
      <4>1. PICK j \in Listed(ns) : r = NodeRule(ns, j)
        BY BuiltOptions DEF NodeRules
      <4>2. SafeTag[ns[j].tag] = c
        BY <3>1, <4>1 DEF NodeRule, Pair
      <4> QED
        BY <2>1, <4>2 DEF NamesDiffer, TagsOf
    <3>3. PICK ov : /\ built.options.groupRules = GroupRules(ns, ov)
                    /\ built.options.outbounds = Outbounds(ns, ov)
      BY BuiltOptions
    <3>4. Tagged("urltest") = {GroupTag[d] : d \in NonEmptyClasses(ns, ov)}
      <4>1. {q \in built.options.outbounds : q.type = "urltest"} =
                {[type |-> "urltest", tag |-> GroupTag[d], members |-> Members(ns, ov, d)] :
                     d \in NonEmptyClasses(ns, ov)}
        BY <3>3 DEF Outbounds
      <4>2. ASSUME NEW d \in NonEmptyClasses(ns, ov) PROVE GroupTag[d] \in Tagged("urltest")
        <5> DEFINE o == [type |-> "urltest", tag |-> GroupTag[d],
                         members |-> Members(ns, ov, d)]
        <5>1. o \in {q \in built.options.outbounds : q.type = "urltest"}
          BY <4>1
        <5>2. o.tag \in Tagged("urltest")
          <6> HIDE DEF o
          <6> QED
            BY <5>1 DEF Tagged
        <5> QED
          BY <5>2
      <4>3. Tagged("urltest") \subseteq {GroupTag[d] : d \in NonEmptyClasses(ns, ov)}
        BY <4>1 DEF Tagged
      <4> QED
        BY <4>2, <4>3
    <3>5. NonEmptyClasses(ns, ov) \subseteq Classes
      BY DEF NonEmptyClasses
    <3>6. GroupTag[c] \in Tagged("urltest") <=> c \in NonEmptyClasses(ns, ov)
      BY <3>4, <3>5 DEF GroupTag, Classes
    <3>7. \A d \in Classes : b.tag \in GroupRule(d).inbounds <=> d = c
      BY <3>1 DEF GroupRule, Pair
    <3>8. Matching(built.options.groupRules, b.tag) =
              IF c \in NonEmptyClasses(ns, ov) THEN {GroupRule(c)} ELSE {}
      BY <3>3, <3>5, <3>7 DEF GroupRules, Matching
    <3>9. First({GroupRule(c)}) = GroupRule(c)
      BY DEF First, GroupRule
    <3> QED
      BY <2>3, <3>1, <3>2, <3>6, <3>8, <3>9 DEF Outlet, GroupRule
  <2> QED
    BY <2>2, <2>3
<1> QED
  BY <1>1, SpecIInv, PTL

-----------------------------------------------------------------------------
(* Numbering                                                               *)

\* The lines accepted up to a place are finitely many, and each accepted line
\* adds one.
LEMMA PositionsAscend ==
  ASSUME NEW lines \in Seq(Lines), NEW j \in Accepted(lines), NEW l \in Accepted(lines), j < l
  PROVE  /\ Position(lines, j) \in Nat \ {0}
         /\ Position(lines, j) < Position(lines, l)
<1> DEFINE upTo(n) == {m \in Accepted(lines) : m <= n}
<1>1. Accepted(lines) \subseteq 1..Len(lines) /\ Len(lines) \in Nat
  BY DEF Accepted
<1>2. \A n : upTo(n) \subseteq 1..Len(lines)
  BY <1>1
<1>3. IsFiniteSet(1..Len(lines))
  BY <1>1, FS_Interval
<1>4. \A n : IsFiniteSet(upTo(n)) /\ Cardinality(upTo(n)) \in Nat
  BY <1>2, <1>3, FS_Subset, FS_CardinalityType
<1>5. upTo(j) \subseteq upTo(l) /\ upTo(j) # upTo(l) /\ upTo(j) # {}
  BY <1>1
<1> HIDE DEF upTo
<1>6. Cardinality(upTo(j)) <= Cardinality(upTo(l)) /\ Cardinality(upTo(j)) # Cardinality(upTo(l))
  BY <1>4, <1>5, FS_Subset
<1>7. Cardinality(upTo(j)) # 0
  BY <1>4, <1>5, FS_EmptySet
<1>8. Position(lines, j) = Cardinality(upTo(j)) /\ Position(lines, l) = Cardinality(upTo(l))
  BY DEF Position, upTo
<1> QED
  BY <1>4, <1>6, <1>7, <1>8

\* ParseVLESS numbers an unnamed link by the nodes accepted before it
\* (len(nodes)+1), so that no two unnamed links of a body share a tag,
\* whatever was dropped between them: distinct numbers make distinct tags.
THEOREM UnnamedNodesDiffer ==
  ASSUME NEW body \in Bodies,
         \A m, n \in DOMAIN Numbered : Numbered[m] = Numbered[n] => m = n,
         NEW j \in Accepted(MaybeBase64Decode(body)),
         NEW l \in Accepted(MaybeBase64Decode(body)), j # l,
         MaybeBase64Decode(body)[j].fragment = NoFragment,
         MaybeBase64Decode(body)[l].fragment = NoFragment
  PROVE  ParseSubscriptionText(body)[j].tag # ParseSubscriptionText(body)[l].tag
<1> DEFINE lines == MaybeBase64Decode(body)
<1>1. lines \in Seq(Lines)
  BY PipelineAssumption DEF MaybeBase64Decode
<1>2. /\ ParseSubscriptionText(body)[j].tag = Numbered[Position(lines, j)]
      /\ ParseSubscriptionText(body)[l].tag = Numbered[Position(lines, l)]
  BY DEF ParseSubscriptionText
<1>3. Position(lines, j) \in DOMAIN Numbered /\ Position(lines, l) \in DOMAIN Numbered
  BY NumberingAssumption
<1>4. j < l \/ l < j
  BY <1>1 DEF Accepted
<1>5. Position(lines, j) # Position(lines, l)
  <2> HIDE DEF lines
  <2>1. CASE j < l
    <3>1. /\ Position(lines, j) \in Nat \ {0}
          /\ Position(lines, j) < Position(lines, l)
      BY <1>1, <2>1, PositionsAscend DEF lines
    <3> QED
      BY <3>1
  <2>2. CASE l < j
    <3>1. /\ Position(lines, l) \in Nat \ {0}
          /\ Position(lines, l) < Position(lines, j)
      BY <1>1, <2>2, PositionsAscend DEF lines
    <3> QED
      BY <3>1
  <2> QED
    BY <1>4, <2>1, <2>2
<1> QED
  BY <1>2, <1>3, <1>5
=============================================================================
