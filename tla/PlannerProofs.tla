--------------------------- MODULE PlannerProofs ---------------------------
(***************************************************************************)
(* Proofs about Plan for any tags, port space, ranges, balancer ports and  *)
(* subscriptions.                                                          *)
(***************************************************************************)
EXTENDS Planner, WellFoundedInduction, TLAPS

\* The used sets are exactly the balancer's ports and the recorded ones.
UsedExact ==
    pc = "loop" => \A k \in Protos : used[k] = balancer[k] \cup AssignedPorts(k)

\* The cursor starts at the range's start, and every port it has passed is
\* used.
CursorInv ==
    pc = "loop" =>
        \A k \in Protos :
            /\ start[k] <= cursor[k]
            /\ \A p \in start[k]..(cursor[k] - 1) : p \in used[k]

\* What the program itself has recorded is within the ports there are.
ProgramPairs == \A t \in Assigned \ FromFile : assignments[t] \in Pairs

\* Two recorded ports of one protocol differ unless the file had them both.
DistinctRecorded ==
    \A t, u \in Assigned, k \in Protos :
        assignments[t][k] = assignments[u][k] => t = u \/ {t, u} \subseteq FromFile

\* Every entry collected so far is what the settings record for its tag.
OutAgrees ==
    \A n \in DOMAIN out :
        /\ out[n].tag \in Assigned
        /\ out[n].ports = assignments[out[n].tag]

\* Every node the loop has passed is an auto node or has its entry.
Covered ==
    /\ pc = "loop" => /\ i <= Len(nodes) + 1
                      /\ \E f \in [DOMAIN out -> 1..(i - 1)] : InOrder(f, i - 1)
    /\ result = "ok" => \E f \in [DOMAIN out -> DOMAIN nodes] : InOrder(f, Len(nodes))

\* A run in progress has no result yet.
NoResultYet == pc = "loop" => result = "none"

IInv ==
    /\ TypeOK
    /\ NoResultYet
    /\ UsedExact
    /\ CursorInv
    /\ ProgramPairs
    /\ DistinctRecorded
    /\ ExhaustionIsReal
    /\ OutAgrees
    /\ Covered

\* The invariant holds before the first run.
LEMMA InitIInv == Init => IInv
  BY PlannerAssumption
  DEF Init, IInv, TypeOK, NoResultYet, UsedExact, CursorInv, ProgramPairs, DistinctRecorded,
      ExhaustionIsReal, OutAgrees, Covered, Assigned, FromFile, Ports, Protos

\* The loop's next node gets the next entry.
LEMMA EntryCovers ==
  ASSUME IInv, InLoop, nodes[i] \notin AutoTags, NEW pair \in Parsed,
         out' = Append(out, [tag |-> nodes[i], ports |-> pair]),
         i' = i + 1, UNCHANGED <<pc, nodes, result>>
  PROVE  Covered'
<1>1. /\ out \in Seq([tag : Tags, ports : Parsed])
      /\ nodes \in Seq(Tags)
      /\ i \in 1..Len(nodes)
      /\ result = "none"
  BY DEF IInv, TypeOK, InLoop, NoResultYet
<1>2. PICK f \in [DOMAIN out -> 1..(i - 1)] : InOrder(f, i - 1)
  BY DEF IInv, Covered, InLoop
<1> DEFINE last == Len(out) + 1
           g == [n \in 1..last |-> IF n = last THEN i ELSE f[n]]
<1>3. /\ DOMAIN out = 1..Len(out)
      /\ DOMAIN out' = 1..last
      /\ out'[last].tag = nodes[i]
      /\ \A n \in 1..Len(out) : out'[n] = out[n]
      /\ last \in Nat \ {0}
  BY <1>1
<1>4. \A n \in 1..Len(out) : f[n] \in 1..(i - 1)
  BY <1>2, <1>3
<1>5. g \in [DOMAIN out' -> 1..i]
  BY <1>1, <1>3, <1>4
<1>6. /\ g[last] = i
      /\ \A n \in 1..Len(out) : g[n] = f[n]
  BY <1>3
<1> HIDE DEF g, last
<1>7. \A n \in DOMAIN out' : n = last \/ n \in DOMAIN out
  BY <1>1, <1>3 DEF last
<1>8. \A n \in DOMAIN out' : out'[n].tag = nodes[g[n]]
  BY <1>2, <1>3, <1>6, <1>7 DEF InOrder
<1>9. \A n, l \in DOMAIN out' : n < l => g[n] < g[l]
  <2> SUFFICES ASSUME NEW n \in DOMAIN out', NEW l \in DOMAIN out', n < l
               PROVE  g[n] < g[l]
    OBVIOUS
  <2>1. n \in DOMAIN out
    BY <1>1, <1>3, <1>7 DEF last
  <2>2. CASE l = last
    BY <1>1, <1>3, <1>4, <1>6, <2>1, <2>2
  <2>3. CASE l \in DOMAIN out
    BY <1>2, <1>3, <1>6, <2>1, <2>3 DEF InOrder
  <2> QED
    BY <1>7, <2>2, <2>3
<1>10. \A j \in 1..i : nodes[j] \notin AutoTags <=> \E n \in DOMAIN out' : g[n] = j
  <2> SUFFICES ASSUME NEW j \in 1..i
               PROVE  nodes[j] \notin AutoTags <=> \E n \in DOMAIN out' : g[n] = j
    OBVIOUS
  <2>1. last \in DOMAIN out' /\ \A n \in DOMAIN out : n \in DOMAIN out'
    BY <1>1, <1>3 DEF last
  <2>2. CASE j = i
    BY <1>6, <2>1, <2>2
  <2>3. CASE j # i
    <3>1. j \in 1..(i - 1)
      BY <1>1, <2>3
    <3>2. nodes[j] \notin AutoTags <=> \E n \in DOMAIN out : f[n] = j
      BY <1>2, <3>1 DEF InOrder
    <3>3. (\E n \in DOMAIN out : f[n] = j) <=> (\E n \in DOMAIN out' : g[n] = j)
      BY <1>3, <1>6, <1>7, <2>1, <2>3
    <3> QED
      BY <3>2, <3>3
  <2> QED
    BY <2>2, <2>3
<1>11. i' - 1 = i /\ i' <= Len(nodes) + 1
  BY <1>1
<1>12. \E h \in [DOMAIN out' -> 1..(i' - 1)] :
          /\ \A n \in DOMAIN out' : out'[n].tag = nodes'[h[n]]
          /\ \A n, l \in DOMAIN out' : n < l => h[n] < h[l]
          /\ \A j \in 1..(i' - 1) :
                nodes'[j] \notin AutoTags <=> \E n \in DOMAIN out' : h[n] = j
  <2>1. 1..(i' - 1) = 1..i
    BY <1>11
  <2>2. g \in [DOMAIN out' -> 1..(i' - 1)]
    BY <1>5, <2>1
  <2>3. \A j \in 1..(i' - 1) : nodes'[j] \notin AutoTags <=> \E n \in DOMAIN out' : g[n] = j
    BY <1>1, <1>10, <2>1
  <2>4. \A n \in DOMAIN out' : out'[n].tag = nodes'[g[n]]
    BY <1>8
  <2> QED
    BY <1>9, <2>2, <2>3, <2>4, Zenon
<1> QED
  BY <1>1, <1>11, <1>12, Zenon DEF Covered, InOrder

\* The used sets and the types of the locals when a run begins.
LEMMA UsedAtStartType ==
  ASSUME TypeOK, NEW ns
  PROVE  /\ UsedAtStart(ns) \in [Protos -> SUBSET (Nat \ {0})]
         /\ \A k \in Protos : UsedAtStart(ns)[k] = balancer[k] \cup AssignedPorts(k)
  <1>1. \A k \in Protos : AssignedPorts(k) \subseteq Nat \ {0}
    BY DEF TypeOK, AssignedPorts, Assigned, Parsed
  <1>2. balancer \in [Protos -> SUBSET Ports]
    BY PlannerAssumption DEF TypeOK
  <1>3. QED
    BY <1>1, <1>2 DEF UsedAtStart, Ports

\* Recording a pair for a tag that has none adds that tag and those ports to
\* what is recorded and changes nothing else.
LEMMA RecordAdds ==
  ASSUME TypeOK, NEW t \in Tags \ Assigned, NEW pair \in Parsed,
         assignments' = [assignments EXCEPT ![t] = pair]
  PROVE  /\ Assigned' = Assigned \cup {t}
         /\ \A k \in Protos : AssignedPorts(k)' = AssignedPorts(k) \cup {pair[k]}
         /\ assignments'[t] = pair
         /\ \A u \in Tags \ {t} : assignments'[u] = assignments[u]
  <1>1. /\ assignments'[t] = pair
        /\ \A u \in Tags \ {t} : assignments'[u] = assignments[u]
    BY DEF TypeOK
  <1>2. Assigned' = Assigned \cup {t}
    BY <1>1 DEF Assigned
  <1>3. ASSUME NEW k \in Protos
        PROVE  AssignedPorts(k)' = AssignedPorts(k) \cup {pair[k]}
    BY <1>1, <1>2 DEF AssignedPorts, Assigned
  <1>4. QED
    BY <1>1, <1>2, <1>3

\* Allocation keeps the invariant: the ports come from outside the used sets,
\* and the used sets cover every recorded port.
LEMMA AllocateIInv == IInv /\ Allocate => IInv'
<1> SUFFICES ASSUME IInv, Allocate PROVE IInv'
  OBVIOUS
<1> DEFINE t == nodes[i]
<1>1. PICK pair \in Pairs : /\ \A k \in Protos : IsNextFree(pair[k], k)
                            /\ Record(t, pair)
  BY DEF Allocate
<1>2. t \in Tags \ Assigned
  BY DEF Allocate, InLoop, IInv, TypeOK
<1>3. assignments' = [assignments EXCEPT ![t] = pair]
  BY <1>1 DEF Record
<1>4. pair \in Parsed /\ UNCHANGED found
  BY DEF Allocate, Pairs, Parsed, Ports
<1>5. /\ Assigned' = Assigned \cup {t}
      /\ \A k \in Protos : AssignedPorts(k)' = AssignedPorts(k) \cup {pair[k]}
      /\ assignments'[t] = pair
      /\ \A u \in Tags \ {t} : assignments'[u] = assignments[u]
  BY <1>2, <1>3, <1>4, RecordAdds DEF IInv
<1>6. \A k \in Protos : /\ pair[k] \in Ports /\ pair[k] \in cursor[k]..MaxPort
                         /\ pair[k] \notin used[k]
                         /\ \A q \in cursor[k]..(pair[k] - 1) : q \in used[k]
  BY <1>1 DEF IsNextFree, Pairs
<1>7. TypeOK'
  <2>1. out' \in Seq([tag : Tags, ports : Parsed])
    BY <1>1, <1>2, <1>4 DEF Record, IInv, TypeOK
  <2>2. used' \in [Protos -> SUBSET (Nat \ {0})]
    BY <1>1, <1>6 DEF Ports, Record, IInv, TypeOK
  <2>3. cursor' \in [Protos -> 1..(MaxPort + 1)]
    BY <1>1, <1>6, PlannerAssumption DEF Record, IInv, TypeOK, Ports
  <2>4. assignments' \in [Tags -> Parsed \cup {Absent, Garbled}]
    BY <1>1, <1>3, <1>4 DEF IInv, TypeOK
  <2>5. QED
    BY <1>1, <1>4, <2>1, <2>2, <2>3, <2>4 DEF Record, Allocate, IInv, TypeOK
<1>8. UsedExact'
  BY <1>1, <1>5 DEF Record, Allocate, InLoop, IInv, UsedExact
<1>9. CursorInv'
  <2> SUFFICES ASSUME NEW k \in Protos
               PROVE  /\ start[k] <= pair[k] + 1
                      /\ \A p \in start[k]..pair[k] : p \in used[k] \cup {pair[k]}
    BY <1>1, <1>6, PlannerAssumption
    DEF Record, Allocate, CursorInv, Ports, IInv, TypeOK
  <2>1. /\ start[k] \in Ports /\ cursor[k] \in 1..(MaxPort + 1)
        /\ pair[k] \in Ports
    BY <1>6, PlannerAssumption DEF IInv, TypeOK
  <2>2. /\ start[k] <= cursor[k]
        /\ \A q \in start[k]..(cursor[k] - 1) : q \in used[k]
    BY DEF Allocate, InLoop, IInv, CursorInv
  <2>3. QED
    BY <1>6, <2>1, <2>2, PlannerAssumption DEF Ports
<1>10. DistinctRecorded'
  <2>1. ASSUME NEW k \in Protos, NEW u \in Assigned
        PROVE  assignments[u][k] # pair[k] /\ u # t /\ u \in Tags
    <3>1. assignments[u][k] \in used[k]
      BY DEF Allocate, InLoop, IInv, UsedExact, AssignedPorts
    <3>2. QED
      BY <1>2, <1>6, <3>1 DEF Assigned
  <2>2. QED
    BY <1>5, <1>4, <2>1 DEF IInv, DistinctRecorded, FromFile
<1>11. ExhaustionIsReal'
  <2>1. result' # "exhausted"
    BY DEF Allocate, InLoop, IInv, NoResultYet
  <2>2. QED
    BY <2>1 DEF ExhaustionIsReal
<1>12. OutAgrees'
  <2>1. /\ out \in Seq([tag : Tags, ports : Parsed])
        /\ out' = Append(out, [tag |-> t, ports |-> pair])
    BY <1>1 DEF Record, IInv, TypeOK
  <2>2. \A n \in DOMAIN out' :
           out'[n] = (IF n = Len(out) + 1 THEN [tag |-> t, ports |-> pair] ELSE out[n])
           /\ (n # Len(out) + 1 => n \in DOMAIN out)
    BY <2>1
  <2>3. QED
    BY <1>2, <1>5, <2>2 DEF IInv, OutAgrees, Assigned
<1>13. NoResultYet'
  BY DEF Allocate, IInv, NoResultYet
<1>14. Covered'
  BY <1>1, <1>4, EntryCovers DEF Allocate, Record
<1>15. ProgramPairs'
  BY <1>1, <1>5, <1>4 DEF IInv, ProgramPairs, FromFile, Assigned
<1>16. QED
  BY <1>7, <1>8, <1>9, <1>10, <1>11, <1>12, <1>13, <1>14, <1>15 DEF IInv

\* Every turn of the loop, every return and every change of the settings
\* keeps the invariant.
THEOREM NextIInv == IInv /\ [Next]_vars => IInv'
<1> SUFFICES ASSUME IInv, [Next]_vars PROVE IInv'
  OBVIOUS
<1> USE PlannerAssumption
<1>1. ASSUME NEW ns \in NodeLists, BeginPlan(ns)
      PROVE  IInv'
  <2>1. /\ UsedAtStart(ns) \in [Protos -> SUBSET (Nat \ {0})]
        /\ \A k \in Protos : UsedAtStart(ns)[k] = balancer[k] \cup AssignedPorts(k)
    BY UsedAtStartType DEF IInv
  <2>2. UNCHANGED <<start, balancer, assignments, found, Assigned, FromFile>>
        /\ \A k \in Protos : AssignedPorts(k)' = AssignedPorts(k)
    BY <1>1 DEF BeginPlan, settings, Assigned, AssignedPorts, FromFile
  <2>3. TypeOK'
    BY <1>1, <2>1 DEF BeginPlan, settings, IInv, TypeOK, Ports
  <2>4. UsedExact'
    BY <1>1, <2>1, <2>2 DEF BeginPlan, UsedExact
  <2>5. CursorInv'
    <3>1. \A k \in Protos : start[k] \in Nat /\ cursor'[k] = start[k]
      BY <1>1 DEF BeginPlan, IInv, TypeOK, Ports
    <3>2. QED
      BY <1>1, <2>2, <3>1 DEF CursorInv
  <2>6. ProgramPairs' /\ DistinctRecorded'
    BY <2>2 DEF IInv, ProgramPairs, DistinctRecorded
  <2>7. ExhaustionIsReal' /\ NoResultYet'
    BY <1>1 DEF BeginPlan, ExhaustionIsReal, NoResultYet
  <2>8. OutAgrees'
    BY <1>1 DEF BeginPlan, OutAgrees
  <2>9. Covered'
    <3>1. /\ pc' = "loop" /\ i' = 1 /\ out' = <<>> /\ result' = "none"
          /\ nodes' \in Seq(Tags)
      BY <1>1 DEF BeginPlan
    <3>2. DOMAIN out' = {} /\ i' - 1 = 0 /\ i' <= Len(nodes') + 1
      BY <3>1
    <3>3. \E h \in [DOMAIN out' -> 1..(i' - 1)] :
             /\ \A n \in DOMAIN out' : out'[n].tag = nodes'[h[n]]
             /\ \A n, l \in DOMAIN out' : n < l => h[n] < h[l]
             /\ \A j \in 1..(i' - 1) :
                   nodes'[j] \notin AutoTags <=> \E n \in DOMAIN out' : h[n] = j
      <4> DEFINE e == [n \in DOMAIN out' |-> 0]
      <4>1. e \in [DOMAIN out' -> 1..(i' - 1)]
        BY <3>2
      <4>2. \A j \in 1..(i' - 1) : FALSE
        BY <3>2
      <4> QED
        BY <3>2, <4>1, <4>2
    <3> QED
      BY <3>1, <3>2, <3>3, Zenon DEF Covered, InOrder
  <2>10. QED
    BY <2>3, <2>4, <2>5, <2>6, <2>7, <2>8, <2>9 DEF IInv
<1>2. CASE SkipAuto
  <2>1. UNCHANGED <<start, balancer, assignments, found, pc, used, cursor, out, result>>
    BY <1>2 DEF SkipAuto, settings
  <2>2. TypeOK'
    BY <1>2, <2>1 DEF SkipAuto, IInv, TypeOK
  <2>3. Covered'
    <3>1. /\ i \in 1..Len(nodes) /\ i' = i + 1
          /\ nodes[i] \in AutoTags
          /\ result' = "none"
          /\ UNCHANGED nodes
      BY <1>2 DEF SkipAuto, InLoop, IInv, TypeOK, NoResultYet
    <3>2. PICK f \in [DOMAIN out -> 1..(i - 1)] : InOrder(f, i - 1)
      BY <1>2 DEF SkipAuto, InLoop, IInv, Covered
    <3>3. f \in [DOMAIN out -> 1..i] /\ \A n \in DOMAIN out : f[n] # i
      BY <3>1, <3>2
    <3>4. \A j \in 1..i : nodes[j] \notin AutoTags <=> \E n \in DOMAIN out : f[n] = j
      <4> SUFFICES ASSUME NEW j \in 1..i
                   PROVE  nodes[j] \notin AutoTags <=> \E n \in DOMAIN out : f[n] = j
        OBVIOUS
      <4>1. CASE j = i
        BY <3>1, <3>3, <4>1
      <4>2. CASE j # i
        <5>1. j \in 1..(i - 1)
          BY <3>1, <4>2
        <5> QED
          BY <3>2, <5>1 DEF InOrder
      <4> QED
        BY <4>1, <4>2
    <3>5. i' - 1 = i /\ i' <= Len(nodes) + 1
      BY <3>1
    <3>6. \E h \in [DOMAIN out' -> 1..i] :
             /\ \A n \in DOMAIN out' : out'[n].tag = nodes'[h[n]]
             /\ \A n, l \in DOMAIN out' : n < l => h[n] < h[l]
             /\ \A j \in 1..i : nodes'[j] \notin AutoTags <=> \E n \in DOMAIN out' : h[n] = j
      BY <2>1, <3>1, <3>2, <3>3, <3>4 DEF InOrder
    <3> QED
      BY <3>1, <3>5, <3>6 DEF Covered, InOrder
  <2>4. QED
    BY <2>1, <2>2, <2>3 DEF IInv, NoResultYet, UsedExact, CursorInv, ProgramPairs,
       DistinctRecorded, ExhaustionIsReal, OutAgrees, AssignedPorts, Assigned, FromFile
<1>3. CASE Reuse
  <2>1. UNCHANGED <<start, balancer, assignments, found, pc, used, cursor, result>>
    BY <1>3 DEF Reuse, settings
  <2>2. /\ out \in Seq([tag : Tags, ports : Parsed])
        /\ nodes[i] \in Assigned
        /\ out' = Append(out, [tag |-> nodes[i], ports |-> assignments[nodes[i]]])
    BY <1>3 DEF Reuse, IInv, TypeOK
  <2>3. nodes[i] \in Tags /\ assignments[nodes[i]] \in Parsed
    BY <2>2 DEF Assigned
  <2>4. TypeOK'
    BY <1>3, <2>1, <2>2, <2>3 DEF Reuse, IInv, TypeOK
  <2>5. OutAgrees'
    BY <2>1, <2>2, <2>3 DEF IInv, OutAgrees, Assigned
  <2>6. Covered'
    BY <1>3, <2>2, <2>3, EntryCovers DEF Reuse
  <2>7. QED
    BY <2>1, <2>4, <2>5, <2>6 DEF IInv, NoResultYet, UsedExact, CursorInv, ProgramPairs,
       DistinctRecorded, ExhaustionIsReal, AssignedPorts, Assigned, FromFile
<1>4. CASE Allocate
  BY <1>4, AllocateIInv
<1>5. CASE FailExhausted
  <2>1. UNCHANGED <<start, balancer, assignments, found>> /\ pc' = "idle" /\ out' = <<>>
    BY <1>5 DEF FailExhausted, Return, settings
  <2>2. TypeOK'
    BY <1>5, <2>1 DEF FailExhausted, Return, IInv, TypeOK, Ports
  <2>3. ExhaustionIsReal'
    <3>1. PICK k \in Protos : \A p \in cursor[k]..MaxPort : p \in used[k]
      BY <1>5 DEF FailExhausted, Exhausted
    <3>2. /\ \A p \in start[k]..(cursor[k] - 1) : p \in used[k]
          /\ used[k] = balancer[k] \cup AssignedPorts(k)
          /\ start[k] \in 1..MaxPort /\ cursor[k] \in 1..(MaxPort + 1)
      BY <1>5 DEF FailExhausted, InLoop, IInv, CursorInv, UsedExact, TypeOK, Ports
    <3>3. \A p \in start[k]..MaxPort : p \in balancer[k] \cup AssignedPorts(k)
      BY <3>1, <3>2
    <3>4. QED
      BY <2>1, <3>3 DEF ExhaustionIsReal, AssignedPorts, Assigned
  <2>4. Covered'
    BY <1>5 DEF FailExhausted, Return, Covered
  <2>5. QED
    BY <2>1, <2>2, <2>3, <2>4 DEF IInv, NoResultYet, UsedExact, CursorInv, ProgramPairs,
       DistinctRecorded, OutAgrees, Assigned, FromFile
<1>6. CASE Finish
  <2>1. UNCHANGED <<start, balancer, assignments, found, out>> /\ pc' = "idle" /\ result' = "ok"
    BY <1>6 DEF Finish, Return, settings
  <2>2. TypeOK'
    BY <1>6, <2>1 DEF Finish, Return, IInv, TypeOK, Ports
  <2>3. Covered'
    <3>1. /\ nodes \in Seq(Tags) /\ i \in Nat \ {0} /\ i \notin DOMAIN nodes
          /\ i <= Len(nodes) + 1
          /\ UNCHANGED nodes
      BY <1>6 DEF Finish, IInv, TypeOK, Covered
    <3>2. i - 1 = Len(nodes) /\ DOMAIN nodes = 1..Len(nodes)
      BY <3>1
    <3>3. \E f \in [DOMAIN out -> DOMAIN nodes] : InOrder(f, Len(nodes))
      BY <1>6, <3>2 DEF Finish, IInv, Covered
    <3> QED
      BY <2>1, <3>1, <3>3 DEF Covered, InOrder
  <2>4. QED
    BY <2>1, <2>2, <2>3 DEF IInv, NoResultYet, UsedExact, CursorInv, ProgramPairs,
       DistinctRecorded, ExhaustionIsReal, OutAgrees, Assigned, FromFile
<1>7. ASSUME NEW s \in Starts, NEW b \in Balancers, ApplyPorts(s, b)
      PROVE  IInv'
  <2>1. pc' = "idle" /\ result' = "none" /\ UNCHANGED <<assignments, found>>
    BY <1>7 DEF ApplyPorts
  <2>2. TypeOK'
    BY <1>7 DEF ApplyPorts, IInv, TypeOK
  <2>3. Covered'
    BY <2>1 DEF Covered
  <2>4. QED
    BY <1>7, <2>1, <2>2, <2>3 DEF ApplyPorts, IInv, NoResultYet, UsedExact, CursorInv,
       ProgramPairs, DistinctRecorded, ExhaustionIsReal, OutAgrees, Assigned, FromFile
<1>8. CASE UNCHANGED vars
  <2>1. UNCHANGED <<start, balancer, assignments, found, pc, nodes, i, used, cursor, out,
                  result>>
    BY <1>8 DEF vars, settings
  <2>2. Covered'
    <3>1. Covered
      BY DEF IInv
    <3>2. pc = "loop" => /\ i <= Len(nodes) + 1
                         /\ \E f \in [DOMAIN out -> 1..(i - 1)] : InOrder(f, i - 1)
      BY <3>1 DEF Covered
    <3>3. pc' = "loop" =>
             /\ i' <= Len(nodes') + 1
             /\ \E f \in [DOMAIN out' -> 1..(i' - 1)] :
                   /\ \A n \in DOMAIN out' : out'[n].tag = nodes'[f[n]]
                   /\ \A n, l \in DOMAIN out' : n < l => f[n] < f[l]
                   /\ \A j \in 1..(i' - 1) :
                         nodes'[j] \notin AutoTags <=> \E n \in DOMAIN out' : f[n] = j
      BY <2>1, <3>2 DEF InOrder
    <3>4. result' = "ok" =>
             \E f \in [DOMAIN out' -> DOMAIN nodes'] :
                /\ \A n \in DOMAIN out' : out'[n].tag = nodes'[f[n]]
                /\ \A n, l \in DOMAIN out' : n < l => f[n] < f[l]
                /\ \A j \in 1..Len(nodes') :
                      nodes'[j] \notin AutoTags <=> \E n \in DOMAIN out' : f[n] = j
      BY <2>1, <3>1 DEF Covered, InOrder
    <3> QED
      BY <3>3, <3>4, Zenon DEF Covered, InOrder
  <2> QED
    BY <2>1, <2>2 DEF IInv, TypeOK, NoResultYet, UsedExact, CursorInv, ProgramPairs,
       DistinctRecorded, ExhaustionIsReal, OutAgrees, AssignedPorts, Assigned, FromFile
<1>9. QED
  BY <1>1, <1>2, <1>3, <1>4, <1>5, <1>6, <1>7, <1>8 DEF Next

\* The inductive invariant holds throughout.
THEOREM SpecIInv == Spec => []IInv
  BY InitIInv, NextIInv, PTL DEF Spec

\* The planner's variables and the settings it writes keep their types.
THEOREM PlannerTypeOK == Spec => []TypeOK
<1>1. IInv => TypeOK
  BY DEF IInv
<1>2. QED
  BY <1>1, SpecIInv, PTL

\* A port that there is is listened on as it is.
LEMMA ListensOnPorts ==
  ASSUME NEW p \in Nat, p <= MaxPort
  PROVE  ListenPort(p) = p
<1>1. ASSUME NEW n \in Nat, NEW q \in Nat, q < n
      PROVE  q % n = q
  BY <1>1
<1>2. p < MaxPort + 1 /\ MaxPort + 1 \in Nat
  BY PlannerAssumption
<1> QED
  BY <1>1, <1>2 DEF ListenPort

\* Two tags listen on one port of a protocol only by the doing of the file.
THEOREM PlannerDistinctPorts == Spec => []DistinctPorts
<1>1. IInv => DistinctPorts
  <2> SUFFICES ASSUME IInv, NEW t \in Assigned, NEW u \in Assigned, NEW k \in Protos,
                      ListenPort(assignments[t][k]) = ListenPort(assignments[u][k]),
                      \A v \in {t, u} \cap FromFile : ~(assignments[v][k] > MaxPort)
               PROVE  t = u \/ {t, u} \subseteq FromFile
    BY DEF DistinctPorts
  <2>1. \A v \in {t, u} : assignments[v][k] \in Nat
    BY DEF Assigned, Parsed
  <2>2. \A v \in {t, u} \ FromFile : assignments[v][k] \in Ports
    BY DEF IInv, ProgramPairs, Pairs
  <2>3. \A v \in {t, u} : assignments[v][k] <= MaxPort
    BY <2>1, <2>2, PlannerAssumption DEF Ports
  <2>4. assignments[t][k] = assignments[u][k]
    BY <2>1, <2>3, ListensOnPorts
  <2> QED
    BY <2>4 DEF IInv, DistinctRecorded
<1>2. QED
  BY <1>1, SpecIInv, PTL

\* Plan reports exhaustion only when a range has no free port.
THEOREM PlannerExhaustionIsReal == Spec => []ExhaustionIsReal
<1>1. IInv => ExhaustionIsReal
  BY DEF IInv
<1>2. QED
  BY <1>1, SpecIInv, PTL

\* A successful run returns an entry for every node that is not an auto node,
\* in order, and what the settings record for it.
THEOREM PlannerCoversNodes == Spec => []PlanCoversNodes
<1>1. IInv => PlanCoversNodes
  BY DEF IInv, Covered, OutAgrees, PlanCoversNodes
<1>2. QED
  BY <1>1, SpecIInv, PTL

\* On what Plan returns DetectConflicts reports no two different nodes.
THEOREM PlannerConflicts == Spec => []ConflictsOnlyWithBalancer
<1>1. IInv => ConflictsOnlyWithBalancer
  <2> SUFFICES ASSUME IInv, NEW n \in DOMAIN out, NEW k \in Protos, NEW m \in 1..(n - 1),
                      out[m].ports[k] = out[n].ports[k]
               PROVE  \/ out[m].tag = out[n].tag
                      \/ {out[m].tag, out[n].tag} \subseteq FromFile
    BY DEF ConflictsOnlyWithBalancer, DetectConflicts
  <2>1. m \in DOMAIN out
    BY DEF IInv, TypeOK
  <2>2. /\ out[m].tag \in Assigned /\ out[m].ports = assignments[out[m].tag]
        /\ out[n].tag \in Assigned /\ out[n].ports = assignments[out[n].tag]
    BY <2>1 DEF IInv, OutAgrees
  <2> QED
    BY <2>2 DEF IInv, DistinctRecorded
<1>2. QED
  BY <1>1, SpecIInv, PTL

\* A recorded pair is never changed or dropped.
THEOREM PlannerStablePorts == Spec => StablePorts
<1>1. IInv /\ [Next]_vars => [\A t \in Assigned : assignments'[t] = assignments[t]]_vars
  <2> SUFFICES ASSUME IInv, [Next]_vars, NEW t \in Assigned
               PROVE  assignments'[t] = assignments[t]
    OBVIOUS
  <2>1. CASE Allocate
    <3>1. PICK pair \in Pairs : Record(nodes[i], pair)
      BY <2>1 DEF Allocate
    <3>2. nodes[i] # t
      BY <2>1 DEF Allocate
    <3>3. QED
      BY <3>1, <3>2 DEF Record, IInv, TypeOK, Assigned
  <2>2. CASE ~Allocate
    BY <2>2 DEF Next, vars, settings, BeginPlan, SkipAuto, Reuse, FailExhausted, Finish,
       ApplyPorts, Return
  <2>3. QED
    BY <2>1, <2>2
<1>2. QED
  BY <1>1, SpecIInv, PTL DEF Spec, StablePorts

\* A pair is recorded only within the ranges and off the balancer's ports.
THEOREM PlannerNewPortsInRange == Spec => NewPortsInRange
<1> DEFINE Fresh ==
      \A t \in Tags : assignments'[t] # assignments[t] =>
          \A k \in Protos :
              /\ assignments'[t][k] \in start'[k]..MaxPort
              /\ assignments'[t][k] \notin balancer'[k]
<1>1. IInv /\ [Next]_vars => [Fresh]_vars
  <2> SUFFICES ASSUME IInv, [Next]_vars, NEW t \in Tags,
                      assignments'[t] # assignments[t], NEW k \in Protos
               PROVE  /\ assignments'[t][k] \in start'[k]..MaxPort
                      /\ assignments'[t][k] \notin balancer'[k]
    OBVIOUS
  <2>1. Allocate
    BY DEF Next, vars, settings, BeginPlan, SkipAuto, Reuse, FailExhausted, Finish,
       ApplyPorts, Return
  <2>2. PICK pair \in Pairs : /\ \A m \in Protos : IsNextFree(pair[m], m)
                              /\ Record(nodes[i], pair)
    BY <2>1 DEF Allocate
  <2>3. assignments'[t] = pair
    BY <2>2 DEF Record, IInv, TypeOK
  <2>4. start' = start /\ balancer' = balancer
    BY <2>1 DEF Allocate
  <2>5. pair[k] \in cursor[k]..MaxPort /\ pair[k] \notin balancer[k]
    BY <2>1, <2>2 DEF IsNextFree, Allocate, InLoop, IInv, UsedExact
  <2>6. /\ start[k] <= cursor[k]
        /\ start[k] \in 1..MaxPort /\ cursor[k] \in 1..(MaxPort + 1)
    BY <2>1, PlannerAssumption DEF Allocate, InLoop, IInv, CursorInv, TypeOK, Ports
  <2>7. QED
    BY <2>3, <2>4, <2>5, <2>6
<1>2. QED
  BY <1>1, SpecIInv, PTL DEF Spec, NewPortsInRange, Fresh

-----------------------------------------------------------------------------
(* The operators the model states by what they return                      *)

\* Every set of naturals that is not empty has a least element.
LEMMA LeastNat ==
  ASSUME NEW S \in SUBSET Nat, S # {}
  PROVE  \E n \in S : \A m \in S : n <= m
<1> DEFINE Less == {ss \in Nat \X Nat : ss[1] < ss[2]}
<1>1. PICK n \in S : \A m \in S : ~ (<<m, n>> \in Less)
  <2>1. IsWellFoundedOn(Less, Nat)
    BY NatLessThanWellFounded, Zenon DEF OpToRel
  <2> QED
    BY <2>1, WFMin
<1>2. \A m \in S : n <= m
  <2> SUFFICES ASSUME NEW m \in S PROVE n <= m
    OBVIOUS
  <2>1. m < n => <<m, n>> \in Less
    OBVIOUS
  <2> QED
    BY <1>1, <2>1
<1> HIDE DEF Less
<1> QED
  BY <1>2

\* The first place that has the value of place n, if an earlier one has.
LEMMA FirstWithValue ==
  ASSUME NEW val, NEW n \in Nat, NEW m \in 1..(n - 1), val[m] = val[n]
  PROVE  \E l \in 1..(n - 1) : /\ val[l] = val[n]
                                /\ \A j \in 1..(l - 1) : val[j] # val[n]
<1> DEFINE same == {l \in 1..(n - 1) : val[l] = val[n]}
<1>1. same \in SUBSET Nat /\ same # {}
  OBVIOUS
<1>2. PICK l \in same : \A j \in same : l <= j
  <2> HIDE DEF same
  <2> QED
    BY <1>1, LeastNat
<1>3. \A j \in 1..(l - 1) : j \notin same /\ j \in 1..(n - 1)
  BY <1>1, <1>2
<1> QED
  BY <1>2, <1>3

\* In each turn of the loop nextFree has exactly one answer: a port, which is
\* the only one with that description, or that the range is exhausted.
NextFreeDecides ==
    pc = "loop" =>
        \A k \in Protos :
            /\ Exhausted(k) <=> ~ \E p \in Ports : IsNextFree(p, k)
            /\ \A p, q \in Ports : IsNextFree(p, k) /\ IsNextFree(q, k) => p = q

\* So Allocate, which is stated by what nextFree returns, takes the one step
\* the code takes, and a node that needs ports never finds the loop stuck.
THEOREM PlannerNextFreeDecides == Spec => []NextFreeDecides
<1>1. ASSUME IInv, NEW k \in Protos
      PROVE  /\ Exhausted(k) <=> ~ \E p \in Ports : IsNextFree(p, k)
             /\ \A p, q \in Ports : IsNextFree(p, k) /\ IsNextFree(q, k) => p = q
  <2>1. cursor[k] \in Nat \ {0} /\ MaxPort \in Nat
    BY <1>1, PlannerAssumption DEF IInv, TypeOK
  <2>2. \A p, q \in Ports : IsNextFree(p, k) /\ IsNextFree(q, k) => p = q
    BY <2>1 DEF IsNextFree, Ports
  <2>3. Exhausted(k) => ~ \E p \in Ports : IsNextFree(p, k)
    BY DEF Exhausted, IsNextFree
  <2>4. ASSUME ~Exhausted(k)
        PROVE  \E p \in Ports : IsNextFree(p, k)
    <3> DEFINE free == {p \in cursor[k]..MaxPort : p \notin used[k]}
    <3>1. free \in SUBSET Nat /\ free # {}
      BY <2>1, <2>4 DEF Exhausted
    <3>2. PICK p \in free : \A q \in free : p <= q
      <4> HIDE DEF free
      <4> QED
        BY <3>1, LeastNat
    <3>3. p \in Ports /\ \A q \in cursor[k]..(p - 1) : q \in used[k]
      BY <2>1, <3>2 DEF Ports
    <3> QED
      BY <3>2, <3>3 DEF IsNextFree
  <2> QED
    BY <2>2, <2>3, <2>4
<1>2. IInv => NextFreeDecides
  BY <1>1 DEF NextFreeDecides
<1> QED
  BY <1>2, SpecIInv, PTL

\* The places of a sequence, those before one of them, and what is there.
LEMMA Places ==
  ASSUME NEW S, NEW seq \in Seq(S)
  PROVE  \A n \in DOMAIN seq :
             /\ n \in Nat /\ seq[n] \in S
             /\ \A m : m \in 1..(n - 1) <=> m \in DOMAIN seq /\ m < n
<1>1. Len(seq) \in Nat /\ DOMAIN seq = 1..Len(seq)
  OBVIOUS
<1>2. \A n \in DOMAIN seq : n \in 1..Len(seq) /\ n \in Nat /\ seq[n] \in S
  BY <1>1
<1>3. ASSUME NEW n \in DOMAIN seq, NEW m, m \in DOMAIN seq
      PROVE  m \in Nat \ {0}
  BY <1>1, <1>3
<1>4. ASSUME NEW n \in DOMAIN seq, NEW m \in 1..(n - 1)
      PROVE  m \in DOMAIN seq /\ m < n
  BY <1>1, <1>2
<1>5. ASSUME NEW n \in DOMAIN seq, NEW m \in DOMAIN seq, m < n
      PROVE  m \in 1..(n - 1)
  BY <1>1, <1>2, <1>5
<1> QED
  BY <1>2, <1>4, <1>5

\* DetectConflicts is silent exactly when no entry has a port of the
\* balancer's and no two entries share one of a protocol.
THEOREM DetectConflictsIsExact ==
  ASSUME NEW S, NEW plan \in Seq(S), NEW bp
  PROVE  DetectConflicts(plan, bp) = {} <=>
             \A n \in DOMAIN plan, k \in Protos :
                 /\ plan[n].ports[k] \notin bp["socks"] \cup bp["http"]
                 /\ \A m \in DOMAIN plan \ {n} : plan[m].ports[k] # plan[n].ports[k]
<1> DEFINE fixed == bp["socks"] \cup bp["http"]
           firsts(n, k) == {m \in 1..(n - 1) :
                               /\ plan[m].ports[k] = plan[n].ports[k]
                               /\ \A l \in 1..(m - 1) : plan[l].ports[k] # plan[n].ports[k]}
           owners(n, k) == IF plan[n].ports[k] \in fixed THEN {BalancerOwner}
                           ELSE {plan[m].tag : m \in firsts(n, k)}
           conflicts(n, k) == {[proto |-> k, port |-> plan[n].ports[k],
                                tag |-> plan[n].tag, owner |-> o] : o \in owners(n, k)}
<1>1. DetectConflicts(plan, bp) = UNION {conflicts(n, k) : n \in DOMAIN plan, k \in Protos}
  BY DEF DetectConflicts
<1>2. \A n \in DOMAIN plan, k \in Protos : conflicts(n, k) = {} <=> owners(n, k) = {}
  <2> HIDE DEF owners
  <2> QED
    OBVIOUS
<1>3. DetectConflicts(plan, bp) = {} <=>
          \A n \in DOMAIN plan, k \in Protos : owners(n, k) = {}
  <2> HIDE DEF conflicts, owners
  <2>1. UNION {conflicts(n, k) : n \in DOMAIN plan, k \in Protos} = {} <=>
            \A n \in DOMAIN plan, k \in Protos : conflicts(n, k) = {}
    OBVIOUS
  <2> QED
    BY <1>1, <1>2, <2>1
<1>4. ASSUME NEW n \in DOMAIN plan, NEW k \in Protos
      PROVE  owners(n, k) = {} <=>
                 /\ plan[n].ports[k] \notin fixed
                 /\ \A m \in 1..(n - 1) : plan[m].ports[k] # plan[n].ports[k]
  <2>1. owners(n, k) = {} <=> plan[n].ports[k] \notin fixed /\ firsts(n, k) = {}
    <3> HIDE DEF firsts, fixed
    <3> QED
      OBVIOUS
  <2>2. ASSUME NEW m \in 1..(n - 1), plan[m].ports[k] = plan[n].ports[k]
        PROVE  firsts(n, k) # {}
    <3> DEFINE val == [l \in DOMAIN plan |-> plan[l].ports[k]]
    <3>1. n \in Nat /\ \A l \in 1..(n - 1) : l \in DOMAIN plan /\ l \in Nat /\ l < n
      BY Places
    <3>2. /\ val[n] = plan[n].ports[k]
          /\ \A l \in 1..(n - 1) : val[l] = plan[l].ports[k]
      BY <3>1
    <3>3. val[m] = val[n]
      BY <2>2, <3>2
    <3> HIDE DEF val
    <3>4. PICK l \in 1..(n - 1) : /\ val[l] = val[n]
                                   /\ \A j \in 1..(l - 1) : val[j] # val[n]
      BY <3>1, <3>3, FirstWithValue
    <3>5. \A j \in 1..(l - 1) : j \in 1..(n - 1)
      BY <3>1
    <3> QED
      BY <3>2, <3>4, <3>5
  <2>3. (\A m \in 1..(n - 1) : plan[m].ports[k] # plan[n].ports[k]) => firsts(n, k) = {}
    OBVIOUS
  <2> HIDE DEF firsts, owners, fixed
  <2> QED
    BY <2>1, <2>2, <2>3
<1>5. ASSUME NEW k \in Protos
      PROVE  (\A n \in DOMAIN plan :
                  \A m \in DOMAIN plan \ {n} : plan[m].ports[k] # plan[n].ports[k]) <=>
             (\A n \in DOMAIN plan :
                  \A m \in 1..(n - 1) : plan[m].ports[k] # plan[n].ports[k])
  <2>1. \A n, m \in DOMAIN plan : n \in Nat /\ m \in Nat
    BY Places
  <2>2. \A n, m \in DOMAIN plan : m = n \/ m < n \/ n < m
    BY <2>1
  <2>3. \A n, m \in DOMAIN plan : m = n \/ m \in 1..(n - 1) \/ n \in 1..(m - 1)
    BY <2>2, Places
  <2>4. \A n \in DOMAIN plan : \A m \in 1..(n - 1) : m \in DOMAIN plan /\ m < n
    BY Places
  <2>5. \A n \in DOMAIN plan : \A m \in 1..(n - 1) : m \in DOMAIN plan \ {n}
    BY <2>1, <2>4
  <2> QED
    BY <2>3, <2>5
<1> HIDE DEF fixed, owners
<1> QED
  BY <1>3, <1>4, <1>5 DEF fixed

\* What Pipeline takes Plan to return: entries for the tags of the listed
\* nodes, all of them and no others.
THEOREM PlannerAnswersPipeline ==
  Spec => [](result = "ok" =>
                {out[n].tag : n \in DOMAIN out}
                  = {nodes[j] : j \in {l \in DOMAIN nodes : nodes[l] \notin AutoTags}})
<1>1. IInv /\ result = "ok" =>
          {out[n].tag : n \in DOMAIN out}
            = {nodes[j] : j \in {l \in DOMAIN nodes : nodes[l] \notin AutoTags}}
  <2> SUFFICES ASSUME IInv, result = "ok"
               PROVE  {out[n].tag : n \in DOMAIN out}
                        = {nodes[j] : j \in {l \in DOMAIN nodes : nodes[l] \notin AutoTags}}
    OBVIOUS
  <2>1. PICK f \in [DOMAIN out -> DOMAIN nodes] : InOrder(f, Len(nodes))
    BY DEF IInv, Covered
  <2>2. DOMAIN nodes = 1..Len(nodes)
    BY DEF IInv, TypeOK
  <2>3. \A n \in DOMAIN out : out[n].tag = nodes[f[n]] /\ nodes[f[n]] \notin AutoTags
    BY <2>1, <2>2 DEF InOrder
  <2>4. \A j \in DOMAIN nodes : nodes[j] \notin AutoTags => \E n \in DOMAIN out : f[n] = j
    BY <2>1, <2>2 DEF InOrder
  <2> QED
    BY <2>3, <2>4
<1> QED
  BY <1>1, SpecIInv, PTL

-----------------------------------------------------------------------------
(* Planner keeps the promises of PortMap                                   *)

\* Seen through the mapping, a tag has ports when its string parses, and the
\* ports taken are the ones Plan reserves.
LEMMA MappedAssigned ==
  ASSUME TypeOK
  PROVE  /\ Recorded \in [Tags -> Parsed \cup {Absent}]
         /\ Promised!Mapped = Assigned
         /\ \A t \in Assigned : Recorded[t] = assignments[t]
         /\ \A k \in Protos : Promised!Taken(k) = balancer[k] \cup AssignedPorts(k)
<1>1. /\ Recorded \in [Tags -> Parsed \cup {Absent}]
      /\ \A t \in Assigned : Recorded[t] = assignments[t]
      /\ \A t \in Tags : Recorded[t] # Absent <=> t \in Assigned
  BY PlannerAssumption DEF Recorded, Assigned
<1>2. Promised!Mapped = Assigned
  BY <1>1 DEF Promised!Mapped, Assigned
<1>3. \A k \in Protos : Promised!Taken(k) = balancer[k] \cup AssignedPorts(k)
  BY <1>1, <1>2 DEF Promised!Taken, AssignedPorts
<1> QED
  BY <1>1, <1>2, <1>3

\* The program's initial states map to initial states.
LEMMA InitPromised == Init => Promised!MapInit
<1> SUFFICES ASSUME Init PROVE Promised!MapInit
  OBVIOUS
<1>1. TypeOK
  BY InitIInv DEF IInv
<1>2. Sought = {} /\ Answer = "none" /\ Entries = {}
  BY DEF Init, Sought, Answer, Entries
<1> QED
  BY <1>1, <1>2, MappedAssigned DEF Init, Promised!MapInit, Parsed

\* A step that leaves the settings and the answer alone, and ends no run, is
\* one no caller can see.
LEMMA Unseen ==
  ASSUME UNCHANGED <<settings, pc, nodes, result>>, result # "ok"
  PROVE  UNCHANGED Promised!mapVars
<1>1. UNCHANGED <<start, balancer, assignments>>
  BY DEF settings
<1>2. UNCHANGED <<Recorded, Sought, Answer, Entries>>
  BY <1>1 DEF Recorded, Assigned, Sought, Listed, Answer, Entries
<1> QED
  BY <1>1, <1>2 DEF Promised!mapVars

\* When the loop has passed every node, its entries are the recorded ports of
\* the wanted tags.
LEMMA EntriesAreWanted ==
  ASSUME IInv, pc = "loop", i \notin DOMAIN nodes
  PROVE  /\ Listed \subseteq Assigned
         /\ {out[n] : n \in DOMAIN out} = {[tag |-> t, ports |-> assignments[t]] : t \in Listed}
<1>1. nodes \in Seq(Tags) /\ DOMAIN nodes = 1..Len(nodes) /\ i = Len(nodes) + 1
  BY DEF IInv, TypeOK, Covered
<1>2. PICK f \in [DOMAIN out -> 1..(i - 1)] : InOrder(f, i - 1)
  BY DEF IInv, Covered
<1>3. \A n \in DOMAIN out : f[n] \in DOMAIN nodes /\ out[n].tag = nodes[f[n]]
                            /\ nodes[f[n]] \notin AutoTags
  BY <1>1, <1>2 DEF InOrder
<1>4. \A j \in DOMAIN nodes : nodes[j] \notin AutoTags => \E n \in DOMAIN out : f[n] = j
  BY <1>1, <1>2 DEF InOrder
<1>5. \A t \in Listed : \E n \in DOMAIN out : out[n].tag = t
  BY <1>3, <1>4 DEF Listed
<1>6. \A n \in DOMAIN out : out[n].tag \in Listed
  BY <1>3 DEF Listed
<1>7. \A n \in DOMAIN out : /\ out[n].tag \in Assigned
                            /\ out[n] = [tag |-> out[n].tag, ports |-> assignments[out[n].tag]]
  <2>1. \A n \in DOMAIN out : out[n] \in [tag : Tags, ports : Parsed]
    <3>1. out \in Seq([tag : Tags, ports : Parsed])
      BY DEF IInv, TypeOK
    <3> QED
      BY <3>1, Places
  <2> QED
    BY <2>1 DEF IInv, OutAgrees
<1> QED
  BY <1>5, <1>6, <1>7

\* Every step of Planner is a step of PortMap or one no caller can see.
LEMMA StepPromised == IInv /\ [Next]_vars => [Promised!MapNext]_(Promised!mapVars)
<1> SUFFICES ASSUME IInv, [Next]_vars
             PROVE  Promised!MapNext \/ UNCHANGED Promised!mapVars
  OBVIOUS
<1>0. TypeOK /\ TypeOK'
  BY NextIInv DEF IInv
<1>1. ASSUME NEW ns \in NodeLists, BeginPlan(ns)
      PROVE  Promised!MapNext
  <2>1. Listed' \in SUBSET Tags
    BY <1>0 DEF Listed, TypeOK
  <2>2. /\ UNCHANGED <<start, balancer, Recorded>>
        /\ Sought' = Listed' /\ Answer # "awaited" /\ Answer' = "awaited" /\ Entries' = {}
    BY <1>0, <1>1 DEF BeginPlan, settings, Recorded, Assigned, Sought, Answer, Entries, TypeOK
  <2>3. Promised!Ask(Listed')
    BY <2>2 DEF Promised!Ask
  <2> QED
    BY <2>1, <2>3 DEF Promised!MapNext
<1>2. CASE SkipAuto \/ Reuse
  BY <1>2, Unseen DEF SkipAuto, Reuse, InLoop, IInv, NoResultYet, settings
<1>3. CASE Allocate
  <2>1. PICK pair \in Pairs : /\ \A k \in Protos : IsNextFree(pair[k], k)
                              /\ Record(nodes[i], pair)
    BY <1>3 DEF Allocate
  <2>2. /\ nodes[i] \in Listed \ Assigned /\ nodes[i] \in Tags
        /\ pc = "loop" /\ result = "none" /\ pair \in Parsed
        /\ UNCHANGED <<start, balancer, pc, nodes, result>>
    BY <1>0, <1>3 DEF Allocate, InLoop, Listed, IInv, NoResultYet, TypeOK, Pairs, Parsed, Ports
  <2>3. \A k \in Protos : pair[k] >= start[k] /\ pair[k] \notin Promised!Taken(k)
    <3>1. \A k \in Protos : pair[k] >= cursor[k] /\ pair[k] \notin used[k]
      BY <2>1 DEF IsNextFree
    <3>2. \A k \in Protos : start[k] <= cursor[k] /\ used[k] = balancer[k] \cup AssignedPorts(k)
      BY <2>2 DEF IInv, CursorInv, UsedExact
    <3>3. \A k \in Protos : start[k] \in Nat /\ cursor[k] \in Nat /\ pair[k] \in Nat
      BY <1>0, PlannerAssumption DEF TypeOK, Ports, Pairs
    <3> QED
      BY <1>0, <3>1, <3>2, <3>3, MappedAssigned
  <2>4. assignments' = [assignments EXCEPT ![nodes[i]] = pair]
    BY <2>1 DEF Record
  <2>5. Recorded' = [Recorded EXCEPT ![nodes[i]] = pair]
    <3>1. /\ Assigned' = Assigned \cup {nodes[i]}
          /\ assignments'[nodes[i]] = pair
          /\ \A u \in Tags \ {nodes[i]} : assignments'[u] = assignments[u]
      BY <1>0, <2>2, <2>4, RecordAdds
    <3> QED
      BY <3>1 DEF Recorded
  <2>6. /\ UNCHANGED <<Sought, Answer, Entries>>
        /\ Sought = Listed /\ Answer = "awaited"
    BY <2>2 DEF Sought, Listed, Answer, Entries
  <2>7. Promised!Give(nodes[i], pair)
    BY <1>0, <2>2, <2>3, <2>5, <2>6, MappedAssigned DEF Promised!Give
  <2> QED
    BY <2>2, <2>6, <2>7 DEF Promised!MapNext, Pairs, Ports
<1>4. CASE FailExhausted
  <2>1. /\ UNCHANGED <<start, balancer, Recorded>>
        /\ Sought = Listed /\ Sought' = {} /\ Answer = "awaited" /\ Answer' = "exhausted"
        /\ Entries = {} /\ Entries' = {}
    BY <1>4 DEF FailExhausted, InLoop, Return, settings, Recorded, Assigned, Sought, Answer,
       Entries, IInv, NoResultYet
  <2>2. ~ (Listed \subseteq Assigned)
    BY <1>4 DEF FailExhausted, InLoop, Listed
  <2>3. \E k \in Protos : start[k]..MaxPort \subseteq Promised!Taken(k)
    <3>1. ExhaustionIsReal' /\ UNCHANGED <<start, balancer, AssignedPorts("socks"),
                                           AssignedPorts("http")>>
      BY <1>4, NextIInv
      DEF FailExhausted, settings, IInv, AssignedPorts, Assigned
    <3>2. result' = "exhausted"
      BY <1>4 DEF FailExhausted, Return
    <3> QED
      BY <1>0, <3>1, <3>2, MappedAssigned DEF ExhaustionIsReal, Protos
  <2>4. Promised!Full
    BY <1>0, <2>1, <2>2, <2>3, MappedAssigned DEF Promised!Full
  <2> QED
    BY <2>4 DEF Promised!MapNext
<1>5. CASE Finish
  <2>1. /\ UNCHANGED <<start, balancer, Recorded, out>>
        /\ Sought = Listed /\ Sought' = {} /\ Answer = "awaited" /\ Answer' = "ok"
        /\ Entries' = {out[n] : n \in DOMAIN out}
    BY <1>5 DEF Finish, Return, settings, Recorded, Assigned, Sought, Answer, Entries
  <2>2. /\ Listed \subseteq Assigned
        /\ {out[n] : n \in DOMAIN out} = {[tag |-> t, ports |-> assignments[t]] : t \in Listed}
    BY <1>5, EntriesAreWanted DEF Finish
  <2>3. {[tag |-> t, ports |-> assignments[t]] : t \in Listed}
          = {[tag |-> t, ports |-> Recorded[t]] : t \in Listed}
    BY <1>0, <2>2, MappedAssigned
  <2>4. Promised!Given
    BY <1>0, <2>1, <2>2, <2>3, MappedAssigned DEF Promised!Given
  <2> QED
    BY <2>4 DEF Promised!MapNext
<1>6. ASSUME NEW s \in Starts, NEW b \in Balancers, ApplyPorts(s, b)
      PROVE  Promised!MapNext
  <2>1. /\ start' = s /\ balancer' = b /\ UNCHANGED <<Recorded, Sought>>
        /\ Answer # "awaited" /\ Answer' = "none" /\ Entries' = {}
    BY <1>0, <1>6 DEF ApplyPorts, Recorded, Assigned, Sought, Answer, Entries, TypeOK
  <2>2. Promised!Configure(s, b)
    BY <2>1 DEF Promised!Configure
  <2> QED
    BY <2>2 DEF Promised!MapNext
<1>7. CASE UNCHANGED vars
  <2>1. UNCHANGED <<start, balancer, Recorded, Sought, Answer, Entries>>
    BY <1>7 DEF vars, settings, Recorded, Assigned, Sought, Listed, Answer, Entries
  <2> QED
    BY <2>1 DEF Promised!mapVars
<1> QED
  BY <1>1, <1>2, <1>3, <1>4, <1>5, <1>6, <1>7 DEF Next

\* Every behaviour of Planner is one of PortMap.
THEOREM PlannerKeepsPromises == Spec => KeepsPromises
<1>1. Init => Promised!MapInit
  BY InitPromised
<1>2. IInv /\ [Next]_vars => [Promised!MapNext]_(Promised!mapVars)
  BY StepPromised
<1> QED
  BY <1>1, <1>2, SpecIInv, PTL DEF Spec, KeepsPromises, Promised!MapSpec
=============================================================================
