------------------------------ MODULE Planner ------------------------------
(***************************************************************************)
(* internal/ports/planner.go: Plan gives every node of a subscription a    *)
(* SOCKS and an HTTP port, reusing what settings.PortAssignments records.  *)
(*                                                                         *)
(* Plan holds the planner's and the settings' locks from its first line to *)
(* its last, so one run at a time is in progress and no setting changes    *)
(* meanwhile; each turn of its loop is one action.  Runs of the timer and  *)
(* of the UI thread follow each other in any order.                        *)
(*                                                                         *)
(* The two protocols are treated alike, so what the code keeps twice       *)
(* (usedSOCKS and usedHTTP, ...) is a function of the protocol here.       *)
(***************************************************************************)
EXTENDS Integers, Sequences

CONSTANTS
    Tags,           \* tags of subscription nodes
    AutoTags,       \* those for which IsAuto holds
    MaxPort,        \* maxPort
    Starts,         \* range starts the user may configure
    Balancers,      \* balancer ports the user may configure, per protocol
    NodeLists,      \* subscriptions that may be fetched
    Files,          \* assignments settings.json may hold when the program starts
    Absent,         \* a tag with no persisted assignment
    BalancerOwner,  \* the owner DetectConflicts names for a balancer's port
    Garbled         \* a persisted string parseAssignment rejects

Protos == {"socks", "http"}
Ports == 1..MaxPort
Pairs == [Protos -> Ports]

\* parseAssignment: any two positive integers.
Parsed == [Protos -> Nat \ {0}]

ASSUME PlannerAssumption ==
    /\ AutoTags \subseteq Tags
    /\ MaxPort \in Nat \ {0}
    /\ Starts \subseteq [Protos -> Ports]
    /\ Balancers \subseteq [Protos -> SUBSET Ports]
    /\ NodeLists \subseteq Seq(Tags)
    /\ Files \subseteq [Tags -> Parsed \cup {Absent, Garbled}]
    /\ Absent \notin Parsed
    /\ Garbled \notin Parsed

VARIABLES
    start,          \* SOCKSPortStart, HTTPPortStart
    balancer,       \* BalancerPorts: the two groups' ports, per protocol
    assignments,    \* PortAssignments, parsed
    found,          \* history: the assignments the program started with
    pc,             \* "loop" while a run of Plan holds the locks
    nodes,          \* the argument of the last run of Plan
    i,              \* the index of its loop
    used,           \* usedSOCKS, usedHTTP
    cursor,         \* nextSOCKS, nextHTTP
    out,            \* the assignments it returns
    result          \* how it ended; forgotten once the settings change

settings == <<start, balancer, assignments, found>>
vars == <<settings, pc, nodes, i, used, cursor, out, result>>

\* The settings file is the program's own or has been edited by hand.
Init ==
    /\ start \in Starts
    /\ balancer \in Balancers
    /\ found \in Files
    /\ assignments = found
    /\ pc = "idle"
    /\ nodes = <<>>
    /\ i = 1
    /\ used = [k \in Protos |-> {}]
    /\ cursor = [k \in Protos |-> 1]
    /\ out = <<>>
    /\ result = "none"

-----------------------------------------------------------------------------
\* Tags whose persisted string parses.
Assigned == {t \in Tags : assignments[t] \in Parsed}

AssignedPorts(k) == {assignments[t][k] : t \in Assigned}

\* Mutant: the persisted ports of nodes that left the subscription are free.
UsedByListedOnly(ns) ==
    [k \in Protos |->
        balancer[k] \cup {assignments[t][k] : t \in Assigned \cap {ns[j] : j \in DOMAIN ns}}]

\* reserveBalancer, then the loop over every persisted assignment.
UsedAtStart(ns) == [k \in Protos |-> balancer[k] \cup AssignedPorts(k)]

\* nextFree: the first port from the cursor on that is not used.
IsNextFree(p, k) ==
    /\ p \in cursor[k]..MaxPort
    /\ p \notin used[k]
    /\ \A q \in cursor[k]..(p - 1) : q \in used[k]

Exhausted(k) == \A p \in cursor[k]..MaxPort : p \in used[k]

BeginPlan(ns) ==
    /\ pc = "idle"
    /\ pc' = "loop"
    /\ nodes' = ns
    /\ i' = 1
    /\ used' = UsedAtStart(ns)
    /\ cursor' = start
    /\ out' = <<>>
    /\ result' = "none"
    /\ UNCHANGED settings

InLoop == pc = "loop" /\ i \in DOMAIN nodes

\* Mutant: an auto node ends the loop instead of being passed over.
SkipAutoBreaks ==
    /\ InLoop
    /\ nodes[i] \in AutoTags
    /\ i' = Len(nodes) + 1
    /\ UNCHANGED <<settings, pc, nodes, used, cursor, out, result>>

SkipAuto ==
    /\ InLoop
    /\ nodes[i] \in AutoTags
    /\ i' = i + 1
    /\ UNCHANGED <<settings, pc, nodes, used, cursor, out, result>>

\* Mutant: a persisted string is taken without a look at whether it parses.
ReuseUnparsed ==
    /\ InLoop
    /\ nodes[i] \notin AutoTags
    /\ assignments[nodes[i]] # Absent
    /\ out' = Append(out, [tag |-> nodes[i], ports |-> assignments[nodes[i]]])
    /\ i' = i + 1
    /\ UNCHANGED <<settings, pc, nodes, used, cursor, result>>

Reuse ==
    /\ InLoop
    /\ nodes[i] \notin AutoTags
    /\ nodes[i] \in Assigned
    /\ out' = Append(out, [tag |-> nodes[i], ports |-> assignments[nodes[i]]])
    /\ i' = i + 1
    /\ UNCHANGED <<settings, pc, nodes, used, cursor, result>>

\* Mutant: the two ranges are walked in step.
RecordInStep(t, pair) ==
    /\ used' = [k \in Protos |-> used[k] \cup {pair[k]}]
    /\ LET top == IF pair["socks"] > pair["http"] THEN pair["socks"] ELSE pair["http"]
       IN  cursor' = [k \in Protos |-> top + 1]
    /\ assignments' = [assignments EXCEPT ![t] = pair]
    /\ out' = Append(out, [tag |-> t, ports |-> pair])
    /\ i' = i + 1

Record(t, pair) ==
    /\ used' = [k \in Protos |-> used[k] \cup {pair[k]}]
    /\ cursor' = [k \in Protos |-> pair[k] + 1]
    /\ assignments' = [assignments EXCEPT ![t] = pair]
    /\ out' = Append(out, [tag |-> t, ports |-> pair])
    /\ i' = i + 1

Allocate ==
    /\ InLoop
    /\ nodes[i] \notin AutoTags \cup Assigned
    /\ \E pair \in Pairs :
          /\ \A k \in Protos : IsNextFree(pair[k], k)
          /\ Record(nodes[i], pair)
    /\ UNCHANGED <<start, balancer, found, pc, nodes, result>>

\* The locals of the run go out of scope.
Return(r) ==
    /\ pc' = "idle"
    /\ result' = r
    /\ i' = 1
    /\ used' = [k \in Protos |-> {}]
    /\ cursor' = [k \in Protos |-> 1]

\* Mutant: exhaustion clears the persisted assignments to start over.
FailExhaustedForgets ==
    /\ InLoop
    /\ nodes[i] \notin AutoTags \cup Assigned
    /\ \E k \in Protos : Exhausted(k)
    /\ Return("exhausted")
    /\ assignments' = [t \in Tags |-> Absent]
    /\ out' = <<>>
    /\ UNCHANGED <<start, balancer, found, nodes>>

\* Mutant: exhaustion answers with the entries collected so far.
FailExhaustedAsOk ==
    /\ InLoop
    /\ nodes[i] \notin AutoTags \cup Assigned
    /\ \E k \in Protos : Exhausted(k)
    /\ Return("ok")
    /\ UNCHANGED <<settings, nodes, out>>

\* The error return: what the run has already recorded stays recorded.
FailExhausted ==
    /\ InLoop
    /\ nodes[i] \notin AutoTags \cup Assigned
    /\ \E k \in Protos : Exhausted(k)
    /\ Return("exhausted")
    /\ out' = <<>>
    /\ UNCHANGED <<settings, nodes>>

Finish ==
    /\ pc = "loop"
    /\ i \notin DOMAIN nodes
    /\ Return("ok")
    /\ UNCHANGED <<settings, nodes, out>>

\* Mutant: the settings window does not wait for the settings' lock.
ApplyPortsUnlocked(s, b) ==
    /\ start' = s
    /\ balancer' = b
    /\ UNCHANGED <<assignments, found, pc, nodes, i, used, cursor, out, result>>

\* The settings window's apply: it needs the settings' lock.
ApplyPorts(s, b) ==
    /\ pc = "idle"
    /\ start' = s
    /\ balancer' = b
    /\ nodes' = <<>>
    /\ out' = <<>>
    /\ result' = "none"
    /\ UNCHANGED <<assignments, found, pc, i, used, cursor>>

-----------------------------------------------------------------------------
\* Mutant: one map of the ports seen, for both protocols.
DetectConflictsOneMap(as, bp) ==
    LET fixed == bp["socks"] \cup bp["http"]
        owners(n, k) ==
            IF as[n].ports[k] \in fixed THEN {BalancerOwner}
            ELSE {as[m].tag : m \in {m \in 1..(n - 1) :
                      \E l \in Protos : as[m].ports[l] = as[n].ports[k]}}
    IN  UNION {{[proto |-> k, port |-> as[n].ports[k], tag |-> as[n].tag, owner |-> o] :
                   o \in owners(n, k)} : n \in DOMAIN as, k \in Protos}

\* DetectConflicts: an entry's port belongs to the balancer, of whatever
\* protocol, or to the first entry of its protocol that has it too.
DetectConflicts(as, bp) ==
    LET fixed == bp["socks"] \cup bp["http"]
        owners(n, k) ==
            IF as[n].ports[k] \in fixed THEN {BalancerOwner}
            ELSE {as[m].tag : m \in {m \in 1..(n - 1) :
                      /\ as[m].ports[k] = as[n].ports[k]
                      /\ \A l \in 1..(m - 1) : as[l].ports[k] # as[n].ports[k]}}
    IN  UNION {{[proto |-> k, port |-> as[n].ports[k], tag |-> as[n].tag, owner |-> o] :
                   o \in owners(n, k)} : n \in DOMAIN as, k \in Protos}

\* Build's conversion of a port to listen on: uint16.
ListenPort(p) == p % (MaxPort + 1)

-----------------------------------------------------------------------------
Next ==
    \/ \E ns \in NodeLists : BeginPlan(ns)
    \/ SkipAuto \/ Reuse \/ Allocate \/ FailExhausted \/ Finish
    \/ \E s \in Starts, b \in Balancers : ApplyPorts(s, b)

Spec == Init /\ [][Next]_vars

-----------------------------------------------------------------------------
(* Properties                                                              *)

TypeOK ==
    /\ start \in Starts
    /\ balancer \in Balancers
    /\ assignments \in [Tags -> Parsed \cup {Absent, Garbled}]
    /\ found \in Files
    /\ pc \in {"idle", "loop"}
    /\ nodes \in Seq(Tags)
    /\ i \in Nat \ {0}
    /\ used \in [Protos -> SUBSET (Nat \ {0})]
    /\ cursor \in [Protos -> 1..(MaxPort + 1)]
    /\ out \in Seq([tag : Tags, ports : Parsed])
    /\ result \in {"none", "ok", "exhausted"}

\* The tags whose ports the file decided.
FromFile == {t \in Tags : found[t] \in Parsed}

\* No two tags ever listen on one port of the same protocol, through any
\* sequence of runs, failed runs and changes of the settings, unless the file
\* gave it to both, or gave one of them a port above maxPort.
DistinctPorts ==
    \A t, u \in Assigned, k \in Protos :
        ListenPort(assignments[t][k]) = ListenPort(assignments[u][k]) =>
            \/ t = u
            \/ {t, u} \subseteq FromFile
            \/ \E v \in {t, u} \cap FromFile : assignments[v][k] > MaxPort

\* A recorded pair is never changed or dropped: a node keeps its proxy URLs
\* whatever happens to the subscription or the settings.
StablePorts ==
    [][\A t \in Assigned : assignments'[t] = assignments[t]]_vars

\* A pair is recorded only within the configured ranges and off the ports
\* the balancer has for that protocol when it is recorded.
NewPortsInRange ==
    [][\A t \in Tags : assignments'[t] # assignments[t] =>
          \A k \in Protos :
              /\ assignments'[t][k] \in start'[k]..MaxPort
              /\ assignments'[t][k] \notin balancer'[k]]_vars

\* A run gives up only when a range has truly no free port left: the cursor
\* never walks past a port that could have been given.
ExhaustionIsReal ==
    result = "exhausted" =>
        \E k \in Protos :
            \A p \in start[k]..MaxPort : p \in balancer[k] \cup AssignedPorts(k)

\* The entries returned so far are for the first m nodes, auto nodes left out,
\* f giving the place of each in the subscription.
InOrder(f, m) ==
    /\ \A n \in DOMAIN out : out[n].tag = nodes[f[n]]
    /\ \A n, l \in DOMAIN out : n < l => f[n] < f[l]
    /\ \A j \in 1..m : nodes[j] \notin AutoTags <=> \E n \in DOMAIN out : f[n] = j

\* A successful run returns, in order, one entry per node that is not an
\* auto node, and each entry is what the settings record for its tag.
PlanCoversNodes ==
    result = "ok" =>
        /\ \E f \in [DOMAIN out -> DOMAIN nodes] : InOrder(f, Len(nodes))
        /\ \A n \in DOMAIN out : out[n].ports = assignments[out[n].tag]

\* What DetectConflicts would say of a plan under the balancer's ports of
\* today: nodes collide with those, and with each other only where the
\* subscription lists one tag twice or the file gave both one port.
ConflictsOnlyWithBalancer ==
    result = "ok" =>
        \A c \in DetectConflicts(out, balancer) :
            c.owner \in {BalancerOwner, c.tag} \/ {c.owner, c.tag} \subseteq FromFile

\* What reserveBalancer's comment says: "marks the four balancer ports as in
\* use so per-node allocation never collides with them".
AllocationAvoidsBalancer ==
    [][\A t \in Tags : assignments'[t] # assignments[t] =>
          \A k, m \in Protos : assignments'[t][k] \notin balancer[m]]_vars

\* What a caller can see of the settings, of the run and of its answer.
Recorded == [t \in Tags |-> IF t \in Assigned THEN assignments[t] ELSE Absent]
Listed == {nodes[j] : j \in DOMAIN nodes} \ AutoTags
Sought == IF pc = "loop" THEN Listed ELSE {}
Answer == IF pc = "loop" THEN "awaited" ELSE result
Entries == IF result = "ok" THEN {out[n] : n \in DOMAIN out} ELSE {}

Promised == INSTANCE PortMap WITH
    Unmapped <- Absent, map <- Recorded, wanted <- Sought, answer <- Answer,
    plan <- Entries

\* Planner keeps the promises of PortMap: whatever the order of the nodes and
\* the walk of the cursors, each turn of the loop gives one wanted tag a free
\* pair or changes nothing a caller could see.
KeepsPromises == Promised!MapSpec
=============================================================================
