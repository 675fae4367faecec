---------------------------- MODULE StoreProofs ----------------------------
(***************************************************************************)
(* For every set of processes, fields and tags, number of ports and number *)
(* of edits: what a Save that returned without error wrote is never lost,  *)
(* and no port is given twice.  The invariants checked by TLC are not      *)
(* inductive: they need to know that only the holder of the lock is past   *)
(* acquireLock, and that settings.json, when it can be read, is what the   *)
(* last such Save wrote, its ports being distinct too.                     *)
(*                                                                         *)
(* The windows add to the store and edit it in one way only, so all of     *)
(* this carries over to the composition the run checks.                    *)
(***************************************************************************)
EXTENDS SettingsWindow, TLAPS

\* A process that has passed acquireLock holds the lock, and only it.
LockHeld == \A p \in Procs : pc[p] # "down" <=> lock = p

\* settings.json is what the last Save that returned nil wrote, missing when
\* there was none, or it is cut short.
DiskIsSaved == disk = saved \/ disk = Torn

SavedDistinct ==
    saved # Missing =>
        \A t, u \in Tags :
            saved.ports[t] = saved.ports[u] /\ saved.ports[t] # NoPort => t = u

IInv ==
    /\ TypeOK
    /\ LockHeld
    /\ DiskIsSaved
    /\ SavedDistinct
    /\ EditsDurable
    /\ SavedPortsDurable
    /\ DistinctPorts

\* The defaults are a possible content of the settings, without a port.
LEMMA DefaultsType ==
  ASSUME NEW id \in Ids
  PROVE  /\ Defaults(id) \in Contents
         /\ \A t \in Tags : Defaults(id).ports[t] = NoPort
  BY StoreAssumption DEF Defaults, Contents

\* While a process is past acquireLock every other one is down.
LEMMA OthersDown ==
  ASSUME LockHeld, NEW p \in Procs, pc[p] # "down", NEW q \in Procs, q # p
  PROVE  pc[q] = "down"
  BY DEF LockHeld

\* The invariant holds before the first launch.
LEMMA InitIInv == Init => IInv
<1> SUFFICES ASSUME Init PROVE IInv
  OBVIOUS
<1>1. \A p \in Procs : pc[p] = "down" /\ ~Running(p)
  BY DEF Init, Running
<1>2. TypeOK
  BY <1>1 DEF Init, TypeOK, NoPort
<1>3. LockHeld
  BY <1>1, StoreAssumption DEF Init, LockHeld
<1>4. DiskIsSaved /\ SavedDistinct
  BY DEF Init, DiskIsSaved, SavedDistinct
<1>5. EditsDurable /\ SavedPortsDurable /\ DistinctPorts
  BY <1>1 DEF EditsDurable, SavedPortsDurable, DistinctPorts
<1> QED
  BY <1>2, <1>3, <1>4, <1>5 DEF IInv

\* A process that holds no settings yet: taking the lock, and giving it back.
LEMMA LockIInv ==
  ASSUME IInv, NEW p \in Procs, Acquire(p) \/ LaunchFails(p)
  PROVE  IInv'
<1> USE DEF IInv
<1>1. /\ UNCHANGED <<mem, refreshing, disk, saved, told>>
      /\ \E l \in {"locked", "down"} : pc' = [pc EXCEPT ![p] = l]
      /\ lock' \in Procs \cup {NoProc}
  BY DEF Acquire, LaunchFails, Goto
<1>2. \A q \in Procs : Running(q)' => Running(q)
  BY <1>1 DEF Running, TypeOK
<1>3. TypeOK'
  BY <1>1, <1>2 DEF TypeOK
<1>4. LockHeld'
  BY StoreAssumption DEF Acquire, LaunchFails, Goto, LockHeld, TypeOK
<1>5. DiskIsSaved' /\ SavedDistinct'
  BY <1>1 DEF DiskIsSaved, SavedDistinct
<1>6. EditsDurable' /\ SavedPortsDurable' /\ DistinctPorts'
  BY <1>1, <1>2 DEF EditsDurable, SavedPortsDurable, DistinctPorts
<1> QED
  BY <1>3, <1>4, <1>5, <1>6

\* A launch that succeeds reads what was last saved, or the defaults.
LEMMA LaunchIInv ==
  ASSUME IInv, NEW p \in Procs, Launch(p)
  PROVE  IInv'
<1> USE DEF IInv
<1>1. PICK s \in Loaded : mem' = [mem EXCEPT ![p] = s]
  BY DEF Launch
<1>2. /\ s \in Contents
      /\ saved # Missing => s = saved
      /\ saved = Missing => \A t \in Tags : s.ports[t] = NoPort
  <2>1. CASE disk = Missing
    <3>1. PICK id \in Ids : s = Defaults(id)
      BY <1>1, <2>1 DEF Loaded
    <3>2. saved = Missing
      BY <2>1, StoreAssumption DEF DiskIsSaved
    <3> QED
      BY <3>1, <3>2, DefaultsType
  <2>2. CASE disk # Missing
    <3>1. s = disk /\ disk # Torn
      BY <1>1, <2>2 DEF Loaded
    <3> QED
      BY <3>1, <2>2 DEF DiskIsSaved, TypeOK
  <2> QED
    BY <2>1, <2>2
<1>3. /\ pc[p] = "locked"
      /\ pc' = [pc EXCEPT ![p] = "idle"]
      /\ UNCHANGED <<lock, refreshing, disk, saved, told>>
  BY DEF Launch, Goto
<1>4. /\ mem'[p] = s
      /\ \A q \in Procs : Running(q)' => q = p
  BY <1>1, <1>3, OthersDown DEF TypeOK, Running
<1>5. TypeOK'
  BY <1>1, <1>2, <1>3, <1>4 DEF TypeOK
<1>6. LockHeld' /\ DiskIsSaved' /\ SavedDistinct'
  BY <1>3 DEF LockHeld, DiskIsSaved, SavedDistinct, TypeOK
<1>7. EditsDurable' /\ SavedPortsDurable'
  BY <1>2, <1>3, <1>4, StoreAssumption
  DEF EditsDurable, SavedPortsDurable, Contents
<1>8. DistinctPorts'
  BY <1>2, <1>3, <1>4 DEF DistinctPorts, SavedDistinct
<1> QED
  BY <1>5, <1>6, <1>7, <1>8

\* The end of a process takes its settings and the lock with it.
LEMMA CrashIInv ==
  ASSUME IInv, NEW p \in Procs, Crash(p)
  PROVE  IInv'
<1> USE DEF IInv
<1>1. /\ pc[p] # "down"
      /\ pc' = [pc EXCEPT ![p] = "down"]
      /\ lock' = NoProc
      /\ mem' = [mem EXCEPT ![p] = Missing]
      /\ refreshing' = refreshing \ {p}
      /\ UNCHANGED <<disk, saved, told>>
  BY DEF Crash, Goto
<1>2. \A q \in Procs : pc'[q] = "down" /\ ~Running(q)'
  BY <1>1, OthersDown DEF TypeOK, Running
<1>3. TypeOK'
  BY <1>1, <1>2 DEF TypeOK
<1>4. LockHeld'
  BY <1>1, <1>2, StoreAssumption DEF LockHeld
<1>5. DiskIsSaved' /\ SavedDistinct'
  BY <1>1 DEF DiskIsSaved, SavedDistinct
<1>6. EditsDurable' /\ SavedPortsDurable' /\ DistinctPorts'
  BY <1>2 DEF EditsDurable, SavedPortsDurable, DistinctPorts
<1> QED
  BY <1>3, <1>4, <1>5, <1>6

\* A refresh that begins or ends has touched nothing of the settings yet.
LEMMA RefreshIInv ==
  ASSUME IInv, NEW p \in Procs, Fetch(p) \/ EndRefresh(p)
  PROVE  IInv'
<1> USE DEF IInv
<1>1. /\ UNCHANGED <<pc, lock, mem, disk, saved, told>>
      /\ refreshing' \subseteq refreshing \cup {p}
  BY DEF Fetch, EndRefresh
<1>2. TypeOK'
  BY <1>1 DEF TypeOK, Running
<1>3. LockHeld' /\ DiskIsSaved' /\ SavedDistinct'
  BY <1>1 DEF LockHeld, DiskIsSaved, SavedDistinct
<1>4. EditsDurable' /\ SavedPortsDurable' /\ DistinctPorts'
  BY <1>1 DEF EditsDurable, SavedPortsDurable, DistinctPorts, Running
<1> QED
  BY <1>2, <1>3, <1>4

\* Plan gives a tag that has no port one that no tag has.
LEMMA PlanNodeIInv ==
  ASSUME IInv, NEW p \in Procs, NEW t \in Tags, PlanNode(p, t)
  PROVE  IInv'
<1> USE DEF IInv
<1>1. PICK n \in FreePorts(p) : mem' = [mem EXCEPT ![p].ports[t] = n]
  BY DEF PlanNode
<1>2. /\ n \in Ports
      /\ \A u \in Tags : mem[p].ports[u] # n
  BY <1>1 DEF FreePorts
<1>3. /\ UNCHANGED <<pc, lock, refreshing, disk, saved>>
      /\ mem[p].ports[t] = NoPort
      /\ Running(p)
      /\ mem[p] \in Contents
      /\ mem \in [Procs -> Contents \cup {Missing}]
  BY DEF PlanNode, Running, TypeOK
<1>4. /\ mem'[p] = [mem[p] EXCEPT !.ports[t] = n]
      /\ \A q \in Procs \ {p} : mem'[q] = mem[q]
      /\ mem' = [mem EXCEPT ![p] = mem'[p]]
  BY <1>1, <1>3
<1>5. /\ mem'[p] \in Contents
      /\ mem'[p].edit = mem[p].edit
      /\ mem'[p].fields = mem[p].fields
      /\ mem'[p].hwid = mem[p].hwid
      /\ mem'[p].ports = [mem[p].ports EXCEPT ![t] = n]
  BY <1>2, <1>3, <1>4 DEF Contents
<1>6. told' \in [Tags -> Ports \cup {NoPort}]
  <2>1. PICK m \in FreePorts(p) :
          told' = IF told[t] = NoPort THEN [told EXCEPT ![t] = m] ELSE told
    BY DEF PlanNode
  <2>2. told \in [Tags -> Ports \cup {NoPort}] /\ m \in Ports
    BY <2>1 DEF TypeOK, FreePorts
  <2> QED
    BY <2>1, <2>2
<1>7. \A q \in Procs : Running(q)' => q = p
  BY <1>3, OthersDown DEF Running
<1>8. TypeOK'
  BY <1>3, <1>4, <1>5, <1>6, <1>7 DEF TypeOK
<1>9. LockHeld' /\ DiskIsSaved' /\ SavedDistinct'
  BY <1>3 DEF LockHeld, DiskIsSaved, SavedDistinct
<1>10. EditsDurable'
  BY <1>3, <1>5, <1>7 DEF EditsDurable
<1>11. \A u \in Tags : mem'[p].ports[u] = IF u = t THEN n ELSE mem[p].ports[u]
  BY <1>3, <1>5 DEF Contents
<1>12. SavedPortsDurable'
  <2> SUFFICES ASSUME saved # Missing, NEW u \in Tags, saved.ports[u] # NoPort
               PROVE  mem'[p].ports[u] = saved.ports[u]
    BY <1>3, <1>7 DEF SavedPortsDurable
  <2>1. mem[p].ports[u] = saved.ports[u] /\ u # t
    BY <1>3 DEF SavedPortsDurable
  <2> QED
    BY <2>1, <1>11
<1>13. DistinctPorts'
  <2>1. \A u, v \in Tags :
          mem[p].ports[u] = mem[p].ports[v] /\ mem[p].ports[u] # NoPort => u = v
    BY <1>3 DEF DistinctPorts
  <2>2. \A u, v \in Tags :
          mem'[p].ports[u] = mem'[p].ports[v] /\ mem'[p].ports[u] # NoPort => u = v
    BY <2>1, <1>2, <1>11
  <2> QED
    BY <2>2, <1>7 DEF DistinctPorts
<1> QED
  BY <1>8, <1>9, <1>10, <1>12, <1>13

\* An edit leaves the ports alone and is newer than anything saved.
LEMMA SetFieldsIInv ==
  ASSUME IInv, NEW p \in Procs, NEW id \in Ids,
         NEW fields \in [Fields -> 0..MaxEdits], SetFields(p, fields, id)
  PROVE  IInv'
<1> USE DEF IInv
<1>1. /\ pc[p] = "idle"
      /\ pc' = [pc EXCEPT ![p] = "edited"]
      /\ mem[p].edit < MaxEdits
      /\ UNCHANGED <<lock, refreshing, disk, saved, told>>
      /\ mem' = [mem EXCEPT ![p] = [edit |-> mem[p].edit + 1, fields |-> fields,
                                     hwid |-> id, ports |-> mem[p].ports]]
  BY DEF SetFields, Goto
<1>2. /\ Running(p)
      /\ mem[p] \in Contents
      /\ mem \in [Procs -> Contents \cup {Missing}]
  BY <1>1 DEF Running, TypeOK
<1>3. mem'[p] = [edit |-> mem[p].edit + 1, fields |-> fields,
                 hwid |-> id, ports |-> mem[p].ports]
  BY <1>1, <1>2
<1>4. /\ mem'[p] \in Contents
      /\ mem'[p].edit = mem[p].edit + 1
      /\ mem'[p].ports = mem[p].ports
  BY <1>1, <1>2, <1>3, StoreAssumption DEF Contents
<1>5. \A q \in Procs : Running(q)' => q = p
  BY <1>1, OthersDown DEF Running, TypeOK
<1>6. TypeOK'
  BY <1>1, <1>2, <1>4, <1>5 DEF TypeOK
<1>7. LockHeld' /\ DiskIsSaved' /\ SavedDistinct'
  BY <1>1 DEF LockHeld, DiskIsSaved, SavedDistinct, TypeOK
<1>8. EditsDurable'
  <2>1. saved # Missing => mem[p].edit >= saved.edit /\ saved.edit \in Nat
    BY <1>2, StoreAssumption DEF EditsDurable, TypeOK, Contents
  <2>2. mem[p].edit \in Nat
    BY <1>2, StoreAssumption DEF Contents
  <2> QED
    BY <1>1, <1>4, <1>5, <2>1, <2>2 DEF EditsDurable
<1>9. SavedPortsDurable' /\ DistinctPorts'
  BY <1>1, <1>2, <1>4, <1>5 DEF SavedPortsDurable, DistinctPorts
<1> QED
  BY <1>6, <1>7, <1>8, <1>9

\* Save leaves the old file, a cut one, or the settings as they are.
LEMMA SaveIInv ==
  ASSUME IInv, NEW p \in Procs, Save(p)
  PROVE  IInv'
<1> USE DEF IInv
<1>1. /\ Running(p)
      /\ \E l \in {"idle", "writing"} : pc' = [pc EXCEPT ![p] = l]
      /\ UNCHANGED <<lock, mem, refreshing, told>>
      /\ \/ saved' = saved /\ disk' \in {disk, Torn}
         \/ saved' = mem[p] /\ disk' = mem[p]
  BY DEF Save, OpenFile, WriteFile, SaveFails, Running, Goto
<1>2. \A q \in Procs : (Running(q)' => q = p) /\ (q = p => Running(q)')
  BY <1>1, OthersDown DEF Running, TypeOK
<1>3. mem[p] \in Contents /\ mem[p] # Missing
  BY <1>1, StoreAssumption DEF TypeOK
<1>4. TypeOK'
  BY <1>1, <1>2, <1>3 DEF TypeOK
<1>5. LockHeld'
  BY <1>1 DEF LockHeld, Running, TypeOK
<1>6. DiskIsSaved'
  BY <1>1 DEF DiskIsSaved
<1>7. SavedDistinct'
  BY <1>1 DEF SavedDistinct, DistinctPorts
<1>8. EditsDurable'
  BY <1>1, <1>2, <1>3, StoreAssumption DEF EditsDurable, Contents
<1>9. SavedPortsDurable' /\ DistinctPorts'
  BY <1>1, <1>2 DEF SavedPortsDurable, DistinctPorts
<1> QED
  BY <1>4, <1>5, <1>6, <1>7, <1>8, <1>9

\* Every step keeps the invariant.
THEOREM NextIInv == IInv /\ [Next]_vars => IInv'
<1> SUFFICES ASSUME IInv, [Next]_vars PROVE IInv'
  OBVIOUS
<1>1. ASSUME NEW p \in Procs, Acquire(p) \/ LaunchFails(p) PROVE IInv'
  BY <1>1, LockIInv
<1>2. ASSUME NEW p \in Procs, Launch(p) PROVE IInv'
  BY <1>2, LaunchIInv
<1>3. ASSUME NEW p \in Procs, Crash(p) PROVE IInv'
  BY <1>3, CrashIInv
<1>4. ASSUME NEW p \in Procs, NEW t \in Tags, PlanNode(p, t) PROVE IInv'
  BY <1>4, PlanNodeIInv
<1>5. ASSUME NEW p \in Procs, Edit(p) PROVE IInv'
  BY <1>5, SetFieldsIInv DEF Edit
<1>6. ASSUME NEW p \in Procs, Save(p) PROVE IInv'
  BY <1>6, SaveIInv
<1>7. ASSUME NEW p \in Procs, Fetch(p) \/ EndRefresh(p) PROVE IInv'
  BY <1>7, RefreshIInv
<1>8. ASSUME UNCHANGED vars PROVE IInv'
  <2>1. UNCHANGED <<pc, lock, mem, refreshing, disk, saved, told>>
    BY <1>8 DEF vars
  <2>2. TypeOK' /\ LockHeld' /\ DiskIsSaved' /\ SavedDistinct'
    BY <2>1 DEF IInv, TypeOK, LockHeld, DiskIsSaved, SavedDistinct, Running
  <2>3. EditsDurable' /\ SavedPortsDurable' /\ DistinctPorts'
    BY <2>1 DEF IInv, EditsDurable, SavedPortsDurable, DistinctPorts, Running
  <2> QED
    BY <2>2, <2>3 DEF IInv
<1> QED
  BY <1>1, <1>2, <1>3, <1>4, <1>5, <1>6, <1>7, <1>8 DEF Next, Refused

\* The inductive invariant holds throughout.
THEOREM SpecIInv == Spec => []IInv
  BY InitIInv, NextIInv, PTL DEF Spec

\* The settings in memory and on disk keep their types.
THEOREM StoreTypeOK == Spec => []TypeOK
<1>1. IInv => TypeOK
  BY DEF IInv
<1> QED
  BY <1>1, SpecIInv, PTL

\* An edit whose Save returned without error is in force in every later run
\* of the program.
THEOREM StoreEditsDurable == Spec => []EditsDurable
<1>1. IInv => EditsDurable
  BY DEF IInv
<1> QED
  BY <1>1, SpecIInv, PTL

\* So is a port assignment that such a Save wrote.
THEOREM StoreSavedPortsDurable == Spec => []SavedPortsDurable
<1>1. IInv => SavedPortsDurable
  BY DEF IInv
<1> QED
  BY <1>1, SpecIInv, PTL

\* No two tags ever hold the same port, whatever restarts forget.
THEOREM StoreDistinctPorts == Spec => []DistinctPorts
<1>1. IInv => DistinctPorts
  BY DEF IInv
<1> QED
  BY <1>1, SpecIInv, PTL

\* Two processes never work on one settings.json.
THEOREM StoreSingleInstance ==
  Spec => [](\A p, q \in Procs : Running(p) /\ Running(q) => p = q)
<1>1. IInv => \A p, q \in Procs : Running(p) /\ Running(q) => p = q
  BY OthersDown DEF IInv, Running
<1> QED
  BY <1>1, SpecIInv, PTL

-----------------------------------------------------------------------------
(* The windows over the store                                              *)

\* Of the form's fields only the URL can have changed since the form was
\* loaded.
FormFresh ==
    \A p \in Procs : Running(p) /\ form[p] # NoForm =>
        \A f \in FormFields \ {UrlField} : form[p][f] = mem[p].fields[f]

WindowInv ==
    /\ form \in [Procs -> [FormFields -> Values] \cup {NoForm}]
    /\ chosen \in [Procs -> [Fields -> Values]]
    /\ \A p \in Procs : form[p] # NoForm => Running(p)
    /\ FormFresh
    /\ NothingUndone

\* What apply, an override box and the wizard write are settings.
LEMMA WrittenFields ==
  ASSUME TypeOK, WindowInv, NEW p \in Procs, pc[p] = "idle", mem[p].edit < MaxEdits
  PROVE  /\ \A typed \in SUBSET FormFields :
              \A kept \in Kept(p, typed) :
                 /\ kept \in [typed -> Values]
                 /\ form[p] # NoForm => Applied(p, kept) \in [Fields -> 0..MaxEdits]
         /\ \A f \in Fields :
              [mem[p].fields EXCEPT ![f] = mem[p].edit + 1] \in [Fields -> 0..MaxEdits]
         /\ mem[p].hwid \in Ids
         /\ mem[p].edit + 1 \in Values
<1>1. mem[p] \in Contents
  BY DEF TypeOK, Running
<1>2. /\ mem[p].fields \in [Fields -> 0..MaxEdits]
      /\ {0, mem[p].edit + 1} \subseteq 0..MaxEdits
      /\ mem[p].edit + 1 \in 0..MaxEdits
      /\ mem[p].hwid \in Ids
  BY <1>1, StoreAssumption DEF Contents
<1>3. form[p] # NoForm => form[p] \in [FormFields -> 0..MaxEdits]
  BY DEF WindowInv, Values
<1>4. ASSUME NEW typed \in SUBSET FormFields, NEW kept \in Kept(p, typed)
      PROVE  /\ kept \in [typed -> Values]
             /\ form[p] # NoForm => Applied(p, kept) \in [Fields -> 0..MaxEdits]
  <2>1. kept \in [typed -> 0..MaxEdits]
    BY <1>2 DEF Kept
  <2> QED
    BY <1>2, <1>3, <2>1 DEF Applied, Values
<1> QED
  BY <1>2, <1>4 DEF Values

\* Every step of the windows is a step of the store or leaves it alone: they
\* write to the settings only through the critical section of an edit.
LEMMA WindowStepIsStoreStep ==
  TypeOK /\ WindowInv /\ [WindowNext]_allVars => [Next]_vars
<1> SUFFICES ASSUME TypeOK, WindowInv, [WindowNext]_allVars PROVE [Next]_vars
  OBVIOUS
<1>1. ASSUME NEW p \in Procs, StoreStep(p) PROVE Next
  BY <1>1 DEF StoreStep, Next
<1>2. ASSUME NEW p \in Procs, LaunchShell(p) \/ CrashShell(p) PROVE Next
  BY <1>2 DEF LaunchShell, CrashShell, Next
<1>3. ASSUME NEW p \in Procs, Show(p) \/ Cancel(p) \/ DismissWizard(p) \/ Check(p)
      PROVE  UNCHANGED vars
  BY <1>3 DEF Show, Cancel, DismissWizard, Check
<1>4. ASSUME NEW p \in Procs, NEW fields \in [Fields -> 0..MaxEdits], NEW id \in Ids,
             SetFields(p, fields, id)
      PROVE  Next
  BY <1>4 DEF Edit, Next
<1>5. ASSUME NEW p \in Procs, NEW typed \in SUBSET FormFields, Apply(p, typed) PROVE Next
  <2>1. PICK kept \in Kept(p, typed), id \in Ids : SetFields(p, Applied(p, kept), id)
    BY <1>5 DEF Apply
  <2>2. Applied(p, kept) \in [Fields -> 0..MaxEdits]
    BY <1>5, <2>1, WrittenFields DEF Apply, SetFields
  <2> QED
    BY <2>1, <2>2, <1>4
<1>6. ASSUME NEW p \in Procs, NEW f \in Fields, Override(p, f) PROVE Next
  <2>1. SetFields(p, [mem[p].fields EXCEPT ![f] = mem[p].edit + 1], mem[p].hwid)
    BY <1>6 DEF Override, SetField
  <2>2. /\ [mem[p].fields EXCEPT ![f] = mem[p].edit + 1] \in [Fields -> 0..MaxEdits]
        /\ mem[p].hwid \in Ids
    BY <2>1, WrittenFields DEF SetFields
  <2> QED
    BY <2>1, <2>2, <1>4
<1>7. ASSUME NEW p \in Procs, Connect(p) PROVE Next
  <2>1. SetFields(p, [mem[p].fields EXCEPT ![UrlField] = mem[p].edit + 1], mem[p].hwid)
    BY <1>7 DEF Connect, SetField
  <2>2. /\ [mem[p].fields EXCEPT ![UrlField] = mem[p].edit + 1] \in [Fields -> 0..MaxEdits]
        /\ mem[p].hwid \in Ids
    BY <2>1, WrittenFields, WindowAssumption DEF SetFields
  <2> QED
    BY <2>1, <2>2, <1>4
<1> QED
  BY <1>1, <1>2, <1>3, <1>5, <1>6, <1>7 DEF WindowNext, allVars

\* A step of one process that leaves its windows alone, and its fields while
\* it runs, keeps the windows' invariant.
LEMMA FrameWindowInv ==
  ASSUME WindowInv, UNCHANGED formVars,
         \A p \in Procs : Running(p)' <=> Running(p),
         \A p \in Procs : Running(p) => mem'[p].fields = mem[p].fields
  PROVE  WindowInv'
<1>1. UNCHANGED <<form, chosen>>
  BY DEF formVars
<1>2. FormFresh'
  BY <1>1 DEF WindowInv, FormFresh
<1>3. NothingUndone'
  BY <1>1 DEF WindowInv, NothingUndone
<1> QED
  BY <1>1, <1>2, <1>3 DEF WindowInv

\* An edit that records what was chosen and leaves a fresh form fresh.
LEMMA EditWindowInv ==
  ASSUME TypeOK, WindowInv, NEW p \in Procs, NEW set \in SUBSET Fields,
         NEW fields \in [Fields -> 0..MaxEdits], NEW id \in Ids,
         NEW kept \in [set -> Values], SetFields(p, fields, id), Choose(p, kept),
         \A f \in Fields \ {UrlField} :
            fields[f] = IF f \in set THEN kept[f] ELSE mem[p].fields[f],
         \/ form' = [form EXCEPT ![p] = NoForm]
         \/ form' = form /\ set \cap FormFields \subseteq {UrlField}
  PROVE  WindowInv'
<1>1. /\ Running(p)
      /\ mem[p] \in Contents
      /\ mem \in [Procs -> Contents \cup {Missing}]
      /\ pc' = [pc EXCEPT ![p] = "edited"]
      /\ pc \in [Procs -> {"down", "locked", "idle", "edited", "writing"}]
  BY DEF SetFields, Goto, TypeOK, Running
<1>2. /\ mem'[p].fields = fields
      /\ \A q \in Procs \ {p} : mem'[q] = mem[q]
  BY <1>1 DEF SetFields
<1>3. \A q \in Procs : Running(q)' <=> Running(q)
  BY <1>1 DEF Running
<1>4. DOMAIN kept = set /\ \A f \in set : kept[f] \in Values
  OBVIOUS
<1>5. /\ chosen' \in [Procs -> [Fields -> Values]]
      /\ \A q \in Procs \ {p} : chosen'[q] = chosen[q]
      /\ \A f \in Fields : chosen'[p][f] = IF f \in set THEN kept[f] ELSE chosen[p][f]
  BY <1>4 DEF Choose, WindowInv
<1>6. /\ form' \in [Procs -> [FormFields -> Values] \cup {NoForm}]
      /\ \A q \in Procs \ {p} : form'[q] = form[q]
      /\ form'[p] # NoForm => form'[p] = form[p] /\ set \cap FormFields \subseteq {UrlField}
  BY DEF WindowInv
<1>7. \A q \in Procs : form'[q] # NoForm => Running(q)'
  BY <1>3, <1>6 DEF WindowInv
<1>8. FormFresh'
  <2> SUFFICES ASSUME NEW q \in Procs, Running(q)', form'[q] # NoForm,
                      NEW f \in FormFields \ {UrlField}
               PROVE  form'[q][f] = mem'[q].fields[f]
    BY DEF FormFresh
  <2>1. Running(q) /\ form'[q] = form[q] /\ form[q][f] = mem[q].fields[f] /\ f \in Fields
    BY <1>3, <1>6, WindowAssumption DEF WindowInv, FormFresh
  <2>2. CASE q = p
    <3>1. f \notin set
      BY <1>6, <2>2
    <3> QED
      BY <1>2, <2>1, <2>2, <3>1
  <2>3. CASE q # p
    BY <1>2, <2>1, <2>3
  <2> QED
    BY <2>2, <2>3
<1>9. NothingUndone'
  <2> SUFFICES ASSUME NEW q \in Procs, Running(q)', NEW f \in Fields \ {UrlField}
               PROVE  mem'[q].fields[f] = chosen'[q][f]
    BY DEF NothingUndone
  <2>1. mem[q].fields[f] = chosen[q][f]
    BY <1>3 DEF WindowInv, NothingUndone
  <2> QED
    BY <1>2, <1>5, <2>1
<1> QED
  BY <1>5, <1>6, <1>7, <1>8, <1>9 DEF WindowInv

\* The invariant of the windows before the first launch.
LEMMA InitWindowInv == WindowInit => WindowInv
<1> SUFFICES ASSUME WindowInit PROVE WindowInv
  OBVIOUS
<1>1. \A p \in Procs : ~Running(p) /\ form[p] = NoForm
  BY DEF WindowInit, Init, Running
<1>2. NothingChosen \in [Fields -> Values]
  BY StoreAssumption DEF NothingChosen, Values
<1> QED
  BY <1>1, <1>2 DEF WindowInit, WindowInv, FormFresh, NothingUndone

\* Every step of the windows keeps their invariant.
LEMMA NextWindowInv ==
  ASSUME TypeOK, TypeOK', WindowInv, [WindowNext]_allVars
  PROVE  WindowInv'
<1>t. /\ pc \in [Procs -> {"down", "locked", "idle", "edited", "writing"}]
      /\ mem \in [Procs -> Contents \cup {Missing}]
      /\ \A q \in Procs : Running(q) => mem[q] \in Contents
  BY DEF TypeOK
<1>1. ASSUME NEW p \in Procs, \/ Acquire(p) \/ Refused(p) \/ LaunchFails(p) \/ Save(p)
                              \/ Fetch(p) \/ EndRefresh(p),
             UNCHANGED windowVars
      PROVE  WindowInv'
  <2>1. UNCHANGED mem
    BY <1>1 DEF Acquire, Refused, LaunchFails, Save, OpenFile, WriteFile, SaveFails,
                Fetch, EndRefresh, vars
  <2>2. \A q \in Procs : Running(q)' <=> Running(q)
    BY <1>1, <1>t DEF Acquire, Refused, LaunchFails, Save, OpenFile, WriteFile, SaveFails,
                      Fetch, EndRefresh, Goto, Running, vars
  <2> QED
    BY <1>1, <2>1, <2>2, FrameWindowInv DEF windowVars
<1>2. ASSUME NEW p \in Procs, NEW t \in Tags, PlanNode(p, t), UNCHANGED windowVars
      PROVE  WindowInv'
  <2>1. PICK n \in FreePorts(p) : mem' = [mem EXCEPT ![p].ports[t] = n]
    BY <1>2 DEF PlanNode
  <2>2. /\ mem[p] \in Contents
        /\ UNCHANGED pc
    BY <1>2, <1>t DEF PlanNode, Running
  <2>3. /\ mem'[p] = [mem[p] EXCEPT !.ports[t] = n]
        /\ \A q \in Procs \ {p} : mem'[q] = mem[q]
    BY <2>1, <1>t
  <2>4. mem'[p].fields = mem[p].fields
    BY <2>2, <2>3 DEF Contents
  <2>5. \A q \in Procs : Running(q)' <=> Running(q)
    BY <2>2 DEF Running
  <2>6. \A q \in Procs : mem'[q].fields = mem[q].fields
    BY <2>3, <2>4
  <2> QED
    BY <1>2, <2>5, <2>6, FrameWindowInv DEF windowVars
<1>3. ASSUME NEW p \in Procs, LaunchShell(p) PROVE WindowInv'
  <2>1. /\ pc[p] = "locked"
        /\ pc' = [pc EXCEPT ![p] = "idle"]
        /\ \A q \in Procs \ {p} : mem'[q] = mem[q]
        /\ chosen' = [chosen EXCEPT ![p] = mem'[p].fields]
        /\ UNCHANGED form
    BY <1>3, <1>t DEF LaunchShell, Launch, Goto
  <2>2. /\ Running(p)'
        /\ \A q \in Procs \ {p} : Running(q)' <=> Running(q)
        /\ form[p] = NoForm
    BY <2>1, <1>t DEF Running, WindowInv
  <2>3. mem'[p].fields \in [Fields -> Values]
    BY <2>2 DEF TypeOK, Contents, Values
  <2>4. chosen' \in [Procs -> [Fields -> Values]]
    BY <2>1, <2>3 DEF WindowInv
  <2>5. FormFresh'
    BY <2>1, <2>2 DEF WindowInv, FormFresh
  <2>6. NothingUndone'
    BY <2>1, <2>2 DEF WindowInv, NothingUndone
  <2> QED
    BY <2>1, <2>2, <2>4, <2>5, <2>6 DEF WindowInv
<1>4. ASSUME NEW p \in Procs, CrashShell(p) PROVE WindowInv'
  <2>1. /\ pc' = [pc EXCEPT ![p] = "down"]
        /\ \A q \in Procs \ {p} : mem'[q] = mem[q]
        /\ chosen' = [chosen EXCEPT ![p] = NothingChosen]
        /\ form' = [form EXCEPT ![p] = NoForm]
    BY <1>4, <1>t DEF CrashShell, Crash, Goto
  <2>2. /\ ~Running(p)'
        /\ \A q \in Procs \ {p} : Running(q)' <=> Running(q)
        /\ NothingChosen \in [Fields -> Values]
    BY <2>1, <1>t, StoreAssumption DEF Running, NothingChosen, Values
  <2>3. FormFresh'
    BY <2>1, <2>2 DEF WindowInv, FormFresh
  <2>4. NothingUndone'
    BY <2>1, <2>2 DEF WindowInv, NothingUndone
  <2> QED
    BY <2>1, <2>2, <2>3, <2>4 DEF WindowInv
<1>5. ASSUME NEW p \in Procs, Show(p) PROVE WindowInv'
  <2>1. /\ Running(p)
        /\ mem[p] \in Contents
        /\ UNCHANGED <<pc, mem, chosen>>
        /\ form' = [form EXCEPT ![p] = [f \in FormFields |-> mem[p].fields[f]]]
    BY <1>5, <1>t DEF Show, Running, vars
  <2>2. [f \in FormFields |-> mem[p].fields[f]] \in [FormFields -> Values]
    BY <2>1, WindowAssumption DEF Contents, Values
  <2>3. FormFresh'
    BY <2>1 DEF WindowInv, FormFresh, Running
  <2>4. NothingUndone'
    BY <2>1 DEF WindowInv, NothingUndone, Running
  <2> QED
    BY <2>1, <2>2, <2>3, <2>4 DEF WindowInv, Running
<1>6. ASSUME NEW p \in Procs, Cancel(p) PROVE WindowInv'
  <2>1. /\ UNCHANGED <<pc, mem, chosen>>
        /\ form' = [form EXCEPT ![p] = NoForm]
    BY <1>6 DEF Cancel, Hide, vars
  <2>2. FormFresh' /\ NothingUndone'
    BY <2>1 DEF WindowInv, FormFresh, NothingUndone, Running
  <2> QED
    BY <2>1, <2>2 DEF WindowInv, Running
<1>7. ASSUME NEW p \in Procs, DismissWizard(p) \/ Check(p) PROVE WindowInv'
  <2>1. UNCHANGED <<pc, mem, chosen, form>>
    BY <1>7 DEF DismissWizard, Check, vars, formVars
  <2>2. FormFresh' /\ NothingUndone'
    BY <2>1 DEF WindowInv, FormFresh, NothingUndone, Running
  <2> QED
    BY <2>1, <2>2 DEF WindowInv, Running
<1>8. ASSUME NEW p \in Procs, NEW typed \in SUBSET FormFields, Apply(p, typed) PROVE WindowInv'
  <2>1. PICK kept \in Kept(p, typed), id \in Ids :
          SetFields(p, Applied(p, kept), id) /\ Choose(p, kept)
    BY <1>8 DEF Apply
  <2>2. /\ Applied(p, kept) \in [Fields -> 0..MaxEdits]
        /\ kept \in [typed -> Values]
        /\ Running(p)
    BY <1>8, <2>1, WrittenFields DEF Apply, SetFields, Running
  <2>3. \A f \in Fields \ {UrlField} :
          Applied(p, kept)[f] = IF f \in typed THEN kept[f] ELSE mem[p].fields[f]
    BY <1>8, <2>2 DEF Apply, Applied, WindowInv, FormFresh
  <2>4. /\ form' = [form EXCEPT ![p] = NoForm]
        /\ typed \in SUBSET Fields
    BY <1>8, WindowAssumption DEF Apply, Hide
  <2> QED
    BY <2>1, <2>2, <2>3, <2>4, EditWindowInv
<1>9. ASSUME NEW p \in Procs, NEW f \in Fields,
             SetField(p, f), form' = form, f \in FormFields => f = UrlField
      PROVE  WindowInv'
  <2> DEFINE kept == [g \in {f} |-> mem[p].edit + 1]
  <2>0. /\ SetFields(p, [mem[p].fields EXCEPT ![f] = mem[p].edit + 1], mem[p].hwid)
        /\ Choose(p, kept)
    BY <1>9 DEF SetField
  <2>1. /\ [mem[p].fields EXCEPT ![f] = mem[p].edit + 1] \in [Fields -> 0..MaxEdits]
        /\ mem[p].hwid \in Ids
        /\ mem[p] \in Contents
        /\ kept \in [{f} -> Values]
    BY <2>0, <1>t, WrittenFields DEF SetFields, Running
  <2>2. \A g \in Fields \ {UrlField} :
          [mem[p].fields EXCEPT ![f] = mem[p].edit + 1][g]
            = IF g \in {f} THEN kept[g] ELSE mem[p].fields[g]
    BY <2>1 DEF Contents
  <2>3. {f} \cap FormFields \subseteq {UrlField} /\ {f} \in SUBSET Fields
    BY <1>9
  <2> QED
    BY <1>9, <2>0, <2>1, <2>2, <2>3, EditWindowInv
<1>10. ASSUME NEW p \in Procs, NEW f \in Fields, Override(p, f) PROVE WindowInv'
  BY <1>9, <1>10 DEF Override
<1>11. ASSUME NEW p \in Procs, Connect(p) PROVE WindowInv'
  BY <1>9, <1>11, WindowAssumption DEF Connect
<1>12. ASSUME UNCHANGED allVars PROVE WindowInv'
  <2>1. UNCHANGED <<pc, mem, chosen, form>>
    BY <1>12 DEF allVars, vars, windowVars, formVars
  <2>2. FormFresh' /\ NothingUndone'
    BY <2>1 DEF WindowInv, FormFresh, NothingUndone, Running
  <2> QED
    BY <2>1, <2>2 DEF WindowInv, Running
<1> QED
  BY <1>1, <1>2, <1>3, <1>4, <1>5, <1>6, <1>7, <1>8, <1>10, <1>11, <1>12
  DEF WindowNext, StoreStep

\* Both invariants hold throughout the composition.
THEOREM WindowSpecInv == WindowSpec => [](IInv /\ WindowInv)
<1>1. WindowInit => IInv /\ WindowInv
  BY InitIInv, InitWindowInv DEF WindowInit
<1>2. IInv /\ WindowInv /\ [WindowNext]_allVars => IInv' /\ WindowInv'
  <2> SUFFICES ASSUME IInv, WindowInv, [WindowNext]_allVars PROVE IInv' /\ WindowInv'
    OBVIOUS
  <2>1. TypeOK
    BY DEF IInv
  <2>2. IInv'
    BY <2>1, WindowStepIsStoreStep, NextIInv
  <2>3. TypeOK'
    BY <2>2 DEF IInv
  <2> QED
    BY <2>1, <2>2, <2>3, NextWindowInv
<1> QED
  BY <1>1, <1>2, PTL DEF WindowSpec

\* The windows implement the store: all they do to the settings is edits
\* that leave the ports alone, each followed by a Save.
THEOREM WindowsImplementStore == WindowSpec => Spec
<1>1. WindowInit => Init
  BY DEF WindowInit
<1>2. IInv => TypeOK
  BY DEF IInv
<1> QED
  BY <1>1, <1>2, WindowSpecInv, WindowStepIsStoreStep, PTL DEF WindowSpec, Spec

\* No form that is applied late undoes an override, or any field but the URL.
THEOREM WindowsUndoNothing == WindowSpec => []NothingUndone
<1>1. WindowInv => NothingUndone
  BY DEF WindowInv
<1> QED
  BY <1>1, WindowSpecInv, PTL
=============================================================================
