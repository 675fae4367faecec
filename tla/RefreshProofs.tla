--------------------------- MODULE RefreshProofs ---------------------------
(***************************************************************************)
(* Proofs about the two refresh cycles, for any number of edits of the     *)
(* settings and any choice of the versions that have a URL.                *)
(***************************************************************************)
EXTENDS Refresh, TLAPS

CallAt(p) ==
    IF p = "reloading" THEN "replace"
    ELSE IF p = "querying" THEN "query"
    ELSE IF p = "stopping" THEN "stop"
    ELSE "idle"

\* A goroutine is inside an engine call exactly when it waits for the answer.
CallInv == \A a \in Actors : call[a] = CallAt(pc[a])

\* What a cycle has in hand when it publishes.
LocalInv ==
    \A a \in Actors :
        /\ pc[a] \in {"reload", "query", "querying", "update"} => cfg[a] \in Configs
        /\ pc[a] = "reloading" => cfg[a] \in Configs /\ arg[a] \in Configs
        /\ pc[a] = "update" => reply[a] \in {"stopped", "running"}

\* Each goroutine stays at its own points, and once run has returned the
\* timer's has finished.
PlaceInv ==
    /\ pc["timer"] \in CyclePoints \cup {"sleep", "done"}
    /\ pc["ui"] \in CyclePoints \cup ExitPoints \cup {"boot", "idle", "check"}
    /\ pc["ui"] = "exited" => pc["timer"] = "done"

IInv ==
    /\ TypeOK
    /\ CallInv
    /\ LocalInv
    /\ PlaceInv

\* The empty snapshot is a snapshot and has an icon.
LEMMA EmptySnapshotType ==
  /\ EmptySnapshot \in Snapshots
  /\ IconOf(EmptySnapshot) \in Icons
  BY DEF EmptySnapshot, Snapshots, IconOf, Icons

\* The invariant holds when main.run starts the timer.
LEMMA InitIInv == Init => IInv
<1> SUFFICES ASSUME Init PROVE IInv
  OBVIOUS
<1> USE DEF Init, Actors
<1>1. TypeOK
  <2>1. 0 \in Versions
    BY RefreshAssumption DEF Versions
  <2>2. /\ serving = NoConfig /\ call = [a \in Actors |-> "idle"]
        /\ arg = [a \in Actors |-> NoConfig] /\ reply = [a \in Actors |-> "none"]
    BY DEF Engine!AbsInit
  <2>3. pc \in [Actors -> CyclePoints \cup ExitPoints
                          \cup {"boot", "idle", "check", "sleep", "done"}]
    BY DEF CyclePoints
  <2>4. QED
    BY <2>1, <2>2, <2>3, EmptySnapshotType DEF TypeOK
<1>2. CallInv
  BY DEF CallInv, CallAt, Engine!AbsInit
<1>3. LocalInv /\ PlaceInv
  BY DEF LocalInv, PlaceInv, CyclePoints, ExitPoints
<1>4. QED
  BY <1>1, <1>2, <1>3 DEF IInv

\* Every step of a cycle, on either goroutine, keeps the invariant.
LEMMA CycleIInv ==
  ASSUME IInv, NEW a \in Actors, CycleStep(a) \/ ReloadDrops(a) \/ EngineAnswers(a)
  PROVE  IInv'
<1> USE RefreshAssumption
<1> USE DEF IInv, TypeOK, CallInv, CallAt, LocalInv, PlaceInv, Actors, CyclePoints,
        ExitPoints, Goto, engineVars, localVars
<1>1. CASE Fetch(a)
  BY <1>1 DEF Fetch
<1>2. CASE FetchOk(a)
  BY <1>2 DEF FetchOk
<1>3. CASE FetchFails(a)
  BY <1>3 DEF FetchFails
<1>4. CASE PlanOk(a)
  BY <1>4 DEF PlanOk
<1>5. CASE PlanFails(a)
  BY <1>5 DEF PlanFails
<1>6. CASE BuildOk(a)
  BY <1>6 DEF BuildOk, Configs, Versions
<1>7. CASE BuildFails(a)
  BY <1>7 DEF BuildFails
<1>8. CASE CallReload(a)
  BY <1>8 DEF CallReload, Engine!AbsCall
<1>9. CASE CallState(a)
  BY <1>9 DEF CallState, Engine!AbsCall
<1>10. CASE Update(a)
  <2>1. cfg[a] \in Configs /\ reply[a] \in {"stopped", "running"}
    BY <1>10 DEF Update
  <2>2. snap' \in Snapshots
    BY <1>10, <2>1 DEF Update, Snapshots
  <2>3. QED
    BY <1>10, <2>2 DEF Update, Forget, Engine!Discard, Versions
<1>11. CASE ClearError(a)
  <2>1. snap' \in Snapshots
    BY <1>11 DEF ClearError, Snapshots
  <2>2. QED
    BY <1>11, <2>1 DEF ClearError
<1>12. CASE SetError(a)
  <2>1. snap' \in Snapshots
    BY <1>12 DEF SetError, Snapshots
  <2>2. QED
    BY <1>12, <2>1 DEF SetError, Forget, Engine!Discard, Versions
<1>13. CASE NoTray(a)
  BY <1>13, EmptySnapshotType DEF NoTray, Done
<1>14. CASE CopySnapshot(a)
  BY <1>14 DEF CopySnapshot
<1>15. CASE ShowMenu(a)
  BY <1>15, EmptySnapshotType DEF ShowMenu, Done
<1>16. CASE ShowIcon(a)
  <2>1. icon' \in Icons
    BY <1>16 DEF ShowIcon, IconOf, Icons, Snapshots
  <2>2. QED
    BY <1>16, <2>1 DEF ShowIcon
<1>17. CASE ReloadDrops(a)
  BY <1>17 DEF ReloadDrops, Engine!Drop
<1>18. CASE ReloadOk(a)
  BY <1>18 DEF ReloadOk, Engine!Replaced, Engine!AbsReturn
<1>19. CASE ReloadFails(a)
  BY <1>19 DEF ReloadFails, Engine!NotReplaced, Engine!AbsReturn
<1>20. CASE StateReturns(a)
  BY <1>20 DEF StateReturns, Engine!Observed, Engine!AbsReturn
<1>21. QED
  BY <1>1, <1>2, <1>3, <1>4, <1>5, <1>6, <1>7, <1>8, <1>9, <1>10, <1>11, <1>12, <1>13,
     <1>14, <1>15, <1>16, <1>17, <1>18, <1>19, <1>20 DEF CycleStep, EngineAnswers

\* Every other step of the UI thread and of the timer's loop keeps it too.
LEMMA LoopIInv ==
  ASSUME IInv, UiStep \/ Edit \/ PressRefresh \/ PressExit \/ Tick \/ TimerExits
  PROVE  IInv'
<1> USE RefreshAssumption
<1> USE DEF IInv, TypeOK, CallInv, CallAt, LocalInv, PlaceInv, Actors, CyclePoints,
        ExitPoints, Goto, engineVars, localVars
<1>1. CASE Boot
  BY <1>1 DEF Boot
<1>2. CASE CheckURL
  BY <1>2 DEF CheckURL
<1>3. CASE EngineStopped
  BY <1>3 DEF EngineStopped, Engine!Stopped, Engine!AbsReturn
<1>4. CASE CancelTimer
  BY <1>4 DEF CancelTimer
<1>5. CASE Exit
  BY <1>5 DEF Exit
<1>6. CASE Edit
  BY <1>6 DEF Edit, Versions
<1>7. CASE PressRefresh
  BY <1>7 DEF PressRefresh
<1>8. CASE PressExit
  BY <1>8 DEF PressExit, Engine!AbsCall
<1>9. CASE Tick
  BY <1>9 DEF Tick
<1>10. CASE TimerExits
  BY <1>10 DEF TimerExits
<1>11. QED
  BY <1>1, <1>2, <1>3, <1>4, <1>5, <1>6, <1>7, <1>8, <1>9, <1>10 DEF UiStep

\* Every step keeps the invariant.
THEOREM NextIInv == IInv /\ [Next]_vars => IInv'
<1> SUFFICES ASSUME IInv, [Next]_vars PROVE IInv'
  OBVIOUS
<1>1. ASSUME NEW a \in Actors, CycleStep(a) \/ ReloadDrops(a) \/ EngineAnswers(a)
      PROVE  IInv'
  BY <1>1, CycleIInv
<1>2. CASE UiStep \/ Edit \/ PressRefresh \/ PressExit \/ Tick \/ TimerExits
  BY <1>2, LoopIInv
<1>3. CASE UNCHANGED vars
  BY <1>3 DEF vars, engineVars, localVars, IInv, TypeOK, CallInv, LocalInv, PlaceInv
<1>4. QED
  BY <1>1, <1>2, <1>3 DEF Next, Terminated

\* The inductive invariant holds throughout.
THEOREM SpecIInv == Spec => []IInv
  BY InitIInv, NextIInv, PTL DEF Spec

\* The shared state and the locals of both cycles keep their types: what is
\* published as the engine's state is an answer of State.
THEOREM RefreshTypeOK == Spec => []TypeOK
<1>1. IInv => TypeOK
  BY DEF IInv
<1>2. QED
  BY <1>1, SpecIInv, PTL

\* The process ends only once the timer's goroutine has, with no engine call
\* in progress.
THEOREM RefreshExitAfterTimer == Spec => []ExitAfterTimer
<1>1. IInv => ExitAfterTimer
  BY DEF IInv, CallInv, CallAt, PlaceInv, ExitAfterTimer, Actors
<1>2. QED
  BY <1>1, SpecIInv, PTL

-----------------------------------------------------------------------------
(* The settled state                                                       *)

\* A cycle that has only the latest version in hand hands on only that,
\* whether or not it fails.
LEMMA CycleCurrent ==
  ASSUME IInv, Current, version' = version,
         NEW a \in Actors, CycleStep(a) \/ ReloadDrops(a) \/ EngineAnswers(a)
  PROVE  Current'
<1> USE DEF IInv, TypeOK, Current, HasLatest, Latest, Goto, Actors, engineVars, localVars
<1>1. CASE Fetch(a)
  BY <1>1 DEF Fetch
<1>2. CASE FetchOk(a) \/ FetchFails(a)
  BY <1>2 DEF FetchOk, FetchFails
<1>3. CASE PlanOk(a) \/ PlanFails(a)
  BY <1>3 DEF PlanOk, PlanFails
<1>4. CASE BuildOk(a) \/ BuildFails(a)
  BY <1>4 DEF BuildOk, BuildFails
<1>5. CASE CallReload(a)
  BY <1>5 DEF CallReload, Engine!AbsCall
<1>6. CASE CallState(a)
  BY <1>6 DEF CallState, Engine!AbsCall
<1>7. CASE Update(a)
  BY <1>7 DEF Update, Forget, Engine!Discard
<1>8. CASE ClearError(a)
  <2>1. snap'.cfg = snap.cfg
    BY <1>8 DEF ClearError, Snapshots
  <2>2. QED
    BY <1>8, <2>1 DEF ClearError
<1>9. CASE SetError(a)
  <2>1. snap'.cfg = snap.cfg
    BY <1>9 DEF SetError, Snapshots
  <2>2. QED
    BY <1>9, <2>1 DEF SetError, Forget, Engine!Discard
<1>10. CASE NoTray(a)
  BY <1>10 DEF NoTray, Done
<1>11. CASE CopySnapshot(a)
  BY <1>11 DEF CopySnapshot
<1>12. CASE ShowIcon(a)
  BY <1>12 DEF ShowIcon
<1>13. CASE ShowMenu(a)
  BY <1>13 DEF ShowMenu, Done
<1>14. CASE ReloadDrops(a)
  BY <1>14 DEF ReloadDrops, Engine!Drop
<1>15. CASE ReloadOk(a)
  BY <1>15 DEF ReloadOk, Engine!Replaced, Engine!AbsReturn
<1>16. CASE ReloadFails(a)
  BY <1>16 DEF ReloadFails, Engine!NotReplaced, Engine!AbsReturn
<1>17. CASE StateReturns(a)
  BY <1>17 DEF StateReturns, Engine!Observed, Engine!AbsReturn
<1>18. QED
  BY <1>1, <1>2, <1>3, <1>4, <1>5, <1>6, <1>7, <1>8, <1>9, <1>10, <1>11, <1>12, <1>13,
     <1>14, <1>15, <1>16, <1>17 DEF CycleStep, EngineAnswers

\* Nor does any other step take a cycle back to an older version.
LEMMA LoopCurrent ==
  ASSUME IInv, Current, version' = version,
         UiStep \/ Edit \/ PressRefresh \/ PressExit \/ Tick \/ TimerExits
  PROVE  Current'
<1> USE DEF IInv, TypeOK, Current, HasLatest, Latest, Goto, Actors, engineVars, localVars
<1>1. CASE Boot
  BY <1>1 DEF Boot
<1>2. CASE CheckURL
  BY <1>2 DEF CheckURL
<1>3. CASE EngineStopped
  BY <1>3 DEF EngineStopped, Engine!Stopped, Engine!AbsReturn
<1>4. CASE CancelTimer
  BY <1>4 DEF CancelTimer
<1>5. CASE Exit
  BY <1>5 DEF Exit
<1>6. ~Edit
  BY DEF Edit, Versions
<1>7. CASE PressRefresh
  BY <1>7 DEF PressRefresh
<1>8. CASE PressExit
  BY <1>8 DEF PressExit, Engine!AbsCall
<1>9. CASE Tick
  BY <1>9 DEF Tick
<1>10. CASE TimerExits
  BY <1>10 DEF TimerExits
<1>11. QED
  BY <1>1, <1>2, <1>3, <1>4, <1>5, <1>6, <1>7, <1>8, <1>9, <1>10 DEF UiStep

\* Without a failing stage nothing sets an error, and none is left to show.
LEMMA CycleNoErrors ==
  ASSUME IInv, NoErrors, version' = version, ~Failure,
         NEW a \in Actors, CycleStep(a) \/ ReloadDrops(a) \/ EngineAnswers(a)
  PROVE  NoErrors'
<1> USE DEF IInv, TypeOK, NoErrors, Failure, Goto, Actors, engineVars, localVars
<1>1. CASE Fetch(a) \/ FetchOk(a) \/ PlanOk(a) \/ BuildOk(a)
  BY <1>1 DEF Fetch, FetchOk, PlanOk, BuildOk
<1>2. CASE CallReload(a) \/ CallState(a)
  BY <1>2 DEF CallReload, CallState
<1>3. CASE Update(a)
  BY <1>3 DEF Update, Forget
<1>4. CASE ClearError(a)
  <2>1. ~snap'.error
    BY <1>4 DEF ClearError, Snapshots
  <2>2. QED
    BY <1>4, <2>1 DEF ClearError
<1>5. CASE NoTray(a)
  BY <1>5 DEF NoTray, Done
<1>6. CASE CopySnapshot(a)
  BY <1>6 DEF CopySnapshot
<1>7. CASE ShowIcon(a)
  BY <1>7 DEF ShowIcon, IconOf
<1>8. CASE ShowMenu(a)
  BY <1>8 DEF ShowMenu, Done
<1>9. CASE ReloadDrops(a) \/ ReloadOk(a) \/ StateReturns(a)
  BY <1>9 DEF ReloadDrops, ReloadOk, StateReturns
<1>10. ~SetError(a)
  BY DEF SetError
<1>11. QED
  BY <1>1, <1>2, <1>3, <1>4, <1>5, <1>6, <1>7, <1>8, <1>9, <1>10
  DEF CycleStep, EngineAnswers

\* The other steps touch no error and lead to no point where one is set.
LEMMA LoopNoErrors ==
  ASSUME IInv, NoErrors, version' = version,
         UiStep \/ Edit \/ PressRefresh \/ PressExit \/ Tick \/ TimerExits
  PROVE  NoErrors'
BY DEF IInv, TypeOK, NoErrors, Goto, Actors, engineVars, localVars, UiStep, Boot, CheckURL,
       EngineStopped, CancelTimer, Exit, Edit, PressRefresh, PressExit, Tick, TimerExits

\* Without a failing stage, and with the UI thread idle, a step of a cycle is
\* the timer's, and what it publishes and shows is that the engine runs.
LEMMA CycleRunning ==
  ASSUME IInv, Running, pc'["ui"] = "idle", ~Failure,
         NEW a \in Actors, CycleStep(a) \/ ReloadDrops(a) \/ EngineAnswers(a)
  PROVE  Running'
<1> USE DEF IInv, TypeOK, Running, Failure, Goto, Actors, engineVars, localVars
<1>1. CASE Fetch(a) \/ FetchOk(a) \/ PlanOk(a) \/ BuildOk(a)
  BY <1>1 DEF Fetch, FetchOk, PlanOk, BuildOk
<1>2. CASE CallReload(a) \/ CallState(a)
  BY <1>2 DEF CallReload, CallState, Engine!AbsCall
<1>3. CASE Update(a)
  <2>1. snap'.engine = reply[a]
    BY <1>3 DEF Update
  <2>2. QED
    BY <1>3, <2>1 DEF Update, Forget, Engine!Discard
<1>4. CASE ClearError(a)
  <2>1. snap'.engine = snap.engine
    BY <1>4 DEF ClearError, Snapshots
  <2>2. QED
    BY <1>4, <2>1 DEF ClearError
<1>5. CASE SetError(a)
  <2>1. snap'.engine = snap.engine
    BY <1>5 DEF SetError, Snapshots
  <2>2. QED
    BY <1>5, <2>1 DEF SetError, Forget, Engine!Discard
<1>6. CASE NoTray(a)
  BY <1>6 DEF NoTray, Done
<1>7. CASE CopySnapshot(a)
  BY <1>7 DEF CopySnapshot
<1>8. CASE ShowIcon(a)
  BY <1>8 DEF ShowIcon, IconOf
<1>9. CASE ShowMenu(a)
  BY <1>9 DEF ShowMenu, Done
<1>10. CASE ReloadDrops(a)
  BY <1>10 DEF ReloadDrops, Engine!Drop
<1>11. CASE ReloadOk(a)
  <2>1. arg[a] \in Configs
    BY <1>11 DEF ReloadOk, LocalInv
  <2>2. serving' # NoConfig
    BY <1>11, <2>1, RefreshAssumption DEF ReloadOk, Engine!Replaced
  <2>3. QED
    BY <1>11, <2>2 DEF ReloadOk
<1>12. CASE StateReturns(a)
  BY <1>12 DEF StateReturns, Engine!Observed, Engine!AbsReturn
<1>13. QED
  BY <1>1, <1>2, <1>3, <1>4, <1>5, <1>6, <1>7, <1>8, <1>9, <1>10, <1>11, <1>12
  DEF CycleStep, EngineAnswers

\* The timer's loop touches neither engine nor status, and the UI thread has
\* no step that leaves it idle.
LEMMA LoopRunning ==
  ASSUME IInv, Running, pc'["ui"] = "idle",
         UiStep \/ Edit \/ PressRefresh \/ PressExit \/ Tick \/ TimerExits
  PROVE  Running'
BY DEF IInv, TypeOK, Running, Goto, Actors, engineVars, localVars, UiStep, Boot, CheckURL,
       EngineStopped, CancelTimer, Exit, Edit, PressRefresh, PressExit, Tick, TimerExits

\* For any number of edits and any choice of the versions that have a URL,
\* what the cycles converge to is left again by an edit or a failure only,
\* and a running engine with a status that says so only by these or when the
\* user acts.
THEOREM RefreshSettledStays == Spec => SettledStays
<1>1. IInv /\ [Next]_vars /\ version' = version /\ Current => Current'
  <2> SUFFICES ASSUME IInv, [Next]_vars, version' = version, Current PROVE Current'
    OBVIOUS
  <2>1. ASSUME NEW a \in Actors, CycleStep(a) \/ ReloadDrops(a) \/ EngineAnswers(a)
        PROVE  Current'
    BY <2>1, CycleCurrent
  <2>2. CASE UiStep \/ Edit \/ PressRefresh \/ PressExit \/ Tick \/ TimerExits
    BY <2>2, LoopCurrent
  <2>3. CASE UNCHANGED vars
    BY <2>3 DEF vars, engineVars, localVars, Current, HasLatest, Latest
  <2>4. QED
    BY <2>1, <2>2, <2>3 DEF Next, Terminated
<1>2. IInv /\ [Next]_vars /\ version' = version /\ NoErrors /\ ~Failure => NoErrors'
  <2> SUFFICES ASSUME IInv, [Next]_vars, version' = version, NoErrors, ~Failure
               PROVE  NoErrors'
    OBVIOUS
  <2>1. ASSUME NEW a \in Actors, CycleStep(a) \/ ReloadDrops(a) \/ EngineAnswers(a)
        PROVE  NoErrors'
    BY <2>1, CycleNoErrors
  <2>2. CASE UiStep \/ Edit \/ PressRefresh \/ PressExit \/ Tick \/ TimerExits
    BY <2>2, LoopNoErrors
  <2>3. CASE UNCHANGED vars
    BY <2>3 DEF vars, engineVars, localVars, NoErrors
  <2>4. QED
    BY <2>1, <2>2, <2>3 DEF Next, Terminated
<1>3. IInv /\ [Next]_vars /\ Running /\ ~Failure /\ pc'["ui"] = "idle" => Running'
  <2> SUFFICES ASSUME IInv, [Next]_vars, Running, ~Failure, pc'["ui"] = "idle"
               PROVE  Running'
    OBVIOUS
  <2>1. ASSUME NEW a \in Actors, CycleStep(a) \/ ReloadDrops(a) \/ EngineAnswers(a)
        PROVE  Running'
    BY <2>1, CycleRunning
  <2>2. CASE UiStep \/ Edit \/ PressRefresh \/ PressExit \/ Tick \/ TimerExits
    BY <2>2, LoopRunning
  <2>3. CASE UNCHANGED vars
    BY <2>3 DEF vars, engineVars, localVars, Running
  <2>4. QED
    BY <2>1, <2>2, <2>3 DEF Next, Terminated
<1>4. IInv /\ [Next]_vars =>
        [/\ version' = version => /\ Current => Current'
                                  /\ NoErrors /\ ~Failure => NoErrors'
         /\ Running /\ ~Failure /\ pc'["ui"] = "idle" => Running']_vars
  BY <1>1, <1>2, <1>3
<1>5. QED
  BY <1>4, SpecIInv, PTL DEF Spec, SettledStays
=============================================================================
