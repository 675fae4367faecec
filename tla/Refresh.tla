------------------------------ MODULE Refresh ------------------------------
(***************************************************************************)
(* The refresh cycle and the two goroutines that run it: update.Timer's    *)
(* loop (internal/update/timer.go, refreshOnce) and the UI thread          *)
(* (cmd/subrelay/main.go, refreshNow), sharing the settings, the engine,   *)
(* the state manager (internal/state) and the tray, from start to exit.    *)
(*                                                                         *)
(* Nothing excludes the two cycles from each other: a lock is taken and    *)
(* released at each shared step, so each such step is one action.  The     *)
(* engine is the abstract one, reached through its calls and answers only. *)
(*                                                                         *)
(* What the user can edit is one version number: a Fetch takes the         *)
(* subscription URL of the version it reads, a Build the overrides and     *)
(* balancer ports of the version it reads, later.                          *)
(***************************************************************************)
EXTENDS Naturals

CONSTANTS
    MaxVersion,   \* bound on the number of edits of the settings
    NoURL,        \* versions of the settings without a subscription URL
    NoConfig      \* nothing is served, published or built

Actors == {"timer", "ui"}
Versions == 0..MaxVersion
Configs == [fetched : Versions, built : Versions]

ASSUME RefreshAssumption ==
    /\ MaxVersion \in Nat
    /\ NoURL \subseteq Versions
    /\ NoConfig \notin Configs

VARIABLES
    version,      \* the settings the user has last applied
    serving, call, arg, reply,    \* the engine, as in EngineAbs
    snap,         \* the state manager's snapshot
    icon, menu,   \* what the tray's icon and menu were last built from
    trayReady,    \* globalTray has been assigned
    cancelled,    \* the timer's context is cancelled
    pc,           \* where each goroutine is
    got,          \* the version whose URL a cycle fetched
    cfg,          \* the options a cycle has built
    copy          \* the snapshot Rebuild works from

engineVars == <<serving, call, arg, reply>>
localVars == <<got, cfg, copy>>
vars == <<version, engineVars, snap, icon, menu, trayReady, cancelled, pc, localVars>>

Engine == INSTANCE EngineAbs WITH Callers <- Actors

Snapshots == [cfg : Configs \cup {NoConfig}, engine : {"stopped", "running"},
              error : BOOLEAN]
EmptySnapshot == [cfg |-> NoConfig, engine |-> "stopped", error |-> FALSE]

\* iconForSnapshot looks at the engine state and the error only.
Icons == [engine : {"stopped", "running"}, error : BOOLEAN]
IconOf(s) == [engine |-> s.engine, error |-> s.error]

\* main.run up to timer.Start: the tray has been built from the empty
\* snapshot, the timer begins with a refresh, the UI thread is still on its
\* way to a.Run.
Init ==
    /\ version \in Versions
    /\ Engine!AbsInit
    /\ snap = EmptySnapshot
    /\ icon = IconOf(EmptySnapshot)
    /\ menu = EmptySnapshot
    /\ trayReady = FALSE
    /\ cancelled = FALSE
    /\ pc = [a \in Actors |-> IF a = "timer" THEN "fetch" ELSE "boot"]
    /\ got = [a \in Actors |-> 0]
    /\ cfg = [a \in Actors |-> NoConfig]
    /\ copy = [a \in Actors |-> EmptySnapshot]

Goto(a, l) == pc' = [pc EXCEPT ![a] = l]

\* Locals that no later step of the cycle reads are dropped.
Forget(a) ==
    /\ got' = [got EXCEPT ![a] = 0]
    /\ cfg' = [cfg EXCEPT ![a] = NoConfig]
    /\ Engine!Discard(a)
    /\ UNCHANGED copy

-----------------------------------------------------------------------------
(* The cycle, as refreshOnce and refreshNow both run it                    *)

\* Mutant: a cycle that finds the other one's Reload coming reports an error.
FetchBusy(a) ==
    /\ pc[a] = "fetch"
    /\ IF version \in NoURL \/ \E b \in Actors \ {a} : cfg[b] # NoConfig
       THEN Goto(a, "fail") /\ UNCHANGED got
       ELSE Goto(a, "reply") /\ got' = [got EXCEPT ![a] = version]
    /\ UNCHANGED <<version, engineVars, snap, icon, menu, trayReady, cancelled, cfg, copy>>

\* Fetch reads the URL and headers under the settings' lock.
Fetch(a) ==
    /\ pc[a] = "fetch"
    /\ IF version \in NoURL
       THEN Goto(a, "fail") /\ UNCHANGED got
       ELSE Goto(a, "reply") /\ got' = [got EXCEPT ![a] = version]
    /\ UNCHANGED <<version, engineVars, snap, icon, menu, trayReady, cancelled, cfg, copy>>

\* The timer's request carries the timer's context, the UI's carries none.
FetchOk(a) ==
    /\ pc[a] = "reply"
    /\ ~(a = "timer" /\ cancelled)
    /\ Goto(a, "plan")
    /\ UNCHANGED <<version, engineVars, snap, icon, menu, trayReady, cancelled, localVars>>

\* Mutant: a failed request is tried again until it succeeds.
FetchRetries(a) ==
    /\ pc[a] = "reply"
    /\ Goto(a, "fetch")
    /\ UNCHANGED <<version, engineVars, snap, icon, menu, trayReady, cancelled, localVars>>

FetchFails(a) ==
    /\ pc[a] = "reply"
    /\ Goto(a, "fail")
    /\ UNCHANGED <<version, engineVars, snap, icon, menu, trayReady, cancelled, localVars>>

PlanOk(a) ==
    /\ pc[a] = "plan"
    /\ Goto(a, "build")
    /\ UNCHANGED <<version, engineVars, snap, icon, menu, trayReady, cancelled, localVars>>

PlanFails(a) ==
    /\ pc[a] = "plan"
    /\ Goto(a, "fail")
    /\ UNCHANGED <<version, engineVars, snap, icon, menu, trayReady, cancelled, localVars>>

\* Build reads the settings again, under their lock.
BuildOk(a) ==
    /\ pc[a] = "build"
    /\ cfg' = [cfg EXCEPT ![a] = [fetched |-> got[a], built |-> version]]
    /\ got' = [got EXCEPT ![a] = 0]
    /\ Goto(a, "reload")
    /\ UNCHANGED <<version, engineVars, snap, icon, menu, trayReady, cancelled, copy>>

BuildFails(a) ==
    /\ pc[a] = "build"
    /\ Goto(a, "fail")
    /\ UNCHANGED <<version, engineVars, snap, icon, menu, trayReady, cancelled, localVars>>

CallReload(a) ==
    /\ pc[a] = "reload"
    /\ Engine!AbsCall(a, "replace", cfg[a])
    /\ Goto(a, "reloading")
    /\ UNCHANGED <<version, snap, icon, menu, trayReady, cancelled, localVars>>

ReloadDrops(a) ==
    /\ pc[a] = "reloading"
    /\ Engine!Drop(a)
    /\ UNCHANGED <<version, snap, icon, menu, trayReady, cancelled, pc, localVars>>

\* Mutant: Reload's answer is published as the engine's state.
ReloadOkUnasked(a) ==
    /\ pc[a] = "reloading"
    /\ Engine!Replaced(a)
    /\ Goto(a, "update")
    /\ UNCHANGED <<version, snap, icon, menu, trayReady, cancelled, localVars>>

ReloadOk(a) ==
    /\ pc[a] = "reloading"
    /\ Engine!Replaced(a)
    /\ Goto(a, "query")
    /\ UNCHANGED <<version, snap, icon, menu, trayReady, cancelled, localVars>>

ReloadFails(a) ==
    /\ pc[a] = "reloading"
    /\ Engine!NotReplaced(a)
    /\ Goto(a, "fail")
    /\ UNCHANGED <<version, snap, icon, menu, trayReady, cancelled, localVars>>

\* engine.State(), evaluated before Update is entered.
CallState(a) ==
    /\ pc[a] = "query"
    /\ Engine!AbsCall(a, "query", NoConfig)
    /\ Goto(a, "querying")
    /\ UNCHANGED <<version, snap, icon, menu, trayReady, cancelled, localVars>>

StateReturns(a) ==
    /\ pc[a] = "querying"
    /\ Engine!Observed(a)
    /\ Goto(a, "update")
    /\ UNCHANGED <<version, snap, icon, menu, trayReady, cancelled, localVars>>

\* Mutant: Update keeps the engine state it has.
UpdateKeepsEngine(a) ==
    /\ pc[a] = "update"
    /\ snap' = [cfg |-> cfg[a], engine |-> snap.engine, error |-> FALSE]
    /\ Goto(a, "clear")
    /\ Forget(a)
    /\ UNCHANGED <<version, icon, menu, trayReady, cancelled>>

Update(a) ==
    /\ pc[a] = "update"
    /\ snap' = [cfg |-> cfg[a], engine |-> reply[a], error |-> FALSE]
    /\ Goto(a, "clear")
    /\ Forget(a)
    /\ UNCHANGED <<version, icon, menu, trayReady, cancelled>>

ClearError(a) ==
    /\ pc[a] = "clear"
    /\ snap' = [snap EXCEPT !.error = FALSE]
    /\ Goto(a, "rebuild")
    /\ UNCHANGED <<version, engineVars, icon, menu, trayReady, cancelled, localVars>>

\* Mutant: an error ends the timer's loop.
SetErrorStopsTimer(a) ==
    /\ pc[a] = "fail"
    /\ snap' = [snap EXCEPT !.error = TRUE]
    /\ Goto(a, IF a = "timer" THEN "done" ELSE "rebuild")
    /\ Forget(a)
    /\ UNCHANGED <<version, icon, menu, trayReady, cancelled>>

\* The error path of every stage.
SetError(a) ==
    /\ pc[a] = "fail"
    /\ snap' = [snap EXCEPT !.error = TRUE]
    /\ Goto(a, "rebuild")
    /\ Forget(a)
    /\ UNCHANGED <<version, icon, menu, trayReady, cancelled>>

\* The cycle returns: the timer to its select, the UI thread to its events.
Done(a) ==
    /\ Goto(a, IF a = "timer" THEN "sleep" ELSE "idle")
    /\ copy' = [copy EXCEPT ![a] = EmptySnapshot]
    /\ UNCHANGED <<got, cfg>>

\* globalTray is still nil: nothing is shown.
NoTray(a) ==
    /\ pc[a] = "rebuild"
    /\ ~trayReady
    /\ Done(a)
    /\ UNCHANGED <<version, engineVars, snap, icon, menu, trayReady, cancelled>>

\* Rebuild copies the snapshot under the manager's lock ...
CopySnapshot(a) ==
    /\ pc[a] = "rebuild"
    /\ trayReady
    /\ copy' = [copy EXCEPT ![a] = snap]
    /\ Goto(a, "icon")
    /\ UNCHANGED <<version, engineVars, snap, icon, menu, trayReady, cancelled, got, cfg>>

\* ... and sets first the icon, then the menu from the copy, under no lock.
ShowIcon(a) ==
    /\ pc[a] = "icon"
    /\ icon' = IconOf(copy[a])
    /\ Goto(a, "menu")
    /\ UNCHANGED <<version, engineVars, snap, menu, trayReady, cancelled, localVars>>

ShowMenu(a) ==
    /\ pc[a] = "menu"
    /\ menu' = copy[a]
    /\ Done(a)
    /\ UNCHANGED <<version, engineVars, snap, icon, trayReady, cancelled>>

-----------------------------------------------------------------------------
(* The UI thread                                                           *)

\* The rest of main.run: globalTray = t, then the event loop.
Boot ==
    /\ pc["ui"] = "boot"
    /\ trayReady' = TRUE
    /\ Goto("ui", "idle")
    /\ UNCHANGED <<version, engineVars, snap, icon, menu, cancelled, localVars>>

\* Settings window, first-run wizard or override check box: edit the
\* settings, save them, call back into refreshNow.
Edit ==
    /\ pc["ui"] = "idle"
    /\ version < MaxVersion
    /\ version' = version + 1
    /\ Goto("ui", "check")
    /\ UNCHANGED <<engineVars, snap, icon, menu, trayReady, cancelled, localVars>>

\* The nodes window's refresh button.
PressRefresh ==
    /\ pc["ui"] = "idle"
    /\ Goto("ui", "check")
    /\ UNCHANGED <<version, engineVars, snap, icon, menu, trayReady, cancelled, localVars>>

\* refreshNow returns at once, with nothing to show, when there is no URL.
CheckURL ==
    /\ pc["ui"] = "check"
    /\ Goto("ui", IF version \in NoURL THEN "idle" ELSE "fetch")
    /\ UNCHANGED <<version, engineVars, snap, icon, menu, trayReady, cancelled, localVars>>

\* The tray's exit entry: shutdown stops the engine (and closes the log, see
\* Logger), then a.Quit().
PressExit ==
    /\ pc["ui"] = "idle"
    /\ Engine!AbsCall("ui", "stop", NoConfig)
    /\ Goto("ui", "stopping")
    /\ UNCHANGED <<version, snap, icon, menu, trayReady, cancelled, localVars>>

EngineStopped ==
    /\ pc["ui"] = "stopping"
    /\ Engine!Stopped("ui")
    /\ Goto("ui", "quit")
    /\ UNCHANGED <<version, snap, icon, menu, trayReady, cancelled, localVars>>

\* Mutant: timer.Stop waits without having cancelled the context.
CancelForgotten ==
    /\ pc["ui"] = "quit"
    /\ Goto("ui", "waiting")
    /\ UNCHANGED <<version, engineVars, snap, icon, menu, trayReady, cancelled, localVars>>

\* a.Run returns and timer.Stop cancels the timer's context ...
CancelTimer ==
    /\ pc["ui"] = "quit"
    /\ cancelled' = TRUE
    /\ Goto("ui", "waiting")
    /\ UNCHANGED <<version, engineVars, snap, icon, menu, trayReady, localVars>>

\* Mutant: timer.Stop does not wait for the goroutine.
ExitAtOnce ==
    /\ pc["ui"] = "waiting"
    /\ Goto("ui", "exited")
    /\ UNCHANGED <<version, engineVars, snap, icon, menu, trayReady, cancelled, localVars>>

\* ... and waits for its goroutine; run returns and the process ends.
Exit ==
    /\ pc["ui"] = "waiting"
    /\ pc["timer"] = "done"
    /\ Goto("ui", "exited")
    /\ UNCHANGED <<version, engineVars, snap, icon, menu, trayReady, cancelled, localVars>>

-----------------------------------------------------------------------------
(* The timer's loop                                                        *)

\* select may take a tick although the context is cancelled too.
Tick ==
    /\ pc["timer"] = "sleep"
    /\ pc["ui"] # "exited"
    /\ Goto("timer", "fetch")
    /\ UNCHANGED <<version, engineVars, snap, icon, menu, trayReady, cancelled, localVars>>

TimerExits ==
    /\ pc["timer"] = "sleep"
    /\ cancelled
    /\ Goto("timer", "done")
    /\ UNCHANGED <<version, engineVars, snap, icon, menu, trayReady, cancelled, localVars>>

-----------------------------------------------------------------------------
\* Steps of a cycle that depend on nobody else.
CycleStep(a) ==
    \/ Fetch(a) \/ FetchOk(a) \/ FetchFails(a)
    \/ PlanOk(a) \/ PlanFails(a) \/ BuildOk(a) \/ BuildFails(a)
    \/ CallReload(a) \/ CallState(a)
    \/ Update(a) \/ ClearError(a) \/ SetError(a)
    \/ NoTray(a) \/ CopySnapshot(a) \/ ShowIcon(a) \/ ShowMenu(a)

\* Answers of the engine to the cycle's calls.
EngineAnswers(a) == ReloadOk(a) \/ ReloadFails(a) \/ StateReturns(a)

UiStep == Boot \/ CheckURL \/ EngineStopped \/ CancelTimer \/ Exit

\* The process is over.
Terminated == pc["ui"] = "exited" /\ UNCHANGED vars

Next ==
    \/ \E a \in Actors : CycleStep(a) \/ ReloadDrops(a) \/ EngineAnswers(a)
    \/ UiStep \/ Edit \/ PressRefresh \/ PressExit
    \/ Tick \/ TimerExits
    \/ Terminated

Spec == Init /\ [][Next]_vars

\* A request ends within the client's timeout, the other stages compute, and
\* the engine answers every call; the ticker ticks; a select with two ready
\* cases takes each of them sooner or later.  The user need not do anything.
FairSpec ==
    /\ Spec
    /\ \A a \in Actors :
          /\ WF_vars(CycleStep(a))
          /\ WF_vars(ReloadDrops(a))
          /\ SF_vars(EngineAnswers(a))
    /\ WF_vars(UiStep)
    /\ WF_vars(Tick)
    /\ SF_vars(TimerExits)

-----------------------------------------------------------------------------
(* Properties                                                              *)

CyclePoints == {"fetch", "reply", "plan", "build", "reload", "reloading", "query",
                "querying", "update", "clear", "fail", "rebuild", "icon", "menu"}
ExitPoints == {"stopping", "quit", "waiting", "exited"}

TypeOK ==
    /\ version \in Versions
    /\ serving \in Configs \cup {NoConfig}
    /\ call \in [Actors -> {"idle", "replace", "stop", "query"}]
    /\ arg \in [Actors -> Configs \cup {NoConfig}]
    /\ reply \in [Actors -> {"none", "ok", "error", "stopped", "running"}]
    /\ snap \in Snapshots
    /\ icon \in Icons
    /\ menu \in Snapshots
    /\ trayReady \in BOOLEAN
    /\ cancelled \in BOOLEAN
    /\ pc \in [Actors -> CyclePoints \cup ExitPoints
                         \cup {"boot", "idle", "check", "sleep", "done"}]
    /\ got \in [Actors -> Versions]
    /\ cfg \in [Actors -> Configs \cup {NoConfig}]
    /\ copy \in [Actors -> Snapshots]

\* The process does not end under the timer's feet: when run returns, the
\* timer's goroutine has finished, so no engine call is in progress.
ExitAfterTimer ==
    pc["ui"] = "exited" =>
        /\ pc["timer"] = "done"
        /\ \A a \in Actors : call[a] = "idle"

\* What the user has applied is what is served and shown in the end: once
\* the settings have a URL and no stage fails any more, both the engine and
\* the tray come to the latest version, whatever overlapping cycles did
\* before.  (A refresh in progress may have the engine stopped.)
Failure ==
    \E a \in Actors : FetchFails(a) \/ PlanFails(a) \/ BuildFails(a) \/ ReloadFails(a)

Latest == [fetched |-> version, built |-> version]

Converges ==
    (/\ <>[][~Failure]_vars
     /\ <>[](version \notin NoURL /\ pc["ui"] \notin ExitPoints))
    => /\ <>[](serving \in {NoConfig, Latest})
       /\ []<>(serving = Latest)
       /\ <>[](snap.cfg = Latest /\ ~snap.error)
       /\ <>[](menu.cfg = Latest /\ ~menu.error /\ ~icon.error)

\* What a cycle has in hand, at each of its points, is of the latest version.
HasLatest(a) ==
    /\ pc[a] \in {"reply", "plan", "build"} => got[a] = version
    /\ pc[a] \in {"reload", "reloading", "query", "querying", "update"} => cfg[a] = Latest
    /\ pc[a] = "reloading" => arg[a] = Latest
    /\ pc[a] \in {"icon", "menu"} => copy[a].cfg = Latest

Current ==
    /\ \A a \in Actors : HasLatest(a)
    /\ serving \in {NoConfig, Latest}
    /\ snap.cfg = Latest
    /\ menu.cfg = Latest

NoErrors ==
    /\ version \notin NoURL
    /\ \A a \in Actors : pc[a] # "fail" /\ (pc[a] \in {"icon", "menu"} => ~copy[a].error)
    /\ ~snap.error /\ ~menu.error /\ ~icon.error

\* The engine runs, or is being replaced, and status and icon say that it
\* runs; so does what the timer's cycle is about to publish or to show.
Running ==
    /\ pc["ui"] = "idle"
    /\ pc["timer"] # "reloading" => serving # NoConfig
    /\ pc["timer"] = "update" => reply["timer"] = "running"
    /\ pc["timer"] \in {"icon", "menu"} => copy["timer"].engine = "running"
    /\ snap.engine = "running"
    /\ icon.engine = "running"
    /\ menu.engine = "running"

\* However wrong a status two overlapping cycles have left behind, the
\* timer's own cycles correct it: once no stage fails any more and the user
\* starts no refresh, the engine runs, and status and icon say so, for good.
StatusRecovers ==
    (/\ <>[][~Failure]_vars
     /\ <>[](version \notin NoURL /\ pc["ui"] = "idle"))
    => <>[]Running

\* What Converges and StatusRecovers bring about stays.  Until the settings
\* change no older version comes back, however the cycles overlap and
\* whatever fails in them; until a stage fails no error does; and until the
\* user acts too the engine and the status that says so go on running.
SettledStays ==
    [][/\ version' = version => /\ Current => Current'
                                /\ NoErrors /\ ~Failure => NoErrors'
       /\ Running /\ ~Failure /\ pc'["ui"] = "idle" => Running']_vars

\* A cycle that has begun ends, however its stages fail.
CycleEnds == \A a \in Actors : pc[a] \in CyclePoints ~> pc[a] \notin CyclePoints

\* Pressing exit ends the process, even in the middle of a refresh.
ExitCompletes == pc["ui"] = "stopping" ~> pc["ui"] = "exited"

\* With neither cycle in progress, the status line and icon say "running"
\* only when the engine runs: "a dynamic tray icon reflecting the current
\* engine state and error status", "Errors are ... recorded in the state
\* manager".
StatusHonest ==
    (/\ pc["timer"] = "sleep"
     /\ pc["ui"] = "idle"
     /\ snap.engine = "running"
     /\ ~snap.error)
    => serving # NoConfig
=============================================================================
