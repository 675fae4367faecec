# Subrelay: models, checks and proofs

Subrelay is a tray program that downloads a subscription of VLESS links, gives every node a SOCKS and an HTTP port on
localhost, builds sing-box options from them and runs an embedded sing-box instance. This directory holds TLA+ modules
of its core, the TLC configurations that check them on small instances, and proofs that TLAPS checks. All paths below
are relative to the repository.

## 1. The system

| component | state it keeps | operations | used by |
|---|---|---|---|
| engine, `internal/core/engine.go` | the instance, its cancel function, a phase, a mutex | `Start`, `Reload`, `Stop`, `State` | timer, UI thread |
| builder, `internal/core/builder.go` | none | `Build`: nodes, assignments, overrides to options | refresh cycle |
| port planner, `internal/ports` | none of its own; `settings.PortAssignments` | `Plan`, `DetectConflicts` | refresh cycle |
| subscription, `internal/sub` | none | `Fetch`, `ParseSubscriptionText` | refresh cycle |
| refresh cycle, `internal/update/timer.go` and `cmd/subrelay/main.go` | a ticker and a context; the global tray | `refreshOnce` on the timer's goroutine, `refreshNow` on the UI thread, `Start`, `Stop`, `shutdown` | windows, tray |
| state manager, `internal/state` | the snapshot | `Update`, `SetError`, `ClearError`, `Snapshot` | cycle, tray, windows |
| tray, `internal/tray` | icon and menu | `Rebuild`, the menu's entries | cycle |
| settings, `internal/config` | the settings, `settings.json` | `Load`, `Save`, edits under `Lock` | everybody |
| logger, `internal/logging` | ring, file, subscribers | `Log`, `Lines`, `Clear`, `Close`, `Subscribe`, `Unsubscribe` | everybody |
| windows, `internal/ui` | widgets | apply, wizard, override boxes, refresh button, log viewer | the user |
| release checker, `internal/update/checker.go` | none shared; the label beside the button | `CheckNow`, `IsNewer` | settings window, shell |
| single-instance lock, `cmd/subrelay/lock*.go` | a file lock or a named mutex | acquire, release | shell |
| autostart, paths, translations, drawing | see `PROJECT.json` | | shell |

Two goroutines run the same cycle: fetch, plan, build, reload, publish, show. Every shared object has its own mutex and
each call takes one of them for its own duration, so nothing makes a cycle as a whole exclusive. The settings window
calls back into a cycle after it has released the settings' lock and saved.

What is hard, and what makes each part correct:

* engine: `Reload` is two critical sections, and `Start` has two error paths in which an instance or a context could
  be left behind. One box at a time; nothing alive but the current instance when the lock is free; the phase tells the
  truth; calls return.
* planner: assignments outlive subscriptions and settings. Distinct ports, stable assignments, allocation only within the
  ranges, failure only when a range is truly full, a complete result.
* refresh: overlapping cycles over changing settings, failures at every stage, exit at any time. Cycles end, exit
  completes and waits for the timer, everything converges to the latest settings once failures cease.
* settings: edits, failed writes, crashes and attempts to start twice. What a completed `Save` wrote is in force whenever
  a process runs, and one process at a time uses the file.
* windows: a form that is filled when it opens and applied later, an update button that can be pressed again before its
  answer, a goroutine that refreshes the log view. An old form undoes nothing but the URL; the label tells the truth; the
  view catches up and nothing works for a hidden window.
* subscription and builder: links that are unnamed, repeated, colliding or unusable. Options that refer to nothing they
  do not define, and route each listed port to its node.
* logger: a ring that wraps and is cleared, subscribers that do not receive. The viewer shows the latest lines in order,
  and logging never blocks.

`PROJECT.json` lists the hazards line by line with the properties that cover them.

## 2. The modules

| module | models | extends or instantiates |
|---|---|---|
| `EngineAbs` | what the engine promises its callers: it serves one configuration or none | |
| `Engine` | `engine.go`, one action per critical section, `Start` cut at `box.New` and `instance.Start` | `EngineAbs` (refinement) |
| `PortMap` | what the planner promises the cycle: a map from tags to ports that only grows | |
| `Planner` | `Plan`, one action per turn of its loop, and changes of the settings between runs | `PortMap` (refinement) |
| `Refresh` | both cycles, state manager, tray, start-up and exit | `EngineAbs` (composition) |
| `Store` | settings in memory, `settings.json`, `Load`, `Save`, crashes, the single-instance lock | |
| `ReleaseCheck` | `checker.go` behind the update button | |
| `SettingsWindow` | settings window, wizard and override boxes over the store | `Store`, `ReleaseCheck` |
| `Subscription` | `parse.go` as operators | |
| `Builder` | `builder.go` as operators, and sing-box's choice of a rule | `Subscription` |
| `Pipeline` | the data of a refresh through parse, plan and build, with overrides changing | `Builder` |
| `Logger` | `logger.go` | |
| `LogViewer` | `logs_win.go` over the logger | `Logger` |
| `EngineProofs`, `PlannerProofs`, `RefreshProofs`, `StoreProofs`, `ReleaseProofs`, `PipelineProofs`, `LoggerProofs` | the theorems | their component, the windows included |
| `MC*` | instances for TLC | |

**Engine.** `mu`, `state`, `current` and `cancel` are the fields. `box` says which boxes are open and with which options,
`ctxs` which contexts are alive; both are what a leak would show in. An instance identity stands for one attempt of
`Start` and is reused once box and context are gone, so no bound is needed on the number of calls. `e.ctx` is written and
never read, and is left out. `StateStopping` is declared in the code and never assigned; `TypeOK` says so.

**EngineAbs and Refresh.** `Refresh` uses the engine through `EngineAbs` alone: a call that replaces the configuration
drops the old one, possibly more than once (`Reload`'s own stop, then `Start`'s), and answers "ok" at the moment the
new one is served. `Engine` implements `EngineAbs`, so what `Refresh` assumes is what `engine.go` does. `Discard` is
the caller's dropping of an answer that has gone out of scope. In `Refresh` the user's edits are one version number. A
fetch takes the URL of the version it reads, a build later takes the overrides and balancer ports of the version it
reads, and a configuration records both. Locals that no later step reads are reset (`Forget`), which merges states and
nothing else. `iconForSnapshot` looks at engine state and error only, and `Rebuild` sets icon and menu one after the
other from one copy; they are two actions.

**Planner.** SOCKS and HTTP are treated alike by the code, so what it keeps twice is a function of the protocol. `Plan`
holds both locks from its first line to its last, so runs follow one another and no setting changes meanwhile. The
program starts with any file of `Files`: its own, or one edited by hand in which strings do not parse, a port is given
twice or a port is above 65535. `found` remembers what the file said, for the properties alone. `ListenPort` is the
builder's conversion to 16 bits, modulo `MaxPort + 1`. `DetectConflicts` is an operator no action calls, as in the code.
`nextFree` is modelled by the port it returns and not by its walk; `PlannerNextFreeDecides` proves that there is one such
port or exhaustion, never both or neither. In `PortMap` there is no order, cursor or index: a wanted tag without ports gets
a free pair, and the answer lists the wanted tags or says that a range is full.

**Store.** One protocol and one range stand for both, as `Planner` justifies. A field's value is the number of the
edit that last set it, 0 for its default; the hardware id is apart, because its default is made up anew at every
launch without a file. A refresh is a member of `refreshing` from its reading of a URL that is not empty (`Fetch`) to
its end, and only such a process plans: the URL may be emptied meanwhile, by an old form, and Plan does not look at it
again. `OpenFile` leaves the file torn, `WriteFile` completes it, as `os.WriteFile` truncates and then writes.
`Acquire` comes before `Launch`, as in `run`, and the lock goes with the process, however it ends. `saved` and `told`
are history variables that no action reads. `Crash` is also the exit entry, which saves nothing. `Edit` lets an edit
write anything, which is more than the windows do; `SettingsWindow` is the windows, and implements it.

**SettingsWindow, ReleaseCheck.** Everything in these windows runs on one UI thread, so a handler is one action up to its
call of `Save`, which is `Store`'s. `form` is what the entries were filled with by `Show`. `typed` is the set of entries the
user changed before pressing Save; `Kept` is what `apply` makes of them: the text, or the default where it is empty or does
not parse. `chosen` is a history variable. A check posts its verdict to the label that existed when its button was pressed;
`Show` builds a new one, so `pending` counts the goroutines of the current label only. A version is the sequence of its
parts, each a number or `NotANumber`.

**Subscription, Builder, Pipeline.** A body is the sequence of its lines, what decoding makes of it and the remainder of
its length by four, on which padding depends. Of a link only what decides its fate is kept: scheme, user, fragment,
network. Nodes are kept at the places of their lines, which is the order in which the code appends them, and rules carry
the place of their node: "the first rule" is the one with the least place. `SafeTag` is a constant function, for the
code's property that matters is which tags it identifies. `Outlet` is external: sing-box takes the first rule that lists
the inbound's tag. `Pipeline` takes the planner's answer from `PlanCoversNodes`: the listed tags, all of them.

**Logger, LogViewer.** A line is the moment of its stamp, taken before the lock. `Record` is `Log`'s critical section, `Send`
one turn of the loop over the channels copied there. `recorded` is a history variable. In `LogViewer` the UI thread is one
of the writers, since the clear button logs a line between emptying the ring and refreshing the view. `working` counts the
goroutines that have not been told to stop, `ending` those that have and may tick again before they end, `posted` the
refreshes `fyne.Do` has queued. `Refresh` is one step: it reads the ring once, under the lock, and the level only the UI
thread changes.

## 3. The runs

| run | instance | checks |
|---|---|---|
| `engine` | three callers, two configurations, two attempts | `TypeOK`, `OneBox`, `NoLeak`, `StateTruthful`, `ImplementsAbs`, `CallsReturn` |
| `planner` | four tags (one auto), ports 1 to 5, three range starts, three balancer settings, five subscriptions, four files | `TypeOK`, `DistinctPorts`, `ExhaustionIsReal`, `PlanCoversNodes`, `ConflictsOnlyWithBalancer`, `StablePorts`, `NewPortsInRange`, `KeepsPromises` |
| `refresh` | three versions, the first without a URL | `TypeOK`, `ExitAfterTimer`, `SettledStays`, `Converges`, `StatusRecovers`, `CycleEnds`, `ExitCompletes` |
| `store` | two processes, three tags, two ports, the URL, another form field and an override, two hardware ids, two edits, two checks at once, six releases | `TypeOK`, `EditsDurable`, `SavedPortsDurable`, `DistinctPorts`, `NothingUndone`, `CheckIsUnderWay`, `VerdictIsRight` |
| `pipeline` | seven tags, ten bodies | `TypeOK`, `ReferencesResolve`, `ListedIsProxied`, `DistinctNamesRoute` |
| `logger` | two writers, one of them the UI thread, a ring of two, one channel of one, three lines of which one is an error | `TypeOK`, `LinesAreLatest`, `WorksOnlyWhenAsked`, `RefreshesUntilClosed`, `LogNeverBlocks`, `ViewCatchesUp` |

The bounds are the smallest at which the interesting cases happen. Three callers let two race while a third holds the
lock, and two attempts let one leak while the other runs; calls are unbounded. Five ports make ranges overlap the
balancer's ports and run out; one file gives two tags one port and one a port above the last. Three versions let a
cycle with an older URL overlap a newer one's, from either goroutine, and the number of cycles is unbounded. Two ports
for three tags let a forgotten port go to another tag and none be left; restarts are unbounded. Two edits let a form
be opened, overtaken by an override or the wizard, and then applied, and a completed save be followed by an
interrupted one; two processes are enough for one to be refused; the six releases are older with a greater part,
equal, newer with smaller parts, and two that are not three numbers. The bodies contain tags that share a safe name, a
tag named like a balancer, unnamed links, a fragment equal to another link's number, links that are dropped, and
lengths that are and are not multiples of four. Three lines wrap a ring of two, with a clear at any point, and one
goroutine told to stop (`MaxEnding`) can overlap a new one; `MaxPosted` is 1 because a second posted refresh repeats
the first. Processes, tags and ids of `store` are interchangeable and declared symmetric: the run has no liveness
property. Deadlock is checked except for `Pipeline`, where a panic ends the process.

Every property of these runs is broken by a plausible bug in a mapped definition; the operators marked "Mutant" in the
modules are those bugs, and no specification uses them.

Six more runs state a sentence of the repository's documentation and find it violated:

| run | sentence | what happens |
|---|---|---|
| `engine_reload` | the previous instance is kept running when a reload fails | `Reload` stops it first; nothing runs afterwards |
| `planner_balancer` | allocation never collides with the four balancer ports | each protocol avoids only the balancer's ports of its own |
| `refresh_status` | the icon reflects the engine state and error status | one cycle's `ClearError` erases the other's reload error: "running", and nothing runs |
| `store_ports` | assignments are persisted across restarts | nothing saves after `Plan` |
| `pipeline_routes` | one route rule per node | tags with one safe name, or a balancer's, share an inbound tag, and the first rule wins |
| `pipeline_body` | a body that is not base64 is returned unchanged | the padding count is negative unless the length is a multiple of four, and `strings.Repeat` panics |

Two more comments are contradicted, in the run `logger`. `logs_win.go:27-28` has the log view refresh itself while
auto-refresh is enabled and the window is visible: closing the window stops the goroutine and leaves the box checked, and
`RefreshesUntilClosed`, which is proved, says that a window opened again does not refresh. `logger.go:184-185` calls the order of
`Lines` chronological: it is the order of recording (`LinesAreLatest`), and a line is stamped before its writer waits for the
lock.

**Fairness.** *Engine*: strong fairness of each caller's next step. `box.New` and `instance.Start` return, and a
`sync.Mutex` hands itself to a waiter that has waited a millisecond, so a caller whose step is enabled again and again
takes it. *Refresh*: weak fairness of a cycle's own steps (the HTTP client has a timeout, the other stages compute),
of the ticker and of the UI thread's own steps; strong fairness of the engine's answers, which the other goroutine's
calls can disable, and of the timer's exit, which competes with a tick in one `select` that chooses at random. The
user's actions are not fair: no property needs an edit or an exit to happen. `Converges` is conditional on failures
ceasing and on the settings having a URL for good. `StatusRecovers` is also conditional on the user leaving the UI
thread alone: a refresh of the user's that overlaps the timer's may publish a stale engine state each time, and it is
the timer's next cycle by itself that puts it right. Its goal `Running` allows the engine to be stopped while the
timer reloads it. *LogViewer*: weak fairness of each writer's steps inside `Log`, of the ticker, of the goroutine's
end once its channel is closed, and of the UI thread's finishing a handler and running what is posted; nothing is
asked of the subscriber, and nobody has to press anything.

## 4. The proofs

All theorems are about the specifications TLC runs, for every value of the constants under the named assumptions, which TLC
also evaluates. Each proof has the same skeleton: an inductive `IInv` holds initially (`InitIInv`), every step keeps it
(`NextIInv`, one case per action), so it always holds (`SpecIInv`), and it implies the property.

* **EngineProofs**: `TypeOK`, `OneBox`, `NoLeak`, `StateTruthful`, and `ImplementsAbs`. The safety properties speak of states
  in which the lock is free, so by themselves they are not inductive: `LockInv` says that a caller is between two steps of
  `Start` exactly when it holds the lock, and `BusyInv` what is alive at each of these points (only its own attempt's
  context, and from `box.New` on its own box). `StepAbs` maps each step to a step of `EngineAbs` or a stutter; `StartBegin`
  maps to `Drop` or to a stutter, `LaunchSucceeds` to `Replaced`.
* **PlannerProofs**: `TypeOK`, `DistinctPorts`, `ExhaustionIsReal`, `PlanCoversNodes`, `ConflictsOnlyWithBalancer`,
  `StablePorts`, `NewPortsInRange`, `KeepsPromises`. The strengthening says that during a run `used` is exactly what was
  reserved and what is recorded (`UsedExact`), that a cursor has passed only used ports (`CursorInv`), and that the entries
  are those of the nodes passed (`Covered`, `OutAgrees`). The first makes a new port distinct from all recorded ones, the
  second makes exhaustion real. `DistinctPorts` speaks of the ports listened on, which is not inductive: two recorded ports
  that differ may listen on one if one is above `MaxPort`. `DistinctRecorded` keeps recorded ports apart unless the file had
  both, and `ProgramPairs` keeps what the program recorded within the ports there are, where `ListenPort` is the identity
  (`ListensOnPorts`). `StepPromised` maps each step to a step of `PortMap` or a stutter: `Allocate` to `Give`, `Reuse` and
  `SkipAuto` to none, the returns to `Given` and `Full`. Of the operators, `PlannerNextFreeDecides` and
  `DetectConflictsIsExact` say that they compute what they are for; both rest on the least element of a set of naturals.
  `PlannerAnswersPipeline` is the assumption `Pipeline` makes in its `PlanOk`.
* **RefreshProofs**: `TypeOK`, `ExitAfterTimer` and `SettledStays`. `CallInv` ties a goroutine's place to the call it
  is in, `LocalInv` says what it has in hand where it publishes, `PlaceInv` keeps each goroutine to its own places.
  `SettledStays` is the safety half of convergence: `Converges` and `StatusRecovers` say the system comes to serve and
  show the latest version without error and to say truly that it runs, this theorem that it does not leave again by
  itself. What is shown and served is not closed under steps on its own, since a cycle may carry an older version in
  its locals; `Current` adds that no cycle holds one between its read and its last use (`HasLatest`), `NoErrors` that
  none is about to record or show an error, and `Running` that the timer's is not about to publish or show a stopped
  engine.
* **StoreProofs**: `TypeOK`, `EditsDurable`, `SavedPortsDurable`, `DistinctPorts`, `StoreSingleInstance`, for any number of
  processes, tags, ports and edits. The strengthening relates lock and processes (`LockHeld`) and the file to the last completed
  save: the file is torn, or it is exactly that (`DiskIsSaved`). Over it, `WindowsImplementStore` shows that
  the windows edit the store in no other way than `Edit`, so that all of this holds under them, and `WindowsUndoNothing` that
  an old form undoes nothing but the URL: `FormFresh` says that of an open form only the URL can have been overtaken,
  since every other form field is written by `apply` alone, which closes the form.
* **ReleaseProofs**: `CheckIsUnderWay` and `VerdictIsRight` for any running version and releases. `IsNewerIsOrder` proves
  that the comparison part by part is the order of the numbers that versions of three parts below 1000 stand for.
* **PipelineProofs**: `TypeOK`, `ReferencesResolve`, `ListedIsProxied`, `DistinctNamesRoute` for any bodies, tags and
  `SafeTag`. The strengthening says that every node that reaches the builder can be built, which is what the parser's
  refusal of other transports is for, that the planner's answer is for these nodes, and that the last options were built from
  such a pair under some overrides. That a first matching rule exists is the well-foundedness of the naturals, from the
  library's `WellFoundedInduction`. `UnnamedNodesDiffer` rests on the cardinalities of `FiniteSetTheorems`: each accepted
  line adds one to the number the next unnamed link gets.
* **LoggerProofs**: `TypeOK` and `LinesAreLatest` for any ring size and number of writers. `RingHolds` says for each
  slot which recorded line it holds, before and after the head; `Wraps` is the only arithmetic of remainders needed.
  `ViewerImplementsLogger` carries both over to the logs window, and `WorksOnlyWhenAsked` and `RefreshesUntilClosed`
  are proved of it.

Only model-checked: every liveness property (`CallsReturn`, `Converges`, `StatusRecovers`, `CycleEnds`,
`ExitCompletes`, `LogNeverBlocks`, `ViewCatchesUp`), which need fairness and `ENABLED`. Every invariant and action
property of the passing runs is proved.

## 5. Not modelled

* Autostart, paths, translations, drawing and packaging, for the reasons in `PROJECT.json`.
* `SetEngineState`, which nothing calls.
* Durations: in particular that a changed update interval is read only after the next tick of the old one.
* The release checker's daily loop and its notification: the timer's loop around a check that shares no state. Pre-release
  suffixes are cut off in the code before a version is split and are left out.
* Ranges and balancer ports edited by hand beyond what the settings window accepts. Assignments edited by hand are modelled.
* The HTTP headers other than the hardware id, and TLS, DNS and transport options: carried through unchanged.
* The balancer ports the tray caches, and the nodes window's copy of the snapshot, its search and its copy buttons.
* The logs window's buttons that open the log file and dump the configuration, and the contents of the log file, which
  nothing reads back.
* Widgets. Of the form's validation what matters is modelled by its result (`Kept`).

## 6. Plan

Done, in this order: `EngineAbs` and `Engine` with their proofs; `Planner` with its proofs; `Refresh` on top of
`EngineAbs`; `Store`; `Subscription`, `Builder`, `Pipeline`; `Logger`; then `LogViewer`, `SettingsWindow` and `ReleaseCheck`
over them, and the proofs of `Logger`, `Pipeline`, the windows and the rest of `Planner`.

After that `PortMap`, hand-edited files and 16-bit ports in `Planner`, and the theorem on the stability of what has
converged in `Refresh`. Then the engine's state in what is shown (`StatusRecovers`), refreshes in progress in `Store`,
and what the logs window makes of its comments.

What could follow, most important first:

1. `Refresh`: the balancer ports cached by the tray and the nodes window's copy of the snapshot, as parts of what is shown.
2. A ticker shared by timer and release checker: the interval and its re-reading.
3. `Store` over `PortMap`: between two starts the map only grows, and a start resets it to the last save.
4. A bounded log as an abstract specification that the ring of `Logger` implements.
