------------------------------- MODULE Engine -------------------------------
(***************************************************************************)
(* internal/core/engine.go: the owner of the sing-box instance.  Several   *)
(* goroutines (the refresh timer, the UI thread) call Start, Reload, Stop  *)
(* and State; each critical section of e.mu is one action, except that     *)
(* Start's is cut at the two calls that can fail and take time, box.New    *)
(* and instance.Start, during which it keeps the lock.                     *)
(*                                                                         *)
(* An instance identity stands for one attempt of Start: the context the   *)
(* attempt creates and the box it builds.  Identities are reused once both *)
(* are released, so an instance that is never released is never reused.    *)
(* e.ctx is written with e.cancel and never read, and is left out.         *)
(***************************************************************************)
CONSTANTS
    Callers,      \* goroutines that call the engine
    Configs,      \* sing-box option values
    Instances,    \* identities of start attempts
    Nobody,       \* e.mu is free
    NoConfig,     \* a box that is not open / no argument
    NoInstance    \* the nil *box.Box, the nil cancel function

ASSUME EngineAssumption ==
    /\ Nobody \notin Callers
    /\ NoConfig \notin Configs
    /\ NoInstance \notin Instances

VARIABLES
    mu,         \* who holds e.mu across steps
    state,      \* e.state
    current,    \* e.current
    cancel,     \* the attempt whose context e.cancel cancels
    box,        \* the options each open box was built from
    ctxs,       \* the attempts whose context is not cancelled
    pc,         \* where each caller is
    req,        \* the options a caller passed to Start or Reload
    inst,       \* Start's local instance and ctx
    reply       \* the last answer each caller received

vars == <<mu, state, current, cancel, box, ctxs, pc, req, inst, reply>>

\* StateStopping is declared in the code and never assigned.
Phases == {"stopped", "starting", "running"}

Init ==
    /\ mu = Nobody
    /\ state = "stopped"
    /\ current = NoInstance
    /\ cancel = NoInstance
    /\ box = [i \in Instances |-> NoConfig]
    /\ ctxs = {}
    /\ pc = [c \in Callers |-> "idle"]
    /\ req = [c \in Callers |-> NoConfig]
    /\ inst = [c \in Callers |-> NoInstance]
    /\ reply = [c \in Callers |-> "none"]

-----------------------------------------------------------------------------
Call(c, op, o) ==
    /\ pc[c] = "idle"
    /\ pc' = [pc EXCEPT ![c] = op]
    /\ req' = [req EXCEPT ![c] = o]
    /\ reply' = [reply EXCEPT ![c] = "none"]
    /\ UNCHANGED <<mu, state, current, cancel, box, ctxs, inst>>

Return(c, r) ==
    /\ pc' = [pc EXCEPT ![c] = "idle"]
    /\ req' = [req EXCEPT ![c] = NoConfig]
    /\ inst' = [inst EXCEPT ![c] = NoInstance]
    /\ reply' = [reply EXCEPT ![c] = r]

\* The boxes and contexts that remain once stopLocked has run, if there is
\* an instance for it to stop.
BoxesAfterStop ==
    IF current = NoInstance THEN box ELSE [box EXCEPT ![current] = NoConfig]

CtxsAfterStop == IF current = NoInstance THEN ctxs ELSE ctxs \ {cancel}

\* Mutant: stopLocked announces the stop and never completes it.
StopStaysStopping ==
    /\ box' = BoxesAfterStop
    /\ ctxs' = CtxsAfterStop
    /\ current' = NoInstance
    /\ cancel' = IF current = NoInstance THEN cancel ELSE NoInstance
    /\ state' = IF current = NoInstance THEN state ELSE "stopping"

\* "if e.current != nil { e.stopLocked() }", with the lock held.
StopIfRunning ==
    /\ box' = BoxesAfterStop
    /\ ctxs' = CtxsAfterStop
    /\ current' = NoInstance
    /\ cancel' = IF current = NoInstance THEN cancel ELSE NoInstance
    /\ state' = IF current = NoInstance THEN state ELSE "stopped"

\* Mutant: Reload keeps the lock while it calls Start.
ReloadStopHolding(c) ==
    /\ pc[c] = "reload"
    /\ mu = Nobody
    /\ mu' = c
    /\ StopIfRunning
    /\ pc' = [pc EXCEPT ![c] = "start"]
    /\ UNCHANGED <<req, inst, reply>>

\* Reload's own critical section; the lock is released before Start takes it.
ReloadStop(c) ==
    /\ pc[c] = "reload"
    /\ mu = Nobody
    /\ StopIfRunning
    /\ pc' = [pc EXCEPT ![c] = "start"]
    /\ UNCHANGED <<mu, req, inst, reply>>

\* Mutant: Start trusts Reload to have stopped the previous instance.
StartBeginTrusting(c) ==
    /\ pc[c] = "start"
    /\ mu = Nobody
    /\ mu' = c
    /\ \E i \in {j \in Instances : box[j] = NoConfig /\ j \notin ctxs} :
          /\ inst' = [inst EXCEPT ![c] = i]
          /\ ctxs' = ctxs \cup {i}
    /\ state' = "starting"
    /\ pc' = [pc EXCEPT ![c] = "new"]
    /\ UNCHANGED <<box, current, cancel, req, reply>>

\* Start up to the call of box.New: stop what runs, create the context.
StartBegin(c) ==
    /\ pc[c] = "start"
    /\ mu = Nobody
    /\ mu' = c
    /\ \E i \in Instances :
          /\ BoxesAfterStop[i] = NoConfig
          /\ i \notin CtxsAfterStop
          /\ inst' = [inst EXCEPT ![c] = i]
          /\ ctxs' = CtxsAfterStop \cup {i}
    /\ box' = BoxesAfterStop
    /\ current' = NoInstance
    /\ cancel' = IF current = NoInstance THEN cancel ELSE NoInstance
    /\ state' = "starting"
    /\ pc' = [pc EXCEPT ![c] = "new"]
    /\ UNCHANGED <<req, reply>>

\* Mutant: the failure of box.New leaves the state as it was.
NewFailsStaysStarting(c) ==
    /\ pc[c] = "new"
    /\ ctxs' = ctxs \ {inst[c]}
    /\ mu' = Nobody
    /\ Return(c, "error")
    /\ UNCHANGED <<state, current, cancel, box>>

NewFails(c) ==
    /\ pc[c] = "new"
    /\ ctxs' = ctxs \ {inst[c]}
    /\ state' = "stopped"
    /\ mu' = Nobody
    /\ Return(c, "error")
    /\ UNCHANGED <<current, cancel, box>>

NewSucceeds(c) ==
    /\ pc[c] = "new"
    /\ box' = [box EXCEPT ![inst[c]] = req[c]]
    /\ pc' = [pc EXCEPT ![c] = "launch"]
    /\ UNCHANGED <<mu, state, current, cancel, ctxs, req, inst, reply>>

\* Mutant: an instance that fails to start is not closed.
LaunchFailsLeaking(c) ==
    /\ pc[c] = "launch"
    /\ ctxs' = ctxs \ {inst[c]}
    /\ state' = "stopped"
    /\ mu' = Nobody
    /\ Return(c, "error")
    /\ UNCHANGED <<current, cancel, box>>

LaunchFails(c) ==
    /\ pc[c] = "launch"
    /\ box' = [box EXCEPT ![inst[c]] = NoConfig]
    /\ ctxs' = ctxs \ {inst[c]}
    /\ state' = "stopped"
    /\ mu' = Nobody
    /\ Return(c, "error")
    /\ UNCHANGED <<current, cancel>>

LaunchSucceeds(c) ==
    /\ pc[c] = "launch"
    /\ current' = inst[c]
    /\ cancel' = inst[c]
    /\ state' = "running"
    /\ mu' = Nobody
    /\ Return(c, "ok")
    /\ UNCHANGED <<box, ctxs>>

Stop(c) ==
    /\ pc[c] = "stop"
    /\ mu = Nobody
    /\ StopIfRunning
    /\ Return(c, "ok")
    /\ UNCHANGED mu

\* Mutant: State reads the field without the lock.
GetStateUnlocked(c) ==
    /\ pc[c] = "query"
    /\ Return(c, state)
    /\ UNCHANGED <<mu, state, current, cancel, box, ctxs>>

GetState(c) ==
    /\ pc[c] = "query"
    /\ mu = Nobody
    /\ Return(c, state)
    /\ UNCHANGED <<mu, state, current, cancel, box, ctxs>>

-----------------------------------------------------------------------------
\* A step of the call a caller is in.
Step(c) ==
    \/ ReloadStop(c) \/ StartBegin(c)
    \/ NewFails(c) \/ NewSucceeds(c)
    \/ LaunchFails(c) \/ LaunchSucceeds(c)
    \/ Stop(c) \/ GetState(c)

Next ==
    \E c \in Callers :
        \/ \E op \in {"start", "reload"}, o \in Configs : Call(c, op, o)
        \/ \E op \in {"stop", "query"} : Call(c, op, NoConfig)
        \/ Step(c)

Spec == Init /\ [][Next]_vars

\* box.New and instance.Start return, and a sync.Mutex hands itself to a
\* waiter that has waited long enough, so a caller whose next step is
\* enabled again and again takes it.
FairSpec == Spec /\ \A c \in Callers : SF_vars(Step(c))

-----------------------------------------------------------------------------
(* Properties                                                              *)

Open == {i \in Instances : box[i] # NoConfig}

TypeOK ==
    /\ mu \in Callers \cup {Nobody}
    /\ state \in Phases
    /\ current \in Instances \cup {NoInstance}
    /\ cancel \in Instances \cup {NoInstance}
    /\ box \in [Instances -> Configs \cup {NoConfig}]
    /\ ctxs \in SUBSET Instances
    /\ pc \in [Callers -> {"idle", "start", "reload", "stop", "query", "new", "launch"}]
    /\ req \in [Callers -> Configs \cup {NoConfig}]
    /\ inst \in [Callers -> Instances \cup {NoInstance}]
    /\ reply \in [Callers -> Phases \cup {"none", "ok", "error"}]

\* Two boxes are never open at once, so a new instance never finds its
\* inbound ports held by the engine's own previous one.  Start must look at
\* e.current again although Reload has just stopped it: between Reload's two
\* critical sections another caller may have started an instance.
OneBox == \A i, j \in Open : i = j

\* Whenever the lock is free, the only box and the only context alive are
\* those of e.current: no failed or replaced attempt is leaked.
NoLeak ==
    mu = Nobody =>
        /\ Open = {current} \ {NoInstance}
        /\ ctxs = {current} \ {NoInstance}
        /\ cancel = current

\* Whoever can read e.state (the lock is free) reads "running" exactly when
\* an instance runs, and "stopped" otherwise; "starting" and "stopping" are
\* never observed.
StateTruthful ==
    mu = Nobody => state = (IF current = NoInstance THEN "stopped" ELSE "running")

\* The configuration the engine serves, for the refinement.
Serving == IF current = NoInstance THEN NoConfig ELSE box[current]

\* EngineAbs does not tell the phases of a replacing call apart.
AbsCallOf(p) ==
    IF p \in {"reload", "start", "new", "launch"} THEN "replace" ELSE p

Abs == INSTANCE EngineAbs WITH
    serving <- Serving,
    call <- [c \in Callers |-> AbsCallOf(pc[c])],
    arg <- req

\* Whatever its callers interleave, the engine behaves as EngineAbs says.
ImplementsAbs == Abs!AbsSpec

\* Every call returns, whichever of its attempts fail.
CallsReturn == \A c \in Callers : pc[c] # "idle" ~> pc[c] = "idle"
=============================================================================
