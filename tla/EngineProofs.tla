---------------------------- MODULE EngineProofs ----------------------------
(***************************************************************************)
(* Proofs that the engine keeps its invariants and implements EngineAbs,   *)
(* for any number of callers, configurations and instances.                *)
(***************************************************************************)
EXTENDS Engine, TLAPS

Inside(c) == pc[c] \in {"new", "launch"}

\* Exactly the caller inside Start holds the lock.
LockInv == \A c \in Callers : Inside(c) <=> mu = c

\* A replacing call carries the options it will build from.
ReqInv ==
    \A c \in Callers :
        pc[c] \in {"start", "reload", "new", "launch"} => req[c] \in Configs

\* While Start holds the lock nothing is current, and all that is alive is
\* what this attempt has created so far.
BusyInv ==
    \A c \in Callers :
        mu = c =>
            /\ current = NoInstance
            /\ cancel = NoInstance
            /\ state = "starting"
            /\ inst[c] \in Instances
            /\ ctxs = {inst[c]}
            /\ \A i \in Instances \ {inst[c]} : box[i] = NoConfig
            /\ box[inst[c]] = (IF pc[c] = "launch" THEN req[c] ELSE NoConfig)

IInv ==
    /\ TypeOK
    /\ LockInv
    /\ ReqInv
    /\ BusyInv
    /\ NoLeak
    /\ StateTruthful

\* A new engine satisfies the invariant.
LEMMA InitIInv == Init => IInv
  BY EngineAssumption
  DEF Init, IInv, TypeOK, LockInv, ReqInv, BusyInv, NoLeak, StateTruthful,
      Inside, Open, Phases

\* With the lock free, stopping what runs leaves nothing alive.
LEMMA StopClears ==
  ASSUME TypeOK, NoLeak, mu = Nobody
  PROVE  /\ BoxesAfterStop = [i \in Instances |-> NoConfig]
         /\ CtxsAfterStop = {}
         /\ current = NoInstance => cancel = NoInstance
  BY EngineAssumption DEF TypeOK, NoLeak, Open, BoxesAfterStop, CtxsAfterStop

\* Every step of every caller keeps the inductive invariant.
THEOREM NextIInv == IInv /\ [Next]_vars => IInv'
<1> SUFFICES ASSUME IInv, [Next]_vars PROVE IInv'
  OBVIOUS
<1> USE EngineAssumption
<1> USE DEF Inside, Open, Phases
<1>1. ASSUME NEW c \in Callers, NEW op \in {"start", "reload"},
             NEW o \in Configs, Call(c, op, o)
      PROVE  IInv'
  BY <1>1 DEF Call, IInv, TypeOK, LockInv, ReqInv, BusyInv, NoLeak, StateTruthful
<1>2. ASSUME NEW c \in Callers, NEW op \in {"stop", "query"}, Call(c, op, NoConfig)
      PROVE  IInv'
  BY <1>2 DEF Call, IInv, TypeOK, LockInv, ReqInv, BusyInv, NoLeak, StateTruthful
<1>3. ASSUME NEW c \in Callers, ReloadStop(c)
      PROVE  IInv'
  <2>1. mu = Nobody /\ mu' = Nobody
    BY <1>3 DEF ReloadStop
  <2>2. /\ box' = [i \in Instances |-> NoConfig] /\ ctxs' = {}
        /\ current' = NoInstance /\ cancel' = NoInstance /\ state' = "stopped"
    BY <1>3, <2>1, StopClears DEF ReloadStop, StopIfRunning, IInv, StateTruthful
  <2>3. QED
    BY <1>3, <2>1, <2>2
    DEF ReloadStop, IInv, TypeOK, LockInv, ReqInv, BusyInv, NoLeak, StateTruthful
<1>4. ASSUME NEW c \in Callers, StartBegin(c)
      PROVE  IInv'
  <2>1. /\ BoxesAfterStop = [i \in Instances |-> NoConfig]
        /\ CtxsAfterStop = {}
        /\ current = NoInstance => cancel = NoInstance
    BY <1>4, StopClears DEF StartBegin, IInv
  <2>2. PICK i \in Instances : /\ inst' = [inst EXCEPT ![c] = i]
                               /\ ctxs' = CtxsAfterStop \cup {i}
    BY <1>4 DEF StartBegin
  <2>3. /\ box' = [j \in Instances |-> NoConfig] /\ ctxs' = {i}
        /\ current' = NoInstance /\ cancel' = NoInstance
    BY <1>4, <2>1, <2>2 DEF StartBegin
  <2>4. QED
    BY <1>4, <2>2, <2>3
    DEF StartBegin, IInv, TypeOK, LockInv, ReqInv, BusyInv, NoLeak, StateTruthful
<1>5. ASSUME NEW c \in Callers, NewFails(c)
      PROVE  IInv'
  <2>1. mu = c /\ ctxs = {inst[c]} /\ current = NoInstance /\ cancel = NoInstance
    BY <1>5 DEF NewFails, IInv, LockInv, BusyInv
  <2>2. box = [i \in Instances |-> NoConfig]
    BY <1>5, <2>1 DEF NewFails, IInv, TypeOK, BusyInv
  <2>3. QED
    BY <1>5, <2>1, <2>2
    DEF NewFails, Return, IInv, TypeOK, LockInv, ReqInv, BusyInv, NoLeak, StateTruthful
<1>6. ASSUME NEW c \in Callers, NewSucceeds(c)
      PROVE  IInv'
  BY <1>6
  DEF NewSucceeds, IInv, TypeOK, LockInv, ReqInv, BusyInv, NoLeak, StateTruthful
<1>7. ASSUME NEW c \in Callers, LaunchFails(c)
      PROVE  IInv'
  <2>1. /\ mu = c /\ inst[c] \in Instances /\ ctxs = {inst[c]}
        /\ current = NoInstance /\ cancel = NoInstance
        /\ \A i \in Instances \ {inst[c]} : box[i] = NoConfig
    BY <1>7 DEF LaunchFails, IInv, LockInv, BusyInv
  <2>2. box \in [Instances -> Configs \cup {NoConfig}]
    BY DEF IInv, TypeOK
  <2>3. ctxs' = {} /\ \A i \in Instances : box'[i] = NoConfig
    BY <1>7, <2>1, <2>2 DEF LaunchFails
  <2>4. QED
    BY <1>7, <2>1, <2>3
    DEF LaunchFails, Return, IInv, TypeOK, LockInv, ReqInv, BusyInv, NoLeak, StateTruthful
<1>8. ASSUME NEW c \in Callers, LaunchSucceeds(c)
      PROVE  IInv'
  <2>1. /\ mu = c /\ inst[c] \in Instances /\ ctxs = {inst[c]}
        /\ box[inst[c]] \in Configs
        /\ \A i \in Instances \ {inst[c]} : box[i] = NoConfig
    BY <1>8 DEF LaunchSucceeds, IInv, LockInv, ReqInv, BusyInv
  <2>2. QED
    BY <1>8, <2>1
    DEF LaunchSucceeds, Return, IInv, TypeOK, LockInv, ReqInv, BusyInv, NoLeak, StateTruthful
<1>9. ASSUME NEW c \in Callers, Stop(c)
      PROVE  IInv'
  <2>1. mu = Nobody /\ mu' = Nobody
    BY <1>9 DEF Stop
  <2>2. /\ box' = [i \in Instances |-> NoConfig] /\ ctxs' = {}
        /\ current' = NoInstance /\ cancel' = NoInstance /\ state' = "stopped"
    BY <1>9, <2>1, StopClears DEF Stop, StopIfRunning, IInv, StateTruthful
  <2>3. QED
    BY <1>9, <2>1, <2>2
    DEF Stop, Return, IInv, TypeOK, LockInv, ReqInv, BusyInv, NoLeak, StateTruthful
<1>10. ASSUME NEW c \in Callers, GetState(c)
       PROVE  IInv'
  BY <1>10
  DEF GetState, Return, IInv, TypeOK, LockInv, ReqInv, BusyInv, NoLeak, StateTruthful
<1>11. CASE UNCHANGED vars
  BY <1>11
  DEF vars, IInv, TypeOK, LockInv, ReqInv, BusyInv, NoLeak, StateTruthful
<1>12. QED
  BY <1>1, <1>2, <1>3, <1>4, <1>5, <1>6, <1>7, <1>8, <1>9, <1>10, <1>11
  DEF Next, Step

\* The inductive invariant holds throughout.
THEOREM SpecIInv == Spec => []IInv
  BY InitIInv, NextIInv, PTL DEF Spec

\* The engine's variables keep their types.
THEOREM EngineTypeOK == Spec => []TypeOK
<1>1. IInv => TypeOK
  BY DEF IInv
<1>2. QED
  BY <1>1, SpecIInv, PTL

\* At most one sing-box instance is ever open, even while one is being built.
THEOREM EngineOneBox == Spec => []OneBox
<1>1. IInv => OneBox
  <2> SUFFICES ASSUME IInv, NEW i \in Open, NEW j \in Open
               PROVE  i = j
    BY DEF OneBox
  <2>1. CASE mu = Nobody
    BY <2>1 DEF IInv, NoLeak
  <2>2. CASE mu \in Callers
    BY <2>2 DEF IInv, BusyInv, Open
  <2>3. QED
    BY <2>1, <2>2 DEF IInv, TypeOK
<1>2. QED
  BY <1>1, SpecIInv, PTL

\* With the lock free, only e.current's box and context are alive.
THEOREM EngineNoLeak == Spec => []NoLeak
<1>1. IInv => NoLeak
  BY DEF IInv
<1>2. QED
  BY <1>1, SpecIInv, PTL

\* State answers "running" exactly when an instance runs.
THEOREM EngineStateTruthful == Spec => []StateTruthful
<1>1. IInv => StateTruthful
  BY DEF IInv
<1>2. QED
  BY <1>1, SpecIInv, PTL

-----------------------------------------------------------------------------
(* Refinement: each critical section is a step of EngineAbs or a stutter.  *)

\* A new engine serves nothing and nobody calls it.
LEMMA InitAbs == Init => Abs!AbsInit
  BY EngineAssumption DEF Init, Abs!AbsInit, Serving, AbsCallOf

\* While e.mu is free the engine serves something exactly when an instance
\* is current.
LEMMA ServingWhenFree ==
  ASSUME IInv, mu = Nobody
  PROVE  Serving = NoConfig <=> current = NoInstance
  BY EngineAssumption DEF IInv, TypeOK, NoLeak, Open, Serving

\* While a caller is inside Start nothing is served.
LEMMA NothingServedInside ==
  ASSUME IInv, NEW c \in Callers, pc[c] \in {"new", "launch"}
  PROVE  /\ current = NoInstance
         /\ inst[c] \in Instances
         /\ Serving = NoConfig
  BY DEF IInv, LockInv, Inside, BusyInv, Serving

\* Every step of a critical section is a step of EngineAbs or leaves what
\* EngineAbs sees unchanged.
THEOREM StepAbs == IInv /\ IInv' /\ [Next]_vars => [Abs!AbsNext]_Abs!absVars
<1> SUFFICES ASSUME IInv, IInv', [Next]_vars
             PROVE  Abs!AbsNext \/ UNCHANGED Abs!absVars
  OBVIOUS
<1> USE EngineAssumption
<1>1. ASSUME NEW c \in Callers, NEW op \in {"start", "reload"},
             NEW o \in Configs, Call(c, op, o)
      PROVE  Abs!AbsNext
  <2>1. Abs!AbsCall(c, "replace", o)
    BY <1>1 DEF Call, IInv, TypeOK, Abs!AbsCall, AbsCallOf, Serving
  <2>2. QED
    BY <2>1 DEF Abs!AbsNext
<1>2. ASSUME NEW c \in Callers, NEW op \in {"stop", "query"}, Call(c, op, NoConfig)
      PROVE  Abs!AbsNext
  <2>1. Abs!AbsCall(c, op, NoConfig)
    BY <1>2 DEF Call, IInv, TypeOK, Abs!AbsCall, AbsCallOf, Serving
  <2>2. QED
    BY <2>1 DEF Abs!AbsNext
<1>3. ASSUME NEW c \in Callers, ReloadStop(c)
      PROVE  Abs!AbsNext
  <2>1. Abs!Drop(c)
    BY <1>3 DEF ReloadStop, StopIfRunning, IInv, TypeOK, Abs!Drop, AbsCallOf, Serving
  <2>2. QED
    BY <2>1 DEF Abs!AbsNext
<1>4. ASSUME NEW c \in Callers, StartBegin(c)
      PROVE  Abs!AbsNext
  <2>1. Abs!Drop(c)
    BY <1>4 DEF StartBegin, IInv, TypeOK, Abs!Drop, AbsCallOf, Serving
  <2>2. QED
    BY <2>1 DEF Abs!AbsNext
<1>5. ASSUME NEW c \in Callers, NewFails(c)
      PROVE  Abs!AbsNext
  <2>1. current = NoInstance /\ current' = NoInstance
    BY <1>5, NothingServedInside DEF NewFails
  <2>2. Abs!NotReplaced(c)
    BY <1>5, <2>1 DEF NewFails, Return, IInv, TypeOK, Abs!NotReplaced, Abs!AbsReturn,
       AbsCallOf, Serving
  <2>3. QED
    BY <2>2 DEF Abs!AbsNext
<1>6. ASSUME NEW c \in Callers, NewSucceeds(c)
      PROVE  UNCHANGED Abs!absVars
  <2>1. current = NoInstance /\ current' = NoInstance
    BY <1>6, NothingServedInside DEF NewSucceeds
  <2>2. QED
    BY <1>6, <2>1 DEF NewSucceeds, IInv, TypeOK, Abs!absVars, AbsCallOf, Serving
<1>7. ASSUME NEW c \in Callers, LaunchFails(c)
      PROVE  Abs!AbsNext
  <2>1. current = NoInstance /\ current' = NoInstance
    BY <1>7, NothingServedInside DEF LaunchFails
  <2>2. Abs!NotReplaced(c)
    BY <1>7, <2>1 DEF LaunchFails, Return, IInv, TypeOK, Abs!NotReplaced, Abs!AbsReturn,
       AbsCallOf, Serving
  <2>3. QED
    BY <2>2 DEF Abs!AbsNext
<1>8. ASSUME NEW c \in Callers, LaunchSucceeds(c)
      PROVE  Abs!AbsNext
  <2>1. current = NoInstance /\ inst[c] \in Instances
    BY <1>8, NothingServedInside DEF LaunchSucceeds
  <2>2. box[inst[c]] = req[c]
    BY <1>8 DEF LaunchSucceeds, IInv, LockInv, Inside, BusyInv
  <2>3. Serving = NoConfig /\ Serving' = req[c]
    BY <1>8, <2>1, <2>2 DEF LaunchSucceeds, Serving
  <2>4. Abs!Replaced(c)
    BY <1>8, <2>3 DEF LaunchSucceeds, Return, IInv, TypeOK, Abs!Replaced, Abs!AbsReturn,
       AbsCallOf
  <2>5. QED
    BY <2>4 DEF Abs!AbsNext
<1>9. ASSUME NEW c \in Callers, Stop(c)
      PROVE  Abs!AbsNext
  <2>1. Abs!Stopped(c)
    BY <1>9 DEF Stop, StopIfRunning, Return, IInv, TypeOK, Abs!Stopped, Abs!AbsReturn,
       AbsCallOf, Serving
  <2>2. QED
    BY <2>1 DEF Abs!AbsNext
<1>10. ASSUME NEW c \in Callers, GetState(c)
       PROVE  Abs!AbsNext
  <2>1. state = (IF Serving = NoConfig THEN "stopped" ELSE "running")
    BY <1>10, ServingWhenFree DEF GetState, IInv, StateTruthful
  <2>2. Abs!Observed(c)
    BY <1>10, <2>1 DEF GetState, Return, IInv, TypeOK, Abs!Observed, Abs!AbsReturn,
       AbsCallOf, Serving
  <2>3. QED
    BY <2>2 DEF Abs!AbsNext
<1>11. CASE UNCHANGED vars
  BY <1>11 DEF vars, Abs!absVars, Serving
<1>12. QED
  BY <1>1, <1>2, <1>3, <1>4, <1>5, <1>6, <1>7, <1>8, <1>9, <1>10, <1>11
  DEF Next, Step

\* The engine implements what EngineAbs promises its callers.
THEOREM EngineImplementsAbs == Spec => ImplementsAbs
  BY InitAbs, StepAbs, SpecIInv, PTL DEF Spec, ImplementsAbs, Abs!AbsSpec
=============================================================================
