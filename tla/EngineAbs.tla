----------------------------- MODULE EngineAbs -----------------------------
(***************************************************************************)
(* What internal/core promises its callers, with no instance, context or   *)
(* lock in sight: the engine serves one configuration or none, Start       *)
(* answers "ok" only at the moment the configuration it was given is being *)
(* served, and State never shows a phase in between.                       *)
(*                                                                         *)
(* A call that replaces the configuration first drops the one being served *)
(* (Drop); until it answers, nothing is served.                            *)
(***************************************************************************)
CONSTANTS
    Callers,    \* goroutines that call the engine
    Configs,    \* sing-box option values
    NoConfig    \* nothing is served / no argument

VARIABLES
    serving,    \* the configuration being served
    call,       \* the operation each caller is in, or "idle"
    arg,        \* the configuration that operation was given
    reply       \* the last answer each caller received

absVars == <<serving, call, arg, reply>>

AbsInit ==
    /\ serving = NoConfig
    /\ call = [c \in Callers |-> "idle"]
    /\ arg = [c \in Callers |-> NoConfig]
    /\ reply = [c \in Callers |-> "none"]

AbsCall(c, op, o) ==
    /\ call[c] = "idle"
    /\ call' = [call EXCEPT ![c] = op]
    /\ arg' = [arg EXCEPT ![c] = o]
    /\ reply' = [reply EXCEPT ![c] = "none"]
    /\ UNCHANGED serving

AbsReturn(c, r) ==
    /\ call' = [call EXCEPT ![c] = "idle"]
    /\ arg' = [arg EXCEPT ![c] = NoConfig]
    /\ reply' = [reply EXCEPT ![c] = r]

\* A replacing call takes down what is served before it has an answer.
Drop(c) ==
    /\ call[c] = "replace"
    /\ serving' = NoConfig
    /\ UNCHANGED <<call, arg, reply>>

Replaced(c) ==
    /\ call[c] = "replace"
    /\ serving = NoConfig
    /\ serving' = arg[c]
    /\ AbsReturn(c, "ok")

NotReplaced(c) ==
    /\ call[c] = "replace"
    /\ serving = NoConfig
    /\ UNCHANGED serving
    /\ AbsReturn(c, "error")

Stopped(c) ==
    /\ call[c] = "stop"
    /\ serving' = NoConfig
    /\ AbsReturn(c, "ok")

Observed(c) ==
    /\ call[c] = "query"
    /\ UNCHANGED serving
    /\ AbsReturn(c, IF serving = NoConfig THEN "stopped" ELSE "running")

\* The caller has no more use for its last answer.
Discard(c) ==
    /\ call[c] = "idle"
    /\ reply' = [reply EXCEPT ![c] = "none"]
    /\ UNCHANGED <<serving, call, arg>>

AbsNext ==
    \E c \in Callers :
        \/ \E o \in Configs : AbsCall(c, "replace", o)
        \/ \E op \in {"stop", "query"} : AbsCall(c, op, NoConfig)
        \/ Drop(c) \/ Replaced(c) \/ NotReplaced(c)
        \/ Stopped(c) \/ Observed(c) \/ Discard(c)

AbsSpec == AbsInit /\ [][AbsNext]_absVars
=============================================================================
