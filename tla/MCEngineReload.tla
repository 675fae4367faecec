--------------------------- MODULE MCEngineReload ---------------------------
(***************************************************************************)
(* What Reload's comment promises, checked with a single caller so that no *)
(* other goroutine can be blamed for the outcome.                          *)
(***************************************************************************)
EXTENDS Engine

\* Whether an instance was running when the caller's Reload took the lock:
\* a history variable, read by no action.
VARIABLE hadInstance

MCInit == Init /\ hadInstance = [c \in Callers |-> FALSE]

MCNext ==
    /\ Next
    /\ hadInstance' =
          [c \in Callers |->
              IF pc[c] = "reload" /\ pc'[c] # "reload"
              THEN current # NoInstance
              ELSE hadInstance[c] /\ pc[c] # "idle"]

MCSpec == MCInit /\ [][MCNext]_<<vars, hadInstance>>

\* What engine.go promises of Reload: "The previous instance is kept running
\* on failure so connectivity is preserved."
PreviousKeptOnFailure ==
    [][\A c \in Callers :
          (hadInstance[c] /\ reply[c] = "none" /\ reply'[c] = "error")
              => current' # NoInstance]_<<vars, hadInstance>>
=============================================================================
