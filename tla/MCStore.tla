------------------------------ MODULE MCStore ------------------------------
(***************************************************************************)
(* Two processes; as many nodes as ports and one more, so that a port      *)
(* forgotten by a restart is given to another node and a node may find     *)
(* none left; enough edits for Saves to complete, fail and be interrupted  *)
(* one after the other, and for a form to be opened, overtaken and then    *)
(* applied.  Restarts are not bounded.  Processes, nodes and ids are       *)
(* interchangeable, and no property here is a liveness property.           *)
(***************************************************************************)
EXTENDS SettingsWindow, TLC

\* The running version, and what GitHub may have: an older release with a
\* greater part, the same, newer ones with smaller parts, and two that are
\* not of three numbers.
RunningVersion == <<1, 2, 1>>
Published == {<<0, 3, 2>>, <<1, 2, 1>>, <<1, 3, 0>>, <<2, 0, 0>>,
              <<1, 2, 9, 1>>, <<2, NotANumber, 5>>}

Symmetry == Permutations(Procs) \cup Permutations(Tags) \cup Permutations(Ids)
=============================================================================
