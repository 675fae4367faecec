----------------------------- MODULE MCPlanner -----------------------------
(***************************************************************************)
(* A port space so small that ranges overlap the balancer's ports and run  *)
(* out, subscriptions that lose, regain, repeat and reorder nodes, and     *)
(* files without assignments, with unreadable ones, and with a port given  *)
(* twice and one above maxPort.                                            *)
(***************************************************************************)
EXTENDS Planner

CONSTANTS a, b, c, auto

MCTags == {a, b, c, auto}
MCAutoTags == {auto}

MCStarts ==
    { [socks |-> 1, http |-> 2],
      [socks |-> 3, http |-> 1],
      [socks |-> 2, http |-> 4] }

MCBalancers ==
    { [socks |-> {1, 2}, http |-> {3, 4}],
      [socks |-> {3}, http |-> {1, 2}],
      [socks |-> {2, 4}, http |-> {3}] }

HandEdited ==
    [t \in MCTags |->
        IF t = a THEN [socks |-> 5, http |-> 8]
        ELSE IF t = c THEN [socks |-> 5, http |-> 3] ELSE Absent]

MCFiles ==
    { [t \in MCTags |-> Absent],
      [t \in MCTags |-> IF t = b THEN Garbled ELSE Absent],
      HandEdited,
      [HandEdited EXCEPT ![b] = Garbled] }

MCNodeLists == { <<a, b>>, <<b, auto, c, a>>, <<c>>, <<c, c>>, <<auto>> }
=============================================================================
