------------------------------ MODULE MCLogger ------------------------------
(***************************************************************************)
(* A background goroutine and the UI thread with its logs window, a ring   *)
(* of two lines that wraps, and a channel with room for one line that may  *)
(* never be received.                                                      *)
(***************************************************************************)
EXTENDS LogViewer
=============================================================================
