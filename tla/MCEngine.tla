------------------------------ MODULE MCEngine ------------------------------
(***************************************************************************)
(* The engine with the two goroutines that call it in the application and  *)
(* a third, so that two callers can race while another holds the lock.     *)
(* Two instance identities are enough for one to leak while the other is   *)
(* in use.  No bound is put on the number of calls.                        *)
(***************************************************************************)
EXTENDS Engine
=============================================================================
