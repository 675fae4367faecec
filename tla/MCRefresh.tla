----------------------------- MODULE MCRefresh -----------------------------
(***************************************************************************)
(* Version 0 of the settings has no subscription URL (first start), 1 and  *)
(* 2 have one, so a refresh of the older URL can overlap the newer one's.  *)
(***************************************************************************)
EXTENDS Refresh
=============================================================================
