------------------------------ MODULE MCHotReload ------------------------------
(***************************************************************************)
(* Three edits: one for the first build, one for a round, and one during   *)
(* it.                                                                     *)
(***************************************************************************)
EXTENDS HotReload

=============================================================================
