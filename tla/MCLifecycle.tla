----------------------------- MODULE MCLifecycle -----------------------------
(***************************************************************************)
(* A graph of two participants: a store with every hook but drain, and a   *)
(* server on top of it with all four.                                      *)
(***************************************************************************)
EXTENDS Lifecycle

CONSTANTS e1, e2

MCHooks == <<{"start", "stop", "dispose"}, {"start", "drain", "stop", "dispose"}>>

=============================================================================
