---------------------------- MODULE MCUnitOfWork ----------------------------
(***************************************************************************)
(* A job, which can be cancelled, and a framework transaction, which       *)
(* nothing cancels, compete for the one connection of the pool.  An action *)
(* nobody cancels does what a framework transaction does.                  *)
(***************************************************************************)
EXTENDS UnitOfWork

CONSTANTS job, framework, c1

=============================================================================
