---------------------------- MODULE MCDurableQueue ----------------------------
(***************************************************************************)
(* Two processes, and two intents dispatched with one idempotency key.     *)
(***************************************************************************)
EXTENDS DurableQueue, TLC

CONSTANTS w1, w2, r1, r2, j1

MCJobOf == r1 :> j1 @@ r2 :> j1

=============================================================================
