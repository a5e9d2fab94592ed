------------------------------- MODULE MCDelivery -------------------------------
(***************************************************************************)
(* A job and two redrives of the message, each retried once.               *)
(***************************************************************************)
EXTENDS Delivery

=============================================================================
