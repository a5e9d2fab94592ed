---------------------------- MODULE MCRealtimeClient ----------------------------
(***************************************************************************)
(* Two channels and one command, with enough calls to leave a channel and  *)
(* ask for it again over a connection that fails twice.                    *)
(***************************************************************************)
EXTENDS RealtimeClient

CONSTANTS news, mail, typing

=============================================================================
