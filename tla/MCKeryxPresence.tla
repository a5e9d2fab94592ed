---------------------------- MODULE MCKeryxPresence ----------------------------
(***************************************************************************)
(* One actor with a connection on each of two servers.                     *)
(***************************************************************************)
EXTENDS KeryxPresence

CONSTANTS s1, s2, c1, c2, alice

MCHome == [c \in Conns |-> IF c = c1 THEN s1 ELSE s2]
MCActorOf == [c \in Conns |-> alice]

=============================================================================
