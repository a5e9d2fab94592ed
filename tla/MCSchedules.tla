------------------------------ MODULE MCSchedules ------------------------------
(***************************************************************************)
(* Two scheduler processes over three occurrences, for intervals and a  *)
(* cron, one of which skips what was missed.                               *)
(***************************************************************************)
EXTENDS Schedules

Declaration(cadence, misfire, overlap) ==
    [cadence |-> cadence, misfire |-> misfire, overlap |-> overlap]

MCDeclared ==
    {Declaration("interval", "catch-up-once", "serialize"),
     Declaration("interval", "skip", "allow"),
     Declaration("cron", "catch-up-once", "serialize")}
=============================================================================
