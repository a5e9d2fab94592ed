------------------------------ MODULE DurableWork ------------------------------
(***************************************************************************)
(* What the durable queue promises of a unit of work: once accepted it is  *)
(* owed until it is done, which it is only after it took effect, or given  *)
(* up, or withdrawn by an operator; what is done or withdrawn stays so.    *)
(* Effects may repeat: execution is at least once.                         *)
(***************************************************************************)
EXTENDS Naturals

CONSTANT Jobs       \* units of work

VARIABLES
    status,         \* where the promise stands
    effects         \* how many attempts took effect

workVars == <<status, effects>>

WorkInit ==
    /\ status = [j \in Jobs |-> "unknown"]
    /\ effects = [j \in Jobs |-> 0]

Becomes(j, from, to) ==
    /\ status[j] = from
    /\ status' = [status EXCEPT ![j] = to]
    /\ UNCHANGED effects

Accept(j) == Becomes(j, "unknown", "owed")

TakeEffect(j) ==
    /\ status[j] # "unknown"
    /\ effects' = [effects EXCEPT ![j] = @ + 1]
    /\ UNCHANGED status

Finish(j) == effects[j] > 0 /\ Becomes(j, "owed", "done")

(* A worker that stops gives up everything it had under way at once.       *)
GiveUp(some) ==
    /\ \A j \in some : status[j] = "owed"
    /\ status' = [j \in Jobs |-> IF j \in some THEN "given up" ELSE status[j]]
    /\ UNCHANGED effects

Redrive(j) == Becomes(j, "given up", "owed")

Withdraw(j) == Becomes(j, "owed", "withdrawn")

WorkNext ==
    \/ \E j \in Jobs : Accept(j) \/ TakeEffect(j) \/ Finish(j) \/ Redrive(j) \/ Withdraw(j)
    \/ \E some \in SUBSET Jobs : GiveUp(some)

WorkSpec == WorkInit /\ [][WorkNext]_workVars

===============================================================================
