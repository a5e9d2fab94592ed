------------------------------ MODULE AtomicWork ------------------------------
(***************************************************************************)
(* What TransactionManager promises its caller, whatever happens inside:   *)
(* a transaction is decided once; its after-commit callbacks run only once *)
(* it is committed; the caller is told of success only when it is          *)
(* committed and no callback is left, and of failure at any time.  No such *)
(* promise covers a transaction that an operation strayed into which its   *)
(* work did not wait for: it may roll back and be reported as a success.   *)
(***************************************************************************)
EXTENDS Naturals

CONSTANTS
    Txs,        \* transactions
    Callbacks   \* bound on the after-commit callbacks of one transaction

VARIABLES
    outcome,    \* what the database did
    left,       \* after-commit callbacks registered and not yet run
    strayed,    \* an operation that the work did not wait for is part of it
    verdict     \* what transaction() told its caller

abstractVars == <<outcome, left, strayed, verdict>>

AbstractInit ==
    /\ outcome = [t \in Txs |-> "open"]
    /\ left = [t \in Txs |-> 0]
    /\ strayed = [t \in Txs |-> FALSE]
    /\ verdict = [t \in Txs |-> "none"]

(* The work registers a callback.                                          *)
Register(t) ==
    /\ outcome[t] = "open"
    /\ left[t] < Callbacks
    /\ left' = [left EXCEPT ![t] = @ + 1]
    /\ UNCHANGED <<outcome, strayed, verdict>>

Decide(t) ==
    /\ outcome[t] = "open"
    /\ \E o \in {"committed", "rolledback"} : outcome' = [outcome EXCEPT ![t] = o]
    /\ UNCHANGED <<left, strayed, verdict>>

Stray(t) ==
    /\ strayed' = [strayed EXCEPT ![t] = TRUE]
    /\ UNCHANGED <<outcome, left, verdict>>

Done(t) == outcome[t] = "committed" \/ (strayed[t] /\ outcome[t] = "rolledback")

Release(t) ==
    /\ Done(t)
    /\ verdict[t] = "none"
    /\ left[t] > 0
    /\ left' = [left EXCEPT ![t] = @ - 1]
    /\ UNCHANGED <<outcome, strayed, verdict>>

Succeed(t) ==
    /\ Done(t)
    /\ left[t] = 0
    /\ verdict[t] = "none"
    /\ verdict' = [verdict EXCEPT ![t] = "ok"]
    /\ UNCHANGED <<outcome, left, strayed>>

Fail(t) ==
    /\ verdict[t] = "none"
    /\ verdict' = [verdict EXCEPT ![t] = "failed"]
    /\ UNCHANGED <<outcome, left, strayed>>

AbstractNext ==
    \E t \in Txs :
        Register(t) \/ Decide(t) \/ Stray(t) \/ Release(t) \/ Succeed(t) \/ Fail(t)

AbstractSpec == AbstractInit /\ [][AbstractNext]_abstractVars

===============================================================================
