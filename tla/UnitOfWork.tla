------------------------------ MODULE UnitOfWork ------------------------------
(***************************************************************************)
(* PostgresTransactionManager (packages/postgres-drizzle) as the runtime   *)
(* uses it for actions and jobs, and frameworkTransaction: transactions    *)
(* over a pool of connections, the FIFO queue of operations of a unit of   *)
(* work, cancellation racing commit, and after-commit callbacks.           *)
(*                                                                         *)
(* A handler may fan out (Promise.all, or a promise nobody awaits), so     *)
(* operations may be queued behind each other, and a branch may go on      *)
(* after the handler has settled or its attempt was cancelled.  A branch   *)
(* that nobody awaits may ask for an operation once the queue is drained   *)
(* and before the unit of work is closed: a late operation, which runs     *)
(* while the transaction ends.  On the wire, statements of one connection  *)
(* execute in the order they were sent.                                    *)
(***************************************************************************)
EXTENDS Integers, FiniteSets

CONSTANTS
    Txs,        \* transactions
    Conns,      \* slots of the pool
    Attempts,   \* transactions opened by dispatchAction and invokeJob; the
                \* others are framework transactions, which nothing cancels
    MaxOps,     \* bound on the operations of one transaction
    Callbacks,  \* bound on its after-commit callbacks
    NoConn,     \* no connection yet
    Elsewhere   \* in no transaction

ASSUME KindsAssumption == Attempts \subseteq Txs
ASSUME BoundsAssumption == MaxOps \in Nat /\ Callbacks \in Nat

ASSUME NullsAssumption == NoConn \notin Conns /\ Elsewhere \notin Txs

VARIABLES
    pc,         \* where transaction() stands
    conn,       \* the client it got from the pool
    holds,      \* it has not given that client back yet
    dead,       \* that client was destroyed
    active,     \* PostgresUnitOfWork.#active
    op,         \* the operations asked of the unit of work
    ranIn,      \* the transaction each operation's statement ran in
    late,       \* the operations asked of it after drain() had returned
    failure,    \* PostgresOperationQueue.#failure is set
    doomed,     \* runTransactionWork will throw
    spoiled,    \* PostgreSQL aborted the transaction after a failed statement
    aborted,    \* the attempt was cancelled or its deadline passed
    cancel,     \* cancelActivePostgresQuery for it
    commitSent, \* COMMIT is on the wire, not executed
    outcome,    \* what the database did with it
    left,       \* registered after-commit callbacks not yet run
    broken,     \* a callback threw
    verdict     \* what transaction() told its caller

connVars == <<conn, holds, dead, cancel>>
opVars == <<op, ranIn, late, failure, spoiled>>
endVars == <<commitSent, outcome, left, broken, verdict>>
vars == <<pc, connVars, active, opVars, doomed, aborted, endVars>>

Ops == 1..MaxOps
OpState == {"unused", "queued", "running", "ok", "failed", "skipped"}
PC == {"idle", "working", "draining", "closing", "committing", "rollingback",
       "releasing", "aftercommit", "reported"}

TypeOK ==
    /\ pc \in [Txs -> PC]
    /\ conn \in [Txs -> Conns \cup {NoConn}]
    /\ holds \in [Txs -> BOOLEAN]
    /\ dead \in [Txs -> BOOLEAN]
    /\ active \in [Txs -> BOOLEAN]
    /\ op \in [Txs -> [Ops -> OpState]]
    /\ ranIn \in [Txs -> [Ops -> Txs \cup {Elsewhere}]]
    /\ late \in [Txs -> SUBSET Ops]
    /\ failure \in [Txs -> BOOLEAN]
    /\ doomed \in [Txs -> BOOLEAN]
    /\ spoiled \in [Txs -> BOOLEAN]
    /\ aborted \in [Txs -> BOOLEAN]
    /\ cancel \in [Txs -> {"none", "sent", "done"}]
    /\ commitSent \in [Txs -> BOOLEAN]
    /\ outcome \in [Txs -> {"open", "committed", "rolledback"}]
    /\ left \in [Txs -> 0..Callbacks]
    /\ broken \in [Txs -> BOOLEAN]
    /\ verdict \in [Txs -> {"none", "ok", "failed"}]

Init ==
    /\ pc = [t \in Txs |-> "idle"]
    /\ conn = [t \in Txs |-> NoConn]
    /\ holds = [t \in Txs |-> FALSE]
    /\ dead = [t \in Txs |-> FALSE]
    /\ active = [t \in Txs |-> FALSE]
    /\ op = [t \in Txs |-> [i \in Ops |-> "unused"]]
    /\ ranIn = [t \in Txs |-> [i \in Ops |-> Elsewhere]]
    /\ late = [t \in Txs |-> {}]
    /\ failure = [t \in Txs |-> FALSE]
    /\ doomed = [t \in Txs |-> FALSE]
    /\ spoiled = [t \in Txs |-> FALSE]
    /\ aborted = [t \in Txs |-> FALSE]
    /\ cancel = [t \in Txs |-> "none"]
    /\ commitSent = [t \in Txs |-> FALSE]
    /\ outcome = [t \in Txs |-> "open"]
    /\ left = [t \in Txs |-> 0]
    /\ broken = [t \in Txs |-> FALSE]
    /\ verdict = [t \in Txs |-> "none"]

-----------------------------------------------------------------------------
(* Opening, and the handler.                                                *)

Free(c) == \A t \in Txs : holds[t] => conn[t] # c

(* pool.connect, BEGIN, the unit of work.  An attempt already cancelled    *)
(* closes it at once: a handler that is still called finds it closed.      *)
Begin(t) ==
    /\ pc[t] = "idle"
    /\ \E c \in Conns : Free(c) /\ conn' = [conn EXCEPT ![t] = c]
    /\ holds' = [holds EXCEPT ![t] = TRUE]
    /\ pc' = [pc EXCEPT ![t] = IF aborted[t] THEN "draining" ELSE "working"]
    /\ doomed' = [doomed EXCEPT ![t] = aborted[t]]
    /\ cancel' = [cancel EXCEPT ![t] = IF aborted[t] THEN "sent" ELSE "none"]
    /\ active' = [active EXCEPT ![t] = ~aborted[t]]
    /\ UNCHANGED <<dead, opVars, aborted, endVars>>

NextOp(t, i) == op[t][i] = "unused" /\ \A j \in Ops : j < i => op[t][j] # "unused"

(* runOperation queues until close(); then the unit of work refuses, and   *)
(* nothing changes.                                                        *)
Issue(t) ==
    /\ active[t]
    /\ \E i \in Ops :
          /\ NextOp(t, i)
          /\ op' = [op EXCEPT ![t] = [@ EXCEPT ![i] = "queued"]]
          /\ late' = [late EXCEPT ![t] = IF pc[t] = "closing" THEN @ \cup {i} ELSE @]
    /\ UNCHANGED <<pc, connVars, active, ranIn, failure, doomed, spoiled,
                   aborted, endVars>>

AfterCommit(t) ==
    /\ active[t]
    /\ left[t] < Callbacks
    /\ left' = [left EXCEPT ![t] = @ + 1]
    /\ UNCHANGED <<pc, connVars, active, opVars, doomed, aborted, commitSent,
                   outcome, broken, verdict>>

(* The handler fulfils or throws, and runTransactionWork goes on to drain. *)
(* One whose attempt was cancelled before is no longer waited for.         *)
HandlerSettles(t) ==
    /\ pc[t] = "working"
    /\ pc' = [pc EXCEPT ![t] = "draining"]
    /\ \E threw \in BOOLEAN : doomed' = [doomed EXCEPT ![t] = threw]
    /\ UNCHANGED <<connVars, active, opVars, aborted, endVars>>

-----------------------------------------------------------------------------
(* The operation queue.                                                     *)

AtHead(t, i) == op[t][i] = "queued" /\ \A j \in Ops : op[t][j] \in {"queued", "running"} => j >= i
Quiet(t) == \A i \in Ops : op[t][i] \notin {"queued", "running"}

(* The transaction a statement sent on t's client becomes part of: t       *)
(* itself, or nothing once the end of t is sent, or the transaction that   *)
(* has got the client from the pool since.                                 *)
Serves(s, t) ==
    holds[s] /\ conn[s] = conn[t] /\ pc[s] \in {"working", "draining", "closing"}
Host(t) == IF \E s \in Txs : Serves(s, t) THEN CHOOSE s \in Txs : Serves(s, t) ELSE Elsewhere

(* The head of the queue runs, or is rejected once an earlier one failed.  *)
(* Of an operation of several statements this sends the last one.          *)
Start(t, i) ==
    /\ AtHead(t, i)
    /\ op' = [op EXCEPT ![t] = [@ EXCEPT ![i] = IF failure[t] THEN "skipped"
                                                ELSE IF dead[t] THEN "failed" ELSE "running"]]
    /\ failure' = [failure EXCEPT ![t] = failure[t] \/ dead[t]]
    /\ ranIn' = [ranIn EXCEPT ![t] = [@ EXCEPT ![i] = IF failure[t] \/ dead[t] THEN Elsewhere
                                                      ELSE Host(t)]]
    /\ UNCHANGED <<pc, connVars, active, late, doomed, spoiled, aborted, endVars>>

Spoils(s) == spoiled' = IF s \in Txs THEN [spoiled EXCEPT ![s] = TRUE] ELSE spoiled

(* The statement answers, once the microtasks that close t are over.  A    *)
(* database error spoils the transaction it ran in; a stale version or a   *)
(* broken mapping only fails the operation.                                *)
Finish(t, i) ==
    /\ op[t][i] = "running"
    /\ pc[t] # "closing"
    /\ \E result \in {"ok", "failed"} :
          /\ op' = [op EXCEPT ![t] = [@ EXCEPT ![i] = result]]
          /\ failure' = [failure EXCEPT ![t] = result = "failed"]
          /\ \/ result = "failed" /\ Spoils(ranIn[t][i])
             \/ UNCHANGED spoiled
    /\ UNCHANGED <<pc, connVars, active, ranIn, late, doomed, aborted, endVars>>

-----------------------------------------------------------------------------
(* runTransactionWork's end, and the transaction's.                         *)

(* Mutation: the queue is waited for, its failure is not looked at.        *)
DrainUnchecked(t) ==
    /\ pc[t] = "draining"
    /\ Quiet(t)
    /\ pc' = [pc EXCEPT ![t] = "closing"]
    /\ UNCHANGED <<connVars, active, opVars, doomed, aborted, endVars>>

(* drain(): the tail is stable; a failure of the queue is thrown.          *)
Drain(t) ==
    /\ pc[t] = "draining"
    /\ Quiet(t)
    /\ pc' = [pc EXCEPT ![t] = "closing"]
    /\ doomed' = [doomed EXCEPT ![t] = doomed[t] \/ failure[t]]
    /\ UNCHANGED <<connVars, active, opVars, aborted, endVars>>

(* Mutation: the failure is thrown once the transaction has committed.     *)
CloseCommits(t) ==
    /\ pc[t] = "closing"
    /\ active' = [active EXCEPT ![t] = FALSE]
    /\ pc' = [pc EXCEPT ![t] = "committing"]
    /\ commitSent' = [commitSent EXCEPT ![t] = TRUE]
    /\ UNCHANGED <<connVars, opVars, doomed, aborted, outcome, left, broken,
                   verdict>>

(* close(), and COMMIT or ROLLBACK is sent.                                *)
Close(t) ==
    /\ pc[t] = "closing"
    /\ active' = [active EXCEPT ![t] = FALSE]
    /\ pc' = [pc EXCEPT ![t] = IF doomed[t] THEN "rollingback" ELSE "committing"]
    /\ commitSent' = [commitSent EXCEPT ![t] = ~doomed[t]]
    /\ UNCHANGED <<connVars, opVars, doomed, aborted, outcome, left, broken,
                   verdict>>

(* The statements sent before the end of t have answered.                  *)
Answered(t) == \A s \in Txs, i \in Ops : op[s][i] = "running" => ranIn[s][i] # t

(* The backend executes COMMIT behind the statements sent before it.  Of a *)
(* spoiled transaction it makes a rollback, and it may never read one from *)
(* a client destroyed meanwhile.                                           *)
CommitExecutes(t) ==
    /\ commitSent[t]
    /\ Answered(t)
    /\ commitSent' = [commitSent EXCEPT ![t] = FALSE]
    /\ \E o \in {"committed", "rolledback"} :
          /\ o = "committed" => ~spoiled[t]
          /\ o = "rolledback" => spoiled[t] \/ dead[t]
          /\ outcome' = [outcome EXCEPT ![t] = o]
    /\ UNCHANGED <<pc, connVars, active, opVars, doomed, aborted, left, broken,
                   verdict>>

(* COMMIT answers the client, if the connection still stands.              *)
CommitAnswers(t) ==
    /\ pc[t] = "committing"
    /\ ~commitSent[t] \/ dead[t]
    /\ pc' = [pc EXCEPT ![t] = "releasing"]
    /\ doomed' = [doomed EXCEPT ![t] = doomed[t] \/ dead[t]]
    /\ UNCHANGED <<connVars, active, opVars, aborted, endVars>>

Rollback(t) ==
    /\ pc[t] = "rollingback"
    /\ Answered(t)
    /\ outcome' = [outcome EXCEPT ![t] = "rolledback"]
    /\ pc' = [pc EXCEPT ![t] = "releasing"]
    /\ UNCHANGED <<connVars, active, opVars, doomed, aborted, commitSent, left,
                   broken, verdict>>

(* Mutation: the client goes back to the pool without waiting for the      *)
(* cancel request.                                                         *)
ReleaseAtOnce(t) ==
    /\ pc[t] = "releasing"
    /\ holds' = [holds EXCEPT ![t] = FALSE]
    /\ pc' = [pc EXCEPT ![t] = IF doomed[t] THEN "reported" ELSE "aftercommit"]
    /\ verdict' = [verdict EXCEPT ![t] = IF doomed[t] THEN "failed" ELSE "none"]
    /\ UNCHANGED <<conn, dead, cancel, active, opVars, doomed, aborted,
                   commitSent, outcome, left, broken>>

(* Mutation: callbacks are released whatever the transaction did.          *)
ReleaseCallbacksAnyway(t) ==
    /\ pc[t] = "releasing"
    /\ cancel[t] # "sent"
    /\ holds' = [holds EXCEPT ![t] = FALSE]
    /\ pc' = [pc EXCEPT ![t] = "aftercommit"]
    /\ UNCHANGED <<conn, dead, cancel, active, opVars, doomed, aborted,
                   commitSent, outcome, left, broken, verdict>>

(* The finally block: wait for a cancel request under way, which destroys  *)
(* the client itself, else release the client.                             *)
ReleaseClient(t) ==
    /\ pc[t] = "releasing"
    /\ cancel[t] # "sent"
    /\ holds' = [holds EXCEPT ![t] = FALSE]
    /\ pc' = [pc EXCEPT ![t] = IF doomed[t] THEN "reported" ELSE "aftercommit"]
    /\ verdict' = [verdict EXCEPT ![t] = IF doomed[t] THEN "failed" ELSE "none"]
    /\ UNCHANGED <<conn, dead, cancel, active, opVars, doomed, aborted,
                   commitSent, outcome, left, broken>>

(* releaseAfterCommit: every callback runs, whatever the others did.       *)
RunCallback(t) ==
    /\ pc[t] = "aftercommit"
    /\ left[t] > 0
    /\ left' = [left EXCEPT ![t] = left[t] - 1]
    /\ \E threw \in BOOLEAN : broken' = [broken EXCEPT ![t] = broken[t] \/ threw]
    /\ UNCHANGED <<pc, connVars, active, opVars, doomed, aborted, commitSent,
                   outcome, verdict>>

Report(t) ==
    /\ pc[t] = "aftercommit"
    /\ left[t] = 0
    /\ pc' = [pc EXCEPT ![t] = "reported"]
    /\ verdict' = [verdict EXCEPT ![t] = IF broken[t] THEN "failed" ELSE "ok"]
    /\ UNCHANGED <<connVars, active, opVars, doomed, aborted, commitSent, outcome,
                   left, broken>>

-----------------------------------------------------------------------------
(* Cancellation.                                                            *)

Listening(t) == pc[t] \in {"working", "draining", "committing", "rollingback"}

(* Mutation: the attempt fails, its query is left alone.                   *)
AbortOnly(t) ==
    /\ t \in Attempts
    /\ ~aborted[t]
    /\ pc[t] \notin {"closing", "reported"}
    /\ aborted' = [aborted EXCEPT ![t] = TRUE]
    /\ active' = [active EXCEPT ![t] = active[t] /\ ~Listening(t)]
    /\ doomed' = [doomed EXCEPT ![t] = @ \/ pc[t] \in {"working", "draining"}]
    /\ pc' = [pc EXCEPT ![t] = IF pc[t] = "working" THEN "draining" ELSE pc[t]]
    /\ UNCHANGED <<connVars, opVars, endVars>>

(* The abort event.  Every listener runs at once: the unit of work closes, *)
(* a cancel request goes out for the backend, runTransactionWork stops     *)
(* waiting for the handler, which goes on.  Once COMMIT is sent only the   *)
(* cancel request is left.                                                 *)
Abort(t) ==
    /\ t \in Attempts
    /\ ~aborted[t]
    /\ pc[t] \notin {"closing", "reported"}
    /\ aborted' = [aborted EXCEPT ![t] = TRUE]
    /\ active' = [active EXCEPT ![t] = active[t] /\ ~Listening(t)]
    /\ cancel' = [cancel EXCEPT ![t] = IF Listening(t) THEN "sent" ELSE cancel[t]]
    /\ doomed' = [doomed EXCEPT ![t] = @ \/ pc[t] \in {"working", "draining"}]
    /\ pc' = [pc EXCEPT ![t] = IF pc[t] = "working" THEN "draining" ELSE pc[t]]
    /\ UNCHANGED <<conn, holds, dead, opVars, endVars>>

(* pg_cancel_backend reaches the backend: a statement that runs there is   *)
(* cancelled, whoever sent it, a COMMIT not yet executed too.              *)
CancelHits(t) ==
    /\ cancel[t] = "sent"
    /\ \E s \in Txs :
          /\ conn[s] = conn[t]
          /\ \/ \E i \in Ops :
                   /\ op[s][i] = "running"
                   /\ op' = [op EXCEPT ![s] = [@ EXCEPT ![i] = "failed"]]
                   /\ failure' = [failure EXCEPT ![s] = TRUE]
                   /\ Spoils(ranIn[s][i])
                   /\ UNCHANGED <<pc, commitSent, doomed>>
             \/ /\ commitSent[s] /\ holds[s]
                /\ Answered(s)
                /\ commitSent' = [commitSent EXCEPT ![s] = FALSE]
                /\ pc' = [pc EXCEPT ![s] = "rollingback"]
                /\ doomed' = [doomed EXCEPT ![s] = TRUE]
                /\ UNCHANGED <<op, failure, spoiled>>
    /\ UNCHANGED <<connVars, active, ranIn, late, aborted, outcome, left, broken,
                   verdict>>

(* Those who had or still have t's client.                                 *)
Clients(t) == {s \in Txs : pc[s] # "idle" /\ conn[s] = conn[t]}

(* The cancel request ended, or gave up after its second: the client is    *)
(* destroyed, and the statements running on it.                            *)
CancelEnds(t) ==
    /\ cancel[t] = "sent"
    /\ cancel' = [cancel EXCEPT ![t] = "done"]
    /\ dead' = [s \in Txs |-> dead[s] \/ s \in Clients(t)]
    /\ holds' = [holds EXCEPT ![t] = FALSE]
    /\ op' = [s \in Txs |-> [i \in Ops |->
                 IF op[s][i] = "running" /\ s \in Clients(t) THEN "failed" ELSE op[s][i]]]
    /\ failure' = [s \in Txs |->
                      failure[s] \/ (s \in Clients(t) /\ \E i \in Ops : op[s][i] = "running")]
    /\ UNCHANGED <<pc, conn, active, ranIn, late, doomed, spoiled, aborted, endVars>>

-----------------------------------------------------------------------------
Settle(t) ==
    \/ \E i \in Ops : Start(t, i)
    \/ Drain(t)
    \/ Close(t)
    \/ CommitExecutes(t)
    \/ CommitAnswers(t)
    \/ Rollback(t)
    \/ ReleaseClient(t)
    \/ CancelEnds(t)

Next ==
    \E t \in Txs :
        \/ Begin(t)
        \/ Issue(t)
        \/ AfterCommit(t)
        \/ HandlerSettles(t)
        \/ \E i \in Ops : Finish(t, i)
        \/ Settle(t)
        \/ RunCallback(t)
        \/ Report(t)
        \/ Abort(t)
        \/ CancelHits(t)

(* The manager's own steps, the wire's and the cancel timer's happen; a    *)
(* handler, a callback or a statement may take for ever.                   *)
Spec == Init /\ [][Next]_vars /\ \A t \in Txs : WF_vars(Settle(t))

-----------------------------------------------------------------------------
(* Properties.                                                              *)

(* The operations a transaction waits for share its fate: each one that    *)
(* took effect ran inside it, and it commits only if every one of them     *)
(* took effect, even when the handler swallowed the failure                *)
(* (PostgresOperationQueue.run and drain).  Late operations it does not    *)
(* wait for.                                                               *)
OperationsShareFate ==
    \A t \in Txs : \A i \in Ops \ late[t] :
        /\ op[t][i] = "ok" => ranIn[t][i] = t
        /\ outcome[t] = "committed" => op[t][i] \in {"unused", "ok"}

(* A cancel request never reaches a connection that serves another         *)
(* transaction by then (the client is kept out of the pool until           *)
(* cancellationWork has ended, and destroyed).                             *)
NoForeignCancel ==
    \A s, t \in Txs :
        cancel[t] = "sent" /\ holds[s] /\ conn[s] = conn[t] => s = t

(* A caller told of a failure may retry: the transaction did not commit,   *)
(* but for a callback that threw after commit and for a cancellation that  *)
(* raced the commit (transactionFailure and releaseAfterCommit).           *)
FailureMeansRollback ==
    \A t \in Txs :
        verdict[t] = "failed" /\ outcome[t] = "committed" => broken[t] \/ aborted[t]

(* A late operation has been asked of t, or has run in it because t got    *)
(* the client of the transaction it was asked of.                          *)
Strayed(t) ==
    late[t] # {} \/ \E s \in Txs : \E i \in late[s] : ranIn[s][i] = t

(* What transaction() tells its caller, and when after-commit callbacks    *)
(* run, is what TransactionManager promises (AtomicWork).                  *)
Promise == INSTANCE AtomicWork WITH strayed <- [t \in Txs |-> Strayed(t)]
KeepsItsPromise == Promise!AbstractSpec

(* A cancelled attempt gives its connection back, even when its handler    *)
(* and its statement never settle (abortTransaction and                    *)
(* cancelActivePostgresQuery).                                             *)
CancelledWorkLetsGo == \A t \in Attempts : (aborted[t] /\ holds[t]) ~> ~holds[t]

===============================================================================
