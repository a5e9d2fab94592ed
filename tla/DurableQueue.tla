------------------------------ MODULE DurableQueue ------------------------------
(***************************************************************************)
(* PgBossQueueManager (packages/queue-pg-boss) under the runtime's         *)
(* lifecycle: the hand-off of committed doxa.queue intents from the        *)
(* transactional outbox to pg-boss, delivery of jobs to the worker         *)
(* processes, attempts and their retry, expiry, crash, drain and restart.  *)
(*                                                                         *)
(* Several processes run the same application over one database.  A        *)
(* process delivers while it boots and drains, and refuses what it is      *)
(* delivered then (#admitExecution).  An intent's job id is derived from   *)
(* its idempotency key, so that two intents may name one job.              *)
(***************************************************************************)
EXTENDS Integers

CONSTANTS
    Workers,     \* processes with the worker role
    Rows,        \* doxa.queue intents of the outbox
    Jobs,        \* queue envelope ids
    JobOf,       \* the id in the envelope of an intent
    Retries,     \* policy.retries
    Faults,      \* bound on crashes, shutdowns and failed flushes
    Redrives     \* bound on the redrives of one job

ASSUME JobOfAssumption == JobOf \in [Rows -> Jobs]
ASSUME LimitsAssumption == Retries \in Nat /\ Faults \in Nat /\ Redrives \in Nat

VARIABLES
    phase,       \* where the process stands in its lifecycle
    polling,     \* boss.work is registered in it
    flushing,    \* #outboxWork is set in it
    batch,       \* the intents its flush transaction has locked
    outbox,      \* doxa_outbox_messages.status
    job,         \* pgboss.job.state
    attempts,    \* how often the job was fetched (retry_count + 1)
    limit,       \* how many attempts pg-boss allows it (retry_limit + 1)
    attempt,     \* the attempt of a job under way in a process
    late,        \* jobs with the COMMIT of an abandoned attempt on the wire
    ran,         \* history: its handler was called
    effects,     \* history: its attempts that committed
    faults       \* faults so far

fleetVars == <<phase, polling, flushing, batch>>
jobVars == <<job, attempts, limit>>
effectVars == <<late, ran, effects>>
vars == <<fleetVars, outbox, jobVars, attempt, effectVars, faults>>

Phase == {"down", "booting", "ready", "draining", "quiescing", "waiting", "drained"}
Terminal == {"completed", "failed", "cancelled"}
JobState == {"absent", "created", "active", "retry"} \cup Terminal
MaxAttempts == Retries + 1 + Redrives

TypeOK ==
    /\ phase \in [Workers -> Phase]
    /\ polling \in [Workers -> BOOLEAN]
    /\ flushing \in [Workers -> BOOLEAN]
    /\ batch \in [Workers -> SUBSET Rows]
    /\ outbox \in [Rows -> {"none", "pending", "dispatched"}]
    /\ job \in [Jobs -> JobState]
    /\ attempts \in [Jobs -> 0..MaxAttempts]
    /\ limit \in [Jobs -> 1..MaxAttempts]
    /\ attempt \in [Workers -> [Jobs -> {"none", "delivered", "working", "committed"}]]
    /\ late \subseteq Jobs
    /\ ran \subseteq Jobs
    /\ effects \in [Jobs -> 0..MaxAttempts]
    /\ faults \in 0..Faults

Init ==
    /\ phase = [w \in Workers |-> "down"]
    /\ polling = [w \in Workers |-> FALSE]
    /\ flushing = [w \in Workers |-> FALSE]
    /\ batch = [w \in Workers |-> {}]
    /\ outbox = [r \in Rows |-> "none"]
    /\ job = [j \in Jobs |-> "absent"]
    /\ attempts = [j \in Jobs |-> 0]
    /\ limit = [j \in Jobs |-> Retries + 1]
    /\ attempt = [w \in Workers |-> [j \in Jobs |-> "none"]]
    /\ late = {}
    /\ ran = {}
    /\ effects = [j \in Jobs |-> 0]
    /\ faults = 0

Fault ==
    /\ faults < Faults
    /\ faults' = faults + 1

-----------------------------------------------------------------------------
(* Accepting work.                                                          *)

(* An action or a job commits with the intent it wrote.                    *)
StageIntent(r) ==
    /\ outbox[r] = "none"
    /\ outbox' = [outbox EXCEPT ![r] = "pending"]
    /\ UNCHANGED <<fleetVars, jobVars, attempt, effectVars, faults>>

(* boss.send with the envelope's own id: a job of that id stands as it is. *)
Sent(ids) == [j \in Jobs |-> IF j \in ids /\ job[j] = "absent" THEN "created" ELSE job[j]]

(* enqueue(): a dispatch of a running execution outside a unit of work.    *)
Enqueue(j) ==
    /\ \E w \in Workers : phase[w] \in {"ready", "draining", "quiescing", "waiting"}
    /\ job[j] = "absent"
    /\ job' = Sent({j})
    /\ UNCHANGED <<fleetVars, outbox, attempts, limit, attempt, effectVars, faults>>

-----------------------------------------------------------------------------
(* The outbox hand-off: one flush at a time in a process.                   *)

Locked == UNION {batch[w] : w \in Workers}

(* SELECT ... FOR UPDATE SKIP LOCKED; not once the drain hook has begun.   *)
ClaimIntents(w) ==
    /\ phase[w] \in {"booting", "ready", "draining"}
    /\ ~flushing[w]
    /\ LET pending == {r \in Rows : outbox[r] = "pending"} \ Locked
       IN  /\ pending # {}
           /\ batch' = [batch EXCEPT ![w] = pending]
    /\ flushing' = [flushing EXCEPT ![w] = TRUE]
    /\ UNCHANGED <<phase, polling, outbox, jobVars, attempt, effectVars, faults>>

FlushEnds(w) ==
    /\ flushing' = [flushing EXCEPT ![w] = FALSE]
    /\ batch' = [batch EXCEPT ![w] = {}]

(* The process is gone: its attempts are, and what its flush had locked.   *)
Gone(w) ==
    /\ phase' = [phase EXCEPT ![w] = "down"]
    /\ polling' = [polling EXCEPT ![w] = FALSE]
    /\ FlushEnds(w)
    /\ attempt' = [attempt EXCEPT ![w] = [j \in Jobs |-> "none"]]

(* Mutation: the intents are marked, their jobs are sent by someone later. *)
MarkWithoutSending(w) ==
    /\ batch[w] # {}
    /\ outbox' = [r \in Rows |-> IF r \in batch[w] THEN "dispatched" ELSE outbox[r]]
    /\ FlushEnds(w)
    /\ UNCHANGED <<phase, polling, jobVars, attempt, effectVars, faults>>

(* Mutation: the hand-off replaces a job that has the same id.             *)
HandOffReplacing(w) ==
    /\ batch[w] # {}
    /\ job' = [j \in Jobs |-> IF \E r \in batch[w] : JobOf[r] = j THEN "created" ELSE job[j]]
    /\ outbox' = [r \in Rows |-> IF r \in batch[w] THEN "dispatched" ELSE outbox[r]]
    /\ FlushEnds(w)
    /\ UNCHANGED <<phase, polling, attempts, limit, attempt, effectVars, faults>>

(* The jobs are inserted and the intents marked in one transaction.        *)
HandOff(w) ==
    /\ batch[w] # {}
    /\ job' = Sent({JobOf[r] : r \in batch[w]})
    /\ outbox' = [r \in Rows |-> IF r \in batch[w] THEN "dispatched" ELSE outbox[r]]
    /\ FlushEnds(w)
    /\ UNCHANGED <<phase, polling, attempts, limit, attempt, effectVars, faults>>

(* Mutation: a rejected flush stays the flush everyone is given.           *)
FlushFailsForGood(w) ==
    /\ batch[w] # {}
    /\ Fault
    /\ batch' = [batch EXCEPT ![w] = {}]
    /\ UNCHANGED <<phase, polling, flushing, outbox, jobVars, attempt, effectVars>>

(* The flush is rolled back.  A poll only notes it and polls again; the    *)
(* first one, in start(), fails the boot and the process ends; drain()     *)
(* rejects with the flush it awaits, and leaves the workers registered.    *)
FlushFails(w) ==
    /\ batch[w] # {}
    /\ Fault
    /\ \/ phase[w] = "booting" /\ Gone(w)
       \/ /\ FlushEnds(w)
          /\ phase' = [phase EXCEPT ![w] = IF @ = "quiescing" THEN "drained" ELSE @]
          /\ UNCHANGED <<polling, attempt>>
    /\ UNCHANGED <<outbox, jobVars, effectVars>>

-----------------------------------------------------------------------------
(* Attempts.                                                                *)

(* A pg-boss worker fetches a job and calls the delivery handler.          *)
Fetch(w, j) ==
    /\ polling[w]
    /\ attempt[w][j] = "none"
    /\ job[j] \in {"created", "retry"}
    /\ job' = [job EXCEPT ![j] = "active"]
    /\ attempts' = [attempts EXCEPT ![j] = @ + 1]
    /\ attempt' = [attempt EXCEPT ![w][j] = "delivered"]
    /\ UNCHANGED <<fleetVars, outbox, limit, effectVars, faults>>

(* pg-boss's fail(), of an active job only.                                *)
Failed(j) ==
    IF job[j] # "active" THEN job[j]
    ELSE IF attempts[j] < limit[j] THEN "retry" ELSE "failed"

AttemptFails(w, j) ==
    /\ job' = [job EXCEPT ![j] = Failed(j)]
    /\ attempt' = [attempt EXCEPT ![w][j] = "none"]

(* handleQueueDelivery: the runtime admits the attempt, and its handler is *)
(* called.                                                                 *)
Admit(w, j) ==
    /\ attempt[w][j] = "delivered"
    /\ phase[w] = "ready"
    /\ attempt' = [attempt EXCEPT ![w][j] = "working"]
    /\ ran' = ran \cup {j}
    /\ UNCHANGED <<fleetVars, outbox, jobVars, late, effects, faults>>

(* Or it refuses it, being not ready: the attempt has failed.              *)
Refuse(w, j) ==
    /\ attempt[w][j] = "delivered"
    /\ phase[w] # "ready"
    /\ AttemptFails(w, j)
    /\ UNCHANGED <<fleetVars, outbox, attempts, limit, effectVars, faults>>

(* The attempt's transaction commits.                                      *)
Commit(w, j) ==
    /\ attempt[w][j] = "working"
    /\ attempt' = [attempt EXCEPT ![w][j] = "committed"]
    /\ effects' = [effects EXCEPT ![j] = @ + 1]
    /\ UNCHANGED <<fleetVars, outbox, jobVars, late, ran, faults>>

(* The handler threw, or something after the commit did: a callback, the   *)
(* disposal of the scope.                                                  *)
Throw(w, j) ==
    /\ attempt[w][j] \in {"working", "committed"}
    /\ AttemptFails(w, j)
    /\ UNCHANGED <<fleetVars, outbox, attempts, limit, effectVars, faults>>

(* The delivery fulfilled: pg-boss completes an active job.                *)
Acknowledge(w, j) ==
    /\ attempt[w][j] = "committed"
    /\ job' = [job EXCEPT ![j] = IF @ = "active" THEN "completed" ELSE @]
    /\ attempt' = [attempt EXCEPT ![w][j] = "none"]
    /\ UNCHANGED <<fleetVars, outbox, attempts, limit, effectVars, faults>>

(* Mutation: the signal of the expired job does not reach the execution.   *)
ExpireUnsignalled(w, j) ==
    /\ attempt[w][j] # "none"
    /\ job' = [job EXCEPT ![j] = Failed(j)]
    /\ UNCHANGED <<fleetVars, outbox, attempts, limit, attempt, effectVars, faults>>

(* The attempt outlives policy.timeout: its signal aborts it, which a      *)
(* COMMIT already sent may escape (see UnitOfWork).                        *)
Expire(w, j) ==
    /\ attempt[w][j] # "none"
    /\ AttemptFails(w, j)
    /\ \/ late' = late
       \/ attempt[w][j] = "working" /\ late' = late \cup {j}
    /\ UNCHANGED <<fleetVars, outbox, attempts, limit, ran, effects, faults>>

LateCommit(j) ==
    /\ j \in late
    /\ late' = late \ {j}
    /\ effects' = [effects EXCEPT ![j] = @ + 1]
    /\ UNCHANGED <<fleetVars, outbox, jobVars, attempt, ran, faults>>

(* Any live process expires the active job of a process that is gone.      *)
Supervise(j) ==
    /\ job[j] = "active"
    /\ \A w \in Workers : attempt[w][j] = "none"
    /\ \E w \in Workers : phase[w] # "down"
    /\ job' = [job EXCEPT ![j] = Failed(j)]
    /\ UNCHANGED <<fleetVars, outbox, attempts, limit, attempt, effectVars, faults>>

-----------------------------------------------------------------------------
(* A process starts, drains, stops, crashes.                                *)

(* start() of the queue manager registers its workers.                     *)
StartQueue(w) ==
    /\ phase[w] = "down"
    /\ phase' = [phase EXCEPT ![w] = "booting"]
    /\ polling' = [polling EXCEPT ![w] = TRUE]
    /\ UNCHANGED <<flushing, batch, outbox, jobVars, attempt, effectVars, faults>>

MoveTo(w, from, to) ==
    /\ phase[w] = from
    /\ phase' = [phase EXCEPT ![w] = to]

(* The other participants have started too.                                *)
BecomeReady(w) ==
    /\ MoveTo(w, "booting", "ready")
    /\ UNCHANGED <<polling, flushing, batch, outbox, jobVars, attempt, effectVars, faults>>

(* shutdown(): the state is draining, the queue's hook has not yet run.    *)
Shutdown(w) ==
    /\ MoveTo(w, "ready", "draining")
    /\ Fault
    /\ UNCHANGED <<polling, flushing, batch, outbox, jobVars, attempt, effectVars>>

(* drain() sets #draining and awaits the flush under way.                  *)
DrainHook(w) ==
    /\ MoveTo(w, "draining", "quiescing")
    /\ UNCHANGED <<polling, flushing, batch, outbox, jobVars, attempt, effectVars, faults>>

OffWork(w) ==
    /\ ~flushing[w]
    /\ MoveTo(w, "quiescing", "waiting")
    /\ polling' = [polling EXCEPT ![w] = FALSE]
    /\ UNCHANGED <<flushing, batch, outbox, jobVars, attempt, effectVars, faults>>

(* offWork has waited for the active handlers, or the drain deadline is    *)
(* over before.                                                            *)
Drained(w) ==
    /\ MoveTo(w, "waiting", "drained") \/ MoveTo(w, "quiescing", "drained")
    /\ UNCHANGED <<polling, flushing, batch, outbox, jobVars, attempt, effectVars, faults>>

(* stop(): pg-boss fails what is still active after its own grace period.  *)
Stop(w) ==
    /\ phase[w] = "drained"
    /\ Gone(w)
    /\ job' = [j \in Jobs |-> IF attempt[w][j] = "none" THEN job[j] ELSE Failed(j)]
    /\ \E escaped \in SUBSET {j \in Jobs : attempt[w][j] = "working"} : late' = late \cup escaped
    /\ UNCHANGED <<outbox, attempts, limit, ran, effects, faults>>

Crash(w) ==
    /\ phase[w] # "down"
    /\ Fault
    /\ Gone(w)
    /\ UNCHANGED <<outbox, jobVars, effectVars>>

-----------------------------------------------------------------------------
(* The operator.                                                            *)

RetryQueueJob(j) ==
    /\ job[j] = "failed"
    /\ limit[j] < MaxAttempts
    /\ job' = [job EXCEPT ![j] = "retry"]
    /\ limit' = [limit EXCEPT ![j] = @ + 1]
    /\ UNCHANGED <<fleetVars, outbox, attempts, attempt, effectVars, faults>>

(* The attempt of a cancelled job goes on.                                 *)
CancelQueueJob(j) ==
    /\ job[j] \in {"created", "retry", "active"}
    /\ job' = [job EXCEPT ![j] = "cancelled"]
    /\ UNCHANGED <<fleetVars, outbox, attempts, limit, attempt, effectVars, faults>>

-----------------------------------------------------------------------------
ProcessStep(w) ==
    \/ ClaimIntents(w)
    \/ HandOff(w)
    \/ StartQueue(w)
    \/ BecomeReady(w)
    \/ DrainHook(w)
    \/ OffWork(w)
    \/ Drained(w)
    \/ Stop(w)
    \/ \E j \in Jobs : Fetch(w, j) \/ Admit(w, j) \/ Refuse(w, j) \/ Acknowledge(w, j) \/ Expire(w, j)

Next ==
    \/ \E r \in Rows : StageIntent(r)
    \/ \E j \in Jobs : Enqueue(j) \/ LateCommit(j) \/ RetryQueueJob(j) \/ CancelQueueJob(j)
    \/ \E j \in Jobs : Supervise(j)
    \/ \E w \in Workers :
          \/ ProcessStep(w)
          \/ FlushFails(w)
          \/ Shutdown(w)
          \/ Crash(w)
          \/ \E j \in Jobs : Commit(w, j) \/ Throw(w, j)

(* A process that is down is started again, timers fire, transactions of   *)
(* the hand-off end; a handler may never commit.                           *)
Spec ==
    /\ Init
    /\ [][Next]_vars
    /\ \A w \in Workers : WF_vars(ProcessStep(w))
    /\ \A j \in Jobs : WF_vars(Supervise(j))

-----------------------------------------------------------------------------
(* Properties.                                                              *)

(* The hand-off is atomic: an intent is marked dispatched only with its    *)
(* job in the queue, and no two processes hold it at once (#flushOutbox).  *)
HandOffIsAtomic ==
    /\ \A r \in Rows : outbox[r] = "dispatched" => job[JobOf[r]] # "absent"
    /\ \A v, w \in Workers : v # w => batch[v] \cap batch[w] = {}
    /\ \A w \in Workers : \A r \in batch[w] : outbox[r] = "pending"

(* No two live attempts of one job, whatever expires, crashes or restarts: *)
(* when a job waits for an attempt, or has ended by itself, its last one   *)
(* was ended too (expireInSeconds, cancellation of the delivery).          *)
Live(w, j) == attempt[w][j] # "none"

OneLiveAttempt ==
    \A j \in Jobs :
        /\ \A v, w \in Workers : Live(v, j) /\ Live(w, j) => v = w
        /\ job[j] \notin {"active", "cancelled"} => \A w \in Workers : ~Live(w, j)

(* The outbox and pg-boss together keep the promise of DurableWork: work   *)
(* accepted, as a committed intent or a job, is owed until it took effect  *)
(* and is done, or its attempts are spent, or an operator cancelled it; an *)
(* idempotency key used again never revives it.                            *)
Status(j) ==
    CASE job[j] = "completed" -> "done"
      [] job[j] = "failed" -> "given up"
      [] job[j] = "cancelled" -> "withdrawn"
      [] job[j] \in {"created", "active", "retry"} -> "owed"
      [] OTHER -> IF \E r \in Rows : JobOf[r] = j /\ outbox[r] = "pending" THEN "owed" ELSE "unknown"

Promise == INSTANCE DurableWork WITH status <- [j \in Jobs |-> Status(j)]
KeepsItsPromise == Promise!WorkSpec

(* Committed intents are carried out to an end: each one's job comes to    *)
(* completed, failed or cancelled, whichever process took it up (the       *)
(* outbox poll, which goes on after a failed flush, retry and expiry).     *)
IntentsConclude ==
    \A r \in Rows : outbox[r] = "pending" ~> job[JobOf[r]] \in Terminal

(* "Doxa guarantees at-least-once execution"                               *)
(* (docs/guides/events-jobs-schedules.md, line 55): a job is given up only *)
(* after its handler was called at least once.                             *)
ExecutedAtLeastOnce ==
    \A j \in Jobs : job[j] \in {"completed", "failed"} => j \in ran

===============================================================================
