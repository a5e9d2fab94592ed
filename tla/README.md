# Doxa in TLA+

A verification of the parts of [Doxa](../src/README.md) where order and failure
matter: the lifecycle of a runtime, the transaction of an action or a job and
the models it loads, the durable queue and its schedules, the delivery of mail
and SMS, presence in the realtime servers and the client in the browser, the
sessions of signed-in users, and hot reload. TLC checks each model on a small
instance; TLAPS proves the most important properties for every value of the
constants.

Paths below are relative to `src/packages/` unless they start with `src/`.

## 1. Inventory

| component | state it keeps | operations | interacts through |
|---|---|---|---|
| Runtime lifecycle, admission (`runtime/src/lifecycle.ts`, `runtime.ts`) | `#state`, started participants, `#activeExecutions`, `#shutdownPromise` | `boot`, `unwindStartup`, `#admitExecution`, `shutdown`, `#drainExecutions` | hooks of every provider; admission of everything below |
| Runtime operations (`runtime.ts`) | `ExecutionScope` (unit of work, model session, event buffer) | dispatch of actions, queries, events, jobs, communications, realtime commands | transaction manager, queue, outbox |
| Transactions (`postgres-drizzle/.../postgres-transaction-manager.ts`) | `PostgresUnitOfWork`, `PostgresOperationQueue`, pooled clients | `transaction`, `runOperation`, `drain`, `close`, `afterCommit`, cancellation | PostgreSQL; the outbox table |
| Model sessions (`core`, `postgres-drizzle`) | identity map, dirty models, versions | load, track, flush | unit of work |
| Cache (`postgres-cache.ts`) | one table | get, put, add, forget | PostgreSQL |
| Durable queue (`queue-pg-boss/src/index.ts`) | `#outboxWork`, `#draining`, `doxa_outbox_messages`, pg-boss jobs | `start`, `enqueue`, `flushOutbox`, `drain`, `stop`, `retryQueueJob`, `cancelQueueJob` | runtime admission (`handleQueueDelivery`), pg-boss |
| Schedules (same file) | cron table of pg-boss, interval slots and timers | reconcile, arm, catch up | queue |
| Delivery ledger (`core/src/communications.ts`, transaction manager) | delivery state and provider events | accept, settle, provider event, redrive | mail and SMS providers, queue |
| Keryx (`keryx/src/index.ts`, `redis-backplane.ts`) | connections, subscriptions, presence, dedupe table, `#ready` | connect, subscribe, command, publish, recover, stop | runtime gateway, Redis, clients |
| Realtime client (`realtime/src/index.ts`) | connection state, channels, pending commands, ticket sequence | connect, channel, leave, command, disconnect | Keryx |
| Authentication (`auth-postgres/src/postgres-auth.ts`) | sessions, previous tokens, impersonation | login, authenticate (renewal), logout, revoke | PostgreSQL |
| Hot reload (`praxis/src/hot-reload.ts`) | current target, fingerprint, pending reload | request, build, replace, stop | file system, child process |
| Theoria (`theoria/src`) | bounded buffers of observations | record, query | observers of the runtime |
| The rest | none that outlives a call | compiler, manifest, introspection, Gnosis, Praxis commands, HTTP and provider adapters, testing doubles | |

### What is hard, and what would be right

*Lifecycle.* A hook is only awaited until a timer fires; the call goes on. A
`start()` that timed out may fulfil within the settlement window, after it, or
never. Admission awaits observers between its check and its registration.
Right: nothing is served before every start; every started participant is torn
down once, in reverse, or is reported; accepted work ends or is aborted before
`stop()`; boot and shutdown conclude whatever the hooks do.

*Transactions.* Handlers fan out, swallow rejections, and outlive their
cancelled attempt. A cancel request travels on another connection and may find
the next transaction there. COMMIT may be on the wire when the deadline passes.
Right: the operations a transaction waits for share one fate, success is
reported only after a commit, callbacks run only after it, no foreign
transaction is cancelled, a cancelled attempt gives its connection back. An
operation asked for in the last microtasks of a transaction, which it does not
wait for, must do no harm to these.

*Durable queue.* Several processes, one database; crashes between any two
steps; deliveries while a process boots or drains; retries that race a late
commit; two intents with one idempotency key; an operator who retries or
cancels meanwhile. Right: accepted work is never lost, is done only after it
took effect, is never attempted twice at once, and comes to an end.

*Keryx.* A frame's handler awaits the gateway and Redis, and its socket may
close at each await; the close is handled beside it. Redis goes away and comes
back; servers drain, crash and restart. Right: the presence list counts what it
lists, a live subscriber is on it, what a closed connection left there goes
away, a stopped server has let go of everything.

*Model sessions.* Branches of one handler load, edit, save and refresh one
entity; observers run in between; another execution holds the row lock. Right:
one instance per identity in an execution, and no saved edit is written over.

*Schedules.* Several schedulers load controls, reconcile and arm timers, with
restarts and an operator in between. Right: intervals go on, a command is
applied by the next start, no suspended or settled occurrence is fired again.

*Delivery.* Acceptances, failures and callbacks of several copies of a message
arrive late, twice and out of order. Right: a terminal state is final, the
failure on the row is that of its state, and a message does not stay pending
unless the provider told nothing else.

*Realtime client.* Tickets, sockets and frames cross calls of the application.
Right: one live socket, always something that leads to a connection, a wanted
channel is subscribed again, what settles a pending command is on its way.

*Authentication.* Concurrent requests of a browser renew one token. Right: a
renewal gives the former token its grace, nobody ends another's impersonation,
and the browser stays signed in while its session lives.

*Hot reload.* Edits fall between debouncing, fingerprint, build and start.
Right: no change is lost to a round under way, a stopped supervisor leaves no
supervised child.

*Not modelled yet.* Keryx: a retried publish is fanned out once, and
announcements match first-in and last-out.

`PROJECT.json` lists each hazard at its line with the properties that cover it,
or the module of the plan that will.

## 2. Modules

| module | what it is | source |
|---|---|---|
| `Lifecycle` | boot, unwind, admission, shutdown of one runtime | `lifecycle.ts`, `runtime.ts` 689-924, 3115-3179 |
| `LifecycleProofs` | its invariants and action properties, proved | |
| `AtomicWork` | abstract: what `TransactionManager` promises a caller | contract of `transaction()` |
| `UnitOfWork` | transactions over a pool, operation queue, cancellation, callbacks; implements `AtomicWork` | `postgres-transaction-manager.ts` 66-378, 798-825 |
| `UnitOfWorkProofs` | the invariants and the refinement of `UnitOfWork`, the properties of `ModelSession`, proved | |
| `DurableWork` | abstract: what the queue promises of a unit of work | contract of dispatch and delivery |
| `DurableQueue` | the fleet of worker processes, outbox, pg-boss jobs; implements `DurableWork` | `queue-pg-boss/src/index.ts` 40-247, 403-472, 580-621; `runtime.ts` 2366-2539 |
| `DurableQueueProofs` | the invariants and the refinement of `DurableQueue`, the safety properties of `Schedules`, proved | |
| `Schedules` | one declared schedule: controls, misfires, cron records, interval timers, admission | `queue-pg-boss/src/index.ts` 217-401, 658-683; `praxis/src/index.ts` 1003-1015 |
| `Delivery` | the ledger of one mail or SMS: attempts, callbacks, redrives | `core/src/communications.ts`, `postgres-transaction-manager.ts` 768-798, `runtime.ts` 2301-2351, 2576-2632, `twilio-sms`, `praxis/src/index.ts` 769-833 |
| `DeliveryProofs` | its invariants and action property, proved | |
| `ModelSession` | identity map, hydration, versioned writes of several executions over one row | `core/src/model.ts` 400-1054, `postgres-transaction-manager.ts` 284-410, 510-589 |
| `KeryxPresence` | sockets, subscriptions and presence of several realtime servers over Redis | `keryx/src/index.ts` 237-296, 362-490, 548-761, 938-1105; scripts of `redis-backplane.ts` |
| `KeryxPresenceProofs` | its invariants, proved | |
| `RealtimeClient` | the browser's client: tickets, socket, channels, commands, timers | `realtime/src/index.ts` 201-796 |
| `RealtimeClientProofs` | its invariants, proved | |
| `Sessions` | one signed-in browser: renewal, grace, impersonation, logout | `auth-postgres/src/postgres-auth.ts` 517-544, 912-1192, 1324-1462; `http-hono/src/index.ts` 45-106, 318-342 |
| `SessionsProofs` | its invariants and action properties, proved | |
| `HotReload` | the supervisor of `doxa dev` | `praxis/src/hot-reload.ts`, `praxis/src/index.ts` 1714-1774 |
| `HotReloadProofs` | its invariants, proved | |
| `MC...` | an instance of each module for TLC | |

The modules meet at stated seams rather than in one product: `DurableQueue`
has a process's lifecycle reduced to the phases a delivery can tell apart, and
an attempt's transaction reduced to its commit; `late` in it is the escape of a
COMMIT that `UnitOfWork` exhibits. `ModelSession` takes from `UnitOfWork` that
the operations of an execution run one at a time, in order, and that a failed
one dooms them all. `Delivery` takes from `DurableQueue` attempts, retries and
expiry. A slot or a catch-up of `Schedules` is a job of pg-boss, of which only
the identity and the admission matter there. `RealtimeClient` has at the other
end of its wires the order in which Keryx's `#receive` answers.

### Lifecycle

Participants are numbers in construction order. `call[p][h]` is what *really*
became of a hook; `waiting` says the runtime still awaits it. Timers are
nondeterministic: a step that gives up a call (`StartTimesOut`, `PhaseNext`,
`DrainTimesOut`, `SettleBudgetExpires`) is enabled while the call is running.
`LateStartSettles` reads the outcome of a timed-out start; `RemainingPhases`
is `remainingCleanupPhases`. `Admit` and `StartWork` are the two halves of
`#admitExecution` around its awaits, `Unregister` its `finally`.

### UnitOfWork

One transaction per `t`: `pc` is where `transaction()` stands, `op` the FIFO
`PostgresOperationQueue`, `active` the unit of work. `Issue` is any branch of the
handler, awaited or not; when it comes at `closing`, between the end of `drain()`
and `close()`, the operation is `late`: nobody waits for it or reads its failure,
and its statement runs before COMMIT or ROLLBACK, behind it, or on the client's
next transaction. `Host` is the transaction a statement really runs in; `spoiled`
is a transaction that a failed statement aborted, whose COMMIT PostgreSQL answers
with a rollback and no error. `Abort` is the abort event with every listener's
synchronous effect; `CancelHits` is `pg_cancel_backend` at the backend;
`CommitExecutes` and `CommitAnswers` split a COMMIT into its execution and its
answer. `Attempts` are the transactions of actions and jobs; a framework
transaction is never aborted. `AtomicWork` knows of late operations only that one
`strayed` into a transaction.

### DurableQueue

`phase[w]` follows one process: `down`, `booting` (workers registered, not
ready), `ready`, `draining` (state changed, the hook not yet run), `quiescing`
(hook awaits the flush), `waiting` (`offWork`), `drained`. `batch[w]` holds the
rows that its flush locked with `FOR UPDATE SKIP LOCKED`. `HandOff` is the one
transaction that inserts the jobs and marks the intents; an existing id is left
alone (`Sent`). `attempt[w][j]` is the delivery in that process. `JobOf` maps
intents to ids, since an idempotency key makes two intents name one job.
pg-boss itself is external, modelled from the calls made here (its version is
12.26): `fail` and `complete` act on an active job only, a failed job is retried
while its attempts are below its limit, a manual retry raises the limit by one.

### Schedules

Time counts occurrences: at time `t` the last one due is `t`. `stage[s]` is how
far `start()` of a scheduler has come: `LoadControls`, `ReconcileMisfires` (one
transaction that holds the control row), `ReconcileSchedules` (cron records,
then `armInterval`). `SendInterval` sends the next slot ahead under its derived
id and sets the timer; `TimerFires` takes up the slot after it. `Down` is a
crash or a shutdown, at which a send under way may have arrived. `AdmitDue` is a
worker's delivery with `#recordScheduleAdmission`; `Command` the UPDATE of
`schedule:enable` and `schedule:disable`. pg-boss's cron is external:
`CronFires` sends an occurrence once while some process runs its scheduler. The
ghosts `settled` and `current` say when a worker or the operator last decided,
and who has read the controls since.

### Delivery

`row` is the message in the ledger: its state and its kind of failure. `Apply`
is the UPDATE of `transitionDeliveryNow`, whose WHERE is the rule of
`canApplyDeliveryTransition` (`MayFollow`); `Transition` is what acceptances,
errors and callbacks are normalised to. A `took_...` outcome is an acceptance
with its state (`normalizeState`; `took_unknown`, any other status, is recorded
as pending and completes the job). `pc[<<j, n>>]` is attempt `n` of job `j`,
from `Sent` (the provider answers, or its answer is lost) to `Record` (the
transaction that tells the ledger; a transient failure is thrown for the queue
to retry). `AttemptLost` lets an attempt expire and go on unheard.
`CopyProceeds` is the provider; it may post any event it has reached again.
`Webhook` applies an event once (`recorded` is the unique key of
`doxa_delivery_events`); `Redrive` is `delivery:retry`.

### ModelSession

One row and several executions `s`, each with branches (a `Promise.all` in its
handler). `map`, `hydrating` and `inst` are the identity map, the hydration
under way and the instances; `task[s][b]` is the call a branch awaits, `queue`
the order of the operations. The attributes are a set that edits only add to, so
an edit that is no longer there was overwritten. `Found` and `Hydrate` are
`find()`, where an instance being hydrated or already attached wins over the
row; `Hydrated` ends the observers, which may throw. `Save` captures the version
and refers to the attributes, and its observers run (`announcing`); a `refresh()`
meanwhile gives the instance other attributes than the save refers to
(`overtaken`). `SaveSends` queues the write, `SaveWrites` is the versioned UPDATE or INSERT under
PostgreSQL's row lock (`Waits`, `Matches`), `SaveRecords` the journal and
outbox, `MarkSaved` what `internals.saved()` does to the attributes *as they are
by then*. The ghosts `life`, `gone` and `torn` tell apart the cases the
properties except (section 5): `life` numbers the creations of the row, and a
write by an execution that believes in an earlier one counts as another.

### KeryxPresence

The redis topology and one presence channel. `stage`, `ready` and `link` are a
server: its lifecycle, `#ready`, and `#backplane` with the recovery (`starting`:
a candidate connects; `leaked`: a client nobody will close). `conn`, `sub` and
`chain` are a connection: its socket, `connection.subscriptions`, and the frame
that `connection.inbound` is handling; `shut` is `#disconnect`, which runs
beside that frame. `entry`, `count` and `member` are the hashes in Redis.
`Authorized` is the moment a join script is sent and executed, `Joined` its
reply, which records the subscription whatever became of the socket. A lease is
a guard: `Sweep` may not take an entry that `Held` says some server renews.

### RealtimeClient

An action is one callback or one call of the application. `conn` is `#state`,
`seq` the `#connectionSequence` and `tickets` the requests under way, any number
of them; `auth` is `#authorizationPending`. `sock` is the current socket, `up`
and `down` its two wires, `server` the channels Keryx has it subscribed to. `Connect`
is shared by `connect()`, `channel()` and the reconnect timer;
`ScheduleReconnect` ends every handler of a loss. `TicketArrives` has the
sequence test, and replaces `#socket`, which may still be closing; `strays`
counts the live ones it replaced. The commands of a socket replaced while it was
closing are `stranded`: its `onclose` is ignored. `Authenticate` is the frame `connected`, which
asks for every channel that is not being left.

### Sessions

`row` is the session in `doxa_auth_sessions`: the digest of its token, the
previous one with its grace, its times, its grant of impersonation. A request
goes through `Read` (the SELECT), `EndImpersonation`, `Touch` (the UPDATE that
renews or notes the activity, with the condition of its WHERE) and the action of
its route, then `Deliver` or `Lose`, which gives the browser its cookie or does
not. Requests of one browser interleave at each of these steps. `op` is what the
route does; `"socket"` is a realtime upgrade, which never renews.

### HotReload

`src` is the version of the sources; each edit makes the next, which builds or
is `broken`. `pc` is where `start()` or `#drainReloads` stands. A fingerprint is
the version it was taken of; `built` is what a build read at one moment of its
run. `NextRound` is the `while` condition, `event` and `timer` the path of a file
event through the debounce. `ChildFails` is a start that exits or times out,
`FingerprintFails` a file that goes while it is looked at.

## 3. Runs

States are those of the check; each passing run takes from seconds to some two or
three minutes with two workers.

| run | question | result |
|---|---|---|
| `Lifecycle` | does one runtime boot, serve and stop as it should, with hooks that may hang, fail or settle late? | 544,920 states, all hold |
| `UnitOfWork` | do a job and a framework transaction keep `AtomicWork` over one contended connection, with cancellation and late operations? | 2,176,790 states, all hold |
| `DurableQueue` | does a fleet keep `DurableWork` and finish its intents? | 318,230 states, all hold |
| `DurableQueueRefusal` | is every job tried before it is given up? | **no**, finding 1 |
| `Schedules` | do intervals go on, commands apply and recoveries stay in their bounds, with two schedulers that restart at any step? | 705,235 states, all hold |
| `SchedulesCatchUp` | is a recovery fired only for an occurrence that was missed? | **no**, finding 2 |
| `Delivery` | does the ledger reach the right end whatever order it hears of copies in? | 1,712,805 states, all hold |
| `ModelSession` | do two executions of two branches lose a saved edit, or edit two copies? | 228,478 states, both hold |
| `KeryxPresence` | is the presence list right through closes, lost backplanes, crashes? | 278,844 states, all hold |
| `RealtimeClient` | does the client find back to its channels, with one socket and no promise lost? | 664,019 states, all hold |
| `Sessions` | do concurrent requests keep a browser signed in and impersonation its own? | 2,540,664 states, all hold |
| `HotReload` | is an edit ever missed, or a supervised child left behind? | 18,864 states, both hold |

### The properties

* `Lifecycle`: `ReadyMeansStarted`, `UnwindAccountsForEveryStart`,
  `AcceptedWorkEndsOrAborts`; action properties `NoHookRunsTwice`,
  `TeardownInReverse`; liveness `BootConcludes`, `ShutdownConcludes`.
  `AcceptedWorkEndsOrAborts` speaks of work that *began* in `ready`; the rest is
  an observation of section 5.
* `UnitOfWork`: `OperationsShareFate`, of the operations a transaction waits
  for; `NoForeignCancel`, `FailureMeansRollback`; refinement `KeepsItsPromise`;
  liveness `CancelledWorkLetsGo`. `FailureMeansRollback` excepts a callback that
  threw after the commit and an attempt that was aborted, `KeepsItsPromise` the
  success of a transaction that a late operation strayed into and that rolled
  back (section 5).
* `DurableQueue`: `HandOffIsAtomic`, `OneLiveAttempt`; refinement
  `KeepsItsPromise`; liveness `IntentsConclude`. `OneLiveAttempt` excepts
  nothing but `cancelled`: pg-boss does not signal the attempt of a job an
  operator cancels, and no new attempt of it follows.
* `Schedules`: `RestartAppliesCommand`; action property `CatchUpsAreLater`;
  liveness `SlotsKeepComing`, which excepts a process that ended or whose last
  send failed.
* `Delivery`: `FailureFitsState`, `RedrivesAnswerFailures`; action property
  `TerminalIsFinal`; liveness `PendingConcludes`, for fewer faults than attempts,
  which excepts an acceptance with a status the transport does not know.
* `ModelSession`: `OneInstance`; action property `SavedEditsSurvive`, which
  excepts a row that was deleted or created anew, and an instance `refresh()`
  replaced between the call of a save, observers included, and its answer.
* `KeryxPresence`: `CountsAreExact`, `SubscribersAreListed`; liveness
  `GhostsAreSwept`.
* `RealtimeClient`: `OneLiveSocket`, `NeverStranded`,
  `SubscribedMeansListening`, `NoPromiseIsLost`; liveness
  `ActiveChannelsSettle`, of channels that were asked for and never left.
  `NoPromiseIsLost` says of a command pending on the current socket that its
  frame or its answer is on a wire or that the socket is closing, and that a
  client without a socket has no pending command and no subscription deadline.
  A stranded command has its own timer and the next close; the property says
  only that it does not outlive that close.
* `Sessions`: `ClientStaysSignedIn`, for a browser that got its responses in the
  order of their cookies; action properties `RenewalKeepsCurrent`,
  `GrantsEndAlone`.
* `HotReload`: `NoChangeIsMissed` (at rest the fingerprint is of the newest
  sources; not that they are built), `StopLeavesNoChild` (of the supervised
  child; not of one whose start timed out). Section 5 has both cases.

Each module has its type invariant, `TypeOK` (`SchedulesTypeOK` and `ModelTypeOK`
in the two that share a proof module with another). The runs of `Lifecycle` and
`KeryxPresence` check it; it is proved of these two and of `HotReload`; the other
proofs carry the part of it they need.

### Bounds, and why they are enough

* `Lifecycle`: two participants, one without `drain`: a dependency and a
  dependent, so order, partial start and a late start below or at the cursor
  all occur. Two executions: one drained, one racing. The loops treat all
  participants alike, and the proofs cover any number.
* `UnitOfWork`: two transactions, a job's and a framework transaction, on **one**
  connection, so that they contend and a client changes hands; `MaxOps = 2`, so
  that one operation can fail before, behind or under another, and a late one
  behind one that is waited for; `Callbacks = 1` (one that throws). The job can
  be cancelled, the other must not suffer from it; what holds of safety when both
  can be is in the proofs. An action nobody cancels does what a framework
  transaction does.
* `DurableQueue`: two processes, two intents of one job id; `Retries = 1`,
  hence a retry and an exhaustion; `Redrives = 1`; `Faults = 2` crashes,
  shutdowns or failed flushes in all, so that a fault can meet the recovery
  from another. `DurableQueueRefusal` has no fault at all.
* `Schedules`: two schedulers; an interval that catches up, one that does not,
  and a cron that does; `MaxTime = 2`, so that an occurrence is past, one is due
  and one is ahead. Restarts, commands and failed sends are not bounded.
* `Delivery`: a job and two redrives (`Jobs = {1, 2, 3}`) of two attempts each,
  hence up to six copies; acceptances that say accepted, failed and nothing that
  is known; the statuses that end a copy well and badly; one fault. Suppression
  comes from a refusal. A second redrive is what a repeated callback could earn
  unduly. The safety properties are proved for every acceptance and status.
* `ModelSession`: two executions of two branches with two instances each:
  overlapping finds, saves and deletes inside one execution and across two;
  `MaxCalls = 6`, so that a writer, an overtaken reader and a second save fit;
  `MaxEdits = 2`. Executions, branches and instances are symmetric.
* `KeryxPresence`: two servers with a connection each, both of **one** member,
  so that first and last differ from joined and left; `MaxFrames = 2`, a
  subscribe and an unsubscribe (or a second subscribe) of each; `Faults = 2`
  lost backplanes, failed recoveries, shutdowns or crashes in all, so that a
  shutdown can meet a recovery. The invariants are proved for any of these.
* `RealtimeClient`: two channels, one command; `AppSteps = 5` calls, enough to
  ask, leave and ask again around a disconnect and a connect; `Faults = 2`, so
  that a fault can meet the recovery from another.
* `Sessions`: three requests, so that one can be late while two race; time 0 to
  3 with `Renewal = Grace = Impersonation = 1`, `Idle = 2`, `Absolute = 3`, so
  that each of them passes.
* `HotReload`: three edits: for the first build, for a round and during it;
  `Faults = 2`. The invariants are proved for any of these.

`CHECK_DEADLOCK FALSE` everywhere: a stopped runtime, reported transactions,
concluded jobs and messages, closed connections and ended sessions are where
these systems come to rest.

### Fairness, and why the code justifies it

* `Lifecycle`: weak fairness of the runtime's own steps; each is a
  continuation or a timer that Node runs. `HookSettles`, `StartWork` and
  `SettleWork` have none: hooks and executions may hang.
* `UnitOfWork`: weak fairness of `Settle`: the manager's continuations, the
  database's answer to a COMMIT, and the end of a cancel request, which has a
  timer of its own. Handlers, callbacks and statements may take for ever.
* `DurableQueue`: weak fairness of each process's steps (poll timers, pg-boss's
  fetch, the expiry timer of an attempt, and the restart of a process that is
  down, which the deployment provides, nothing in the repository) and of
  pg-boss's maintenance. `Commit`,
  `Throw`, `Crash` and `Shutdown` have none: no job is assumed to succeed.
  `Refuse` and `Fetch` being fair, a fleet that never serves still ends
  its jobs, as failed.
* `Schedules`: weak fairness of `TimerFires` and `SendInterval`: a Node timer,
  and a send that answers or fails. Nobody need restart, admit or command.
* `Delivery`: weak fairness of `BeginAttempt`, `Sent` and `Record`: a worker
  takes a job, and the send and the transaction have their timers. Neither the
  provider's callbacks nor the operator need ever come.
* `KeryxPresence`: weak fairness of each server's steps (recovery goes on until
  it connects, shutdown goes on or the process ends, the deployment restarts
  it) and of the sweep, a timer. No client and no gateway need ever act: a
  subscribe may hang, a socket may stay open for ever. A server whose `stop()`
  waits for such a socket ends with its process.
* `RealtimeClient`: weak fairness of tickets (they answer or fail), of a socket
  that opens or is lost, of the close of a closing socket, of frames on both
  wires, and of the reconnect timer. Timeouts are faults here, and the
  application owes nothing.
* `ModelSession`, `Sessions`, `HotReload`: none; they have safety properties only.

## 4. Proofs

TLAPS checks the eight proof modules for every value of the constants under the
modules' assumptions, which TLC evaluates on its instances: `NParticipants` is a
natural number and `Hooks` maps participants to hook names; the attempts that can
be cancelled are transactions; `JobOf` maps rows to jobs; connections are
finitely many, each with a server and an actor; delivery jobs are `1..n`
for some `n`, and replies and statuses those of the adapters; the channels an application
names are finitely many; requests are positive numbers; `None` is no instance
and no execution; every time and bound is a natural number. The sets of
executions, branches, instances, transactions, pool slots, workers, schedulers,
rows, jobs, servers, actors and commands are arbitrary.

**`LifecycleProofs`**. The inductive invariant is
`IInv == TypeOK /\ Control /\ Registered /\ Progress`.
`Control` ties the program counter to `#state`, the loop's hook and its
cursor; without it nothing says, for example, that unwinding stays below
`started`. `Progress` says what each loop has done so far on each side of its
cursor; the teardown properties speak of the end of loops and are not inductive
alone. `Registered` relates executions to `#activeExecutions` and the drain
snapshot. Theorems: `TypeCorrect`, `ReadinessIsEarned`,
`EveryStartIsAccountedFor`, `AcceptedWorkIsDrained`, and the action properties
`HooksRunOnce` and `TeardownIsReversed` from the same invariant.

**`UnitOfWorkProofs`**. `UInv == TypeOK /\ Exclusive` and, of each transaction,
`Tenure /\ InOrder /\ Fate`. `Tenure` follows its client: a cancel request is
under way only while the client is held, which with `Exclusive` is why it finds
no other transaction. `InOrder` is what the FIFO queue keeps: at most one
operation runs, one that is waited for runs in its own transaction and while it
works or drains, and after a failure the queue stays failed; without it the
answer of a second running operation could clear the failure. `Fate` carries
that to the decision: a transaction that has sent COMMIT, or committed, has only
operations that took effect among those it waits for (`Clean`); a transaction is
spoiled only by an operation of its own, which then failed, or by a late one
(`Blamed`); and one that runs its callbacks or reports success has committed, or
was rolled back with a late operation in it (`Ended`). Theorems: `FateIsShared`,
`CancelsAreOwn`, `FailuresRollBack`, and `TransactionsKeepPromise`, the refinement
of `AtomicWork`: registering, deciding, straying, releasing and reporting are the
steps it knows, all others stutter.

A second part proves `ModelSession`. `IdentityInv` (`Hydration`, `Waiting`,
`Shared`): the instance being hydrated is the mapped one until a `delete()` lets
the identity go, a `find()` that waits waits for it, and no branch holds it
before its observers are through. `VersionInv` compares what lies in memory with
the row: an instance or a captured statement is behind the row or, at the same
version of the same creation, `Covers` it, so that the write which the version
lets through has every edit of the row it replaces; `DraftFollows` carries this
over the commit of the other execution. A capture is compared with its own
instance as well, since a first save may overtake a second that is under way,
from the call of the save on: its observers may run while another save answers.
That the proof is for any number of executions found an error of the model:
the ghost `life` used to follow what the writer believed, and when two
executions deleted and created the row, with two others in between, a write
looked like one of an earlier creation. Two executions cannot reach that; TLC
shows it with four, and nothing with the ghost as it is. Theorems:
`BranchesShareAnInstance`, `SavedEditsStay`.

**`DurableQueueProofs`**. `QInv == Shape /\ HandOffIsAtomic /\
OneLiveAttempt /\ CommitsCount /\ LateIsKnown`. `CommitsCount` (an attempt that
waits to be acknowledged took effect) is why completion implies an effect;
`LateIsKnown` (a late COMMIT belongs to a job of the queue) is why a late
effect never precedes acceptance. Theorems: `HandOffSafe`,
`AttemptsAreExclusive` and `PromiseIsKept`, the refinement of `DurableWork`:
one lemma per group of steps shows which abstract step, or stutter, it is.
`Shape` is weaker than `TypeOK`: the bounds of the counters play no part.

A second part proves `Schedules`: `SchedulesInv == Reconciled /\ UpToDate`.
`Reconciled` puts the times in order, `settled <= watermark <= now`: whoever
settles an occurrence moves the watermark at least as far, so a catch-up, which
lies after the watermark, lies after what is settled. `UpToDate` is about the
processes that have read the controls since the last command: they agree with
the row, and no process that read them before is still on its way to the cron
record, without which the property is not inductive. Theorems:
`RecoveryFiresLater`, `RestartsReconcile`.

**`KeryxPresenceProofs`**. `PInv == TypeOK /\ CountsAreExact
/\ Stages /\ LiveSubscribers`. One lemma per script shows that it keeps the
counts exact; `count` never below zero, a part of `TypeOK`, needs that exactness.
`LiveSubscribers` strengthens `SubscribersAreListed`: a server whose backplane
will come back has no live subscriber now, since the loss closed its sockets;
nothing else keeps the property when `#recoverBackplane` succeeds. `Stages` says
how far a connection is, which `LiveSubscribers` needs for late leaves and for
restarts. Theorems: `PresenceTyped`, `PresenceIsCounted`, `SubscribersStayListed`.

**`DeliveryProofs`**. `DInv` says that the failure on the row fits its state,
that posted events carry known statuses, and which jobs there are. The argument
is that everything the ledger hears is a `Transition` whose own failure fits
(`TransitionFits`) and that `Apply` replaces state and failure together; the
rule `MayFollow` then gives `FailuresFit` and `TerminalIsKept`, and only
`Redrive`, which stages a job, leads back from a failure.

`RedrivesAreAnswers` counts. `CountInv` adds to the property that a message which
can be redriven *now* has failed strictly more often than it was redriven; a
redrive uses up the difference, and only a failed attempt or an event recorded
for the first time makes a new one. `AttemptInv` (the attempt an active job is
at has not ended) is why a failed attempt is counted once and never taken back.

**`SessionsProofs`**. `SInv == Typed /\ LastToken /\ Kept`. That the browser
matches is not inductive: the grace may pass. `LastToken` (the session's token
is the last one made, and no response carries a newer one) and `Kept` (this
token is in the jar, or in a response under way) are. A renewal moves the token
from the jar into a response, and `MayRenew`, which compares the *current*
digest, is why two requests cannot both do it. Theorems: `BrowserStaysSignedIn`,
and the action properties `CurrentTokenIsKept` and `GrantsAreEndedByTheirOwn`.

**`RealtimeClientProofs`**. `RInv == OneTicket /\ Connected /\ Waiting /\
NeverStranded`. `OneTicket`: `#authorizationPending` is set exactly while the
ticket of the current sequence number is under way, and then no socket is live;
so a ticket that opens a socket never replaces a live one.

`WireInv` is about both wires: what the client shows as subscribed (`Believed`),
and each `subscribed` frame it has yet to read (`Announced`), is listened to, or
ends by a frame behind it. The position on the wire matters: an `unsubscribed`
ahead of a `subscribed` frame does not count. `PromiseInv` follows a pending
command over them: its frame goes up, Keryx answers it in order, and the answer
comes down, unless the socket begins to close. Theorems: `SocketsAreNeverTwo`,
`AlwaysOnTheWay`, `PromisesAreKept`, `ShownIsListenedTo`.

**`HotReloadProofs`**. `HInv == TypeOK /\ Noted /\ Quiet`. `Noted` strengthens
`NoChangeIsMissed` from the supervisor at rest to each point of a round: up to
the end of the build the candidate is new, from then on the fingerprint is, or
else an event, a timer or a request is left. What is built is not in it, nor are
children that were given up. Theorems: `HotReloadTyped`,
`EveryChangeIsNoted`, `StopIsComplete`.

**Only model-checked**: the liveness properties `BootConcludes`,
`ShutdownConcludes`, `CancelledWorkLetsGo`, `IntentsConclude`, `SlotsKeepComing`,
`PendingConcludes`, `GhostsAreSwept` and `ActiveChannelsSettle`, since fairness
and ENABLED are beyond the prover. The two violation runs exhibit a behaviour.
Every invariant, action property and refinement that a passing run checks is
proved.

## 5. Findings and observations

Two violation runs check a property that quotes the document it contradicts:

1. `queue-pg-boss/src/index.ts:104`: deliveries to a booting process are
   refused and use up attempts; a job may end failed and never have run.
2. `queue-pg-boss/src/index.ts:323`: a scheduler that starts while an occurrence
   is sent but not yet admitted takes it for missed, and its catch-up runs it a
   second time under another id.

Observations are behaviours the models contain, or leave out by name, that a
reader of the code may not expect. The properties except them as said.

* *Runtime* (`runtime/src/runtime.ts`). Work of an execution admitted in `ready`
  can begin while providers stop: `#state` is not read again after the observers
  (757). A handler that outlives its cancelled job attempt finds no unit of work
  and dispatches straight to the queue (2372), so that the rollback does not
  take that job back. After an attempt's failure was recorded as `undelivered`,
  the acceptance of its retry is refused by the ledger's rule, and the
  provider's id of the new copy is not recorded (2576).
* *Transactions* (`postgres-transaction-manager.ts`). A COMMIT on the wire when
  the attempt expires may commit (152). An operation queued between the end of
  `drain()` and `close()` (344-348), by a branch nobody awaits, may fail while
  the transaction commits and reports success, although
  `typed-model-query-relationship-vertical-slice.md:38` has the transaction fail
  "when any queued operation fails". If such a late statement fails ahead of
  COMMIT, PostgreSQL answers that COMMIT with a rollback and no error, and the
  caller is told of success. A late operation of a transaction that has ended
  runs outside any transaction, or in the next one of the client the pool has
  handed on.
* *Delivery* (`twilio-sms/src/index.ts`). An acceptance with a status that
  `normalizeState` does not know is recorded as pending and completes the job
  (154): the row stays pending until a callback comes, and `delivery:retry`
  redrives only failed and undelivered messages. An acceptance that says failed
  or undelivered is recorded without a kind of failure (74).
* *Model sessions* (`core/src/model.ts`). An attribute set while `save()` awaits
  the database is not in the statement but becomes clean (749). A `refresh()`
  between the call of a `save()` of the same instance and its answer loses the
  saved edit (ghost `torn`); when it comes while the observers run, the save
  writes the attributes from before it, and marks those after it clean (664).
  A `save()` that finds nothing dirty after its observers, because another save
  of the instance answered meanwhile, sets the version back to the one it was
  called with, and the next save conflicts. Two overlapping saves record pending
  facts and messages twice. After a delete and a creation the versions begin
  anew, so that an older reader's version may match another life of the row
  (ghost `life`). `refresh()` of a deleted instance attaches it again beside its
  successor (ghost `gone`).
* *Schedules* (`queue-pg-boss/src/index.ts`). A failed send in an interval timer
  ends that process's chain until it restarts (380); `lastEngineError` tells.
* *Keryx* (`keryx/src/index.ts`). A backplane recovery that connects while the
  server stops makes it ready again, or leaves it Redis clients nobody closes
  (1098).
* *Realtime client* (`realtime/src/index.ts`). A channel that is left stays in
  the map while the leave is under way, so that `disconnect()` and `connect()`
  in between subscribe to it again (346). A channel still `leaving` when the
  connection drops is handed to the next caller of `channel()` and is not
  subscribed (316). A command pending when a fatal frame or a timeout closes the
  socket is settled by `onclose`, but not when `connect()` and its ticket replace
  the closing socket first (264, 290, 310, 624-627): it then waits for its own
  timer or the next close, beside a connection that works.
* *Authentication* (`auth-postgres/src/postgres-auth.ts`). A browser that gets
  two responses in the other order than their cookies may keep the older token,
  and is signed out when its grace ends. `login` writes the rehash of a
  password without comparing the stored one (562), and so over a password
  changed in between.
* *Hot reload* (`praxis/src/hot-reload.ts`). An edit between the moment the
  build read a file and the fingerprint after the build counts as built (111).
  A replacement that exits before it is ready leaves nothing running until the
  next edit (113). One that is not ready within 30 seconds is given up but goes
  on: no later round and no `stop()` reaches that child (`strays`;
  `praxis/src/index.ts` 1740-1771).

## 6. Assumptions and what is left out

* Observers and telemetry sinks settle (they are awaited without a deadline).
* `Lifecycle`: construction of the graph, its failures and the abort of `boot()`
  from outside are not modelled; the order of participants is given. The
  total-shutdown deadline of decision record 0017 is not in the code.
* `UnitOfWork`: connections are not lost but by a cancellation; of an operation
  of several statements the last is modelled; a statement does not answer and an
  abort event does not fire within the microtasks between `drain()` and
  `close()`; a dispatch outside the unit of work is not an operation.
* `DurableQueue`: a process that is paused past its job's expiry and wakes up
  again is not modelled (`Supervise` acts for processes that are gone). Nor are
  pg-boss's retention of completed jobs, after which a reused idempotency key
  runs again, the validation of an attempt number above 101, and the traces of
  attempts.
* `Schedules`: all processes are of one version, which declares the same
  schedules; how an expression gives its occurrences is left out.
* `Delivery`: the queue is reduced to attempts, retries and expiry; rendering,
  addresses, consent and the providers' protocols are left out.
* `ModelSession`: an observer does not find the very entity that is being
  hydrated for it (it would wait for itself); generated identities, queries,
  relations and pagination are left out.
* `KeryxPresence`: renewals are in time and a reply takes less than a lease, so
  a held lease does not expire; Redis keeps its data; one server's commands are
  executed in the order they were sent. A join whose reply is lost with the
  backplane may have been executed (`Authorized`, then `LinkLost`) or not.
  Announcements, publishing, throttles, tickets, the limits on frames and the
  local topology are not modelled.
* `RealtimeClient`: a `send()` that throws, with the close 4400 it causes,
  malformed frames, events and the members of presence, and the length of the
  backoff are left out. Frames on one wire stay in order, as they do in TCP.
* `Sessions`: one session of one browser. Passwords, access tokens, recovery,
  rate limits and applications' own user tables are left out.
* `HotReload`: a fingerprint reads one version of the sources; the operating
  system delivers the events of the watched files in the end.
* Not modelled at all: the components of `PROJECT.json` with that status, with
  reasons. The compiler, introspection, generators and most adapters keep no
  state between calls; Theoria keeps buffers of what it observed, and nothing
  depends on them.

## 7. Plan

Done: the modules of section 2. Left, in this order:

| | module | what |
|---|---|---|
| 1 | proofs | `TypeOK` of the other modules in full; the safety half of the liveness properties: as long as the goal is open, some fair action has its guard, as a state invariant |
| 2 | `KeryxPublish` | deduplicated publishing, its bounded table, drain; announcements |
| 3 | credentials | rehash against a password change, recovery tokens used once |
| 4 | cache, Theoria's buffers, construction of the graph (its topological order against a reference) | |
