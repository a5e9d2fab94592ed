------------------------------- MODULE Schedules -------------------------------
(***************************************************************************)
(* One declared schedule and everyone who acts on it: the scheduler        *)
(* processes of queue-pg-boss (start() and the interval timers), the       *)
(* workers that admit its jobs, and the operator's schedule:enable and     *)
(* schedule:disable.  They share one row of doxa_schedule_controls, the    *)
(* cron records of pg-boss and its jobs, whose ids are derived from the    *)
(* schedule and the occurrence.                                            *)
(*                                                                         *)
(* Time counts occurrences: at time t the last one due is t.  Nothing      *)
(* hurries: time may pass between any two steps of a process.              *)
(***************************************************************************)
EXTENDS Integers, FiniteSets

CONSTANTS
    Schedulers,  \* processes with the scheduler role
    Declared,    \* the declarations considered
    MaxTime      \* bound on time

ASSUME DeclaredAssumption ==
    Declared \subseteq [cadence : {"interval", "cron"}, misfire : {"skip", "catch-up-once"},
                        overlap : {"serialize", "allow"}]
ASSUME TimeAssumption == MaxTime \in Nat \ {0}

VARIABLES
    schedule,    \* the declaration, the same in every process
    now,
    enabled,     \* the control row: enabled
    watermark,   \* the control row: last_reconciled_at
    registered,  \* pg-boss holds a cron record of the schedule
    jobs,        \* the state of each job
    stage,       \* how far start() of a process has come
    seen,        \* what the process loaded: the schedule is enabled
    timer,       \* the slot whose interval timer is set
    slot,        \* the slot being sent
    engineError, \* lastEngineError is set
    settled,     \* ghost: when a worker last took a job or the operator last commanded
    current      \* ghost: the processes that loaded the controls after the last command,
                 \* while none that loaded them before was still to apply them

control == <<enabled, watermark>>
process == <<stage, seen, timer, slot, engineError>>
ghost == <<settled, current>>
schedulesVars == <<schedule, now, control, registered, jobs, process, ghost>>

Time == 0..MaxTime
Never == -1
JobIds == {"slot", "catch-up"} \X (0..(MaxTime + 1))

SchedulesTypeOK ==
    /\ schedule \in Declared
    /\ now \in Time
    /\ enabled \in BOOLEAN /\ watermark \in Time \cup {Never}
    /\ registered \in BOOLEAN
    /\ jobs \in [JobIds -> {"none", "queued", "active", "ended"}]
    /\ seen \in [Schedulers -> BOOLEAN] /\ engineError \in [Schedulers -> BOOLEAN]
    /\ \A s \in Schedulers :
         /\ stage[s] \in {"down", "loaded", "caught-up", "arming", "running", "sending"}
         /\ slot[s] \in (IF stage[s] \in {"arming", "sending"} THEN 1..(MaxTime + 1) ELSE {Never})
         /\ timer[s] \in {Never} \cup (IF stage[s] = "running" THEN 1..(MaxTime + 1) ELSE {})
    /\ settled \in Time \cup {Never} /\ current \subseteq Schedulers

SchedulesInit ==
    /\ schedule \in Declared
    /\ now = 0
    /\ enabled = TRUE /\ watermark = Never
    /\ registered = FALSE
    /\ jobs = [j \in JobIds |-> "none"]
    /\ stage = [s \in Schedulers |-> "down"]
    /\ seen = [s \in Schedulers |-> FALSE]
    /\ timer = [s \in Schedulers |-> Never]
    /\ slot = [s \in Schedulers |-> Never]
    /\ engineError = [s \in Schedulers |-> FALSE]
    /\ settled = Never /\ current = {}

Later(a, b) == IF a > b THEN a ELSE b

(* boss.send with a derived id: a job that is there stays as it is.         *)
Send(j) == jobs' = [jobs EXCEPT ![j] = IF @ = "none" THEN "queued" ELSE @]

-----------------------------------------------------------------------------
(* start() of a scheduler.                                                  *)

(* The process comes up and reads the controls: loadScheduleControls.       *)
LoadControls(s) ==
    /\ stage[s] = "down"
    /\ engineError' = [engineError EXCEPT ![s] = FALSE]
    /\ seen' = [seen EXCEPT ![s] = enabled]
    /\ stage' = [stage EXCEPT ![s] = "loaded"]
    /\ current' = IF \E p \in Schedulers \ current : stage[p] \in {"loaded", "caught-up"}
                  THEN current \ {s} ELSE current \cup {s}
    /\ UNCHANGED <<schedule, now, control, registered, jobs, timer, slot, settled>>

(* latestOccurrence(previous, now) is due.                                  *)
IsMissed == watermark # Never /\ schedule.misfire = "catch-up-once" /\ now > watermark

(* reconcileMisfires: one transaction that holds the control row.           *)
ReconcileMisfires(s) ==
    /\ stage[s] = "loaded"
    /\ IF seen[s]
       THEN /\ IF IsMissed THEN Send(<<"catch-up", now>>) ELSE UNCHANGED jobs
            /\ watermark' = now
       ELSE UNCHANGED <<jobs, watermark>>
    /\ stage' = [stage EXCEPT ![s] = "caught-up"]
    /\ UNCHANGED <<schedule, now, enabled, registered, seen, timer, slot, engineError,
                   ghost>>

(* Mutation: what is not desired stays registered.                          *)
RegisterOnly(s) == registered' = (registered \/ (seen[s] /\ schedule.cadence = "cron"))

(* What is not desired is unscheduled, what is desired is upserted.         *)
Register(s) == registered' = (seen[s] /\ schedule.cadence = "cron")

(* The slot after this moment is taken up by armInterval.                   *)
Arm(s, to) ==
    /\ slot' = [slot EXCEPT ![s] = now + 1]
    /\ stage' = [stage EXCEPT ![s] = to]

(* reconcileCronSchedules, then startIntervalSchedules.                     *)
ReconcileSchedules(s) ==
    /\ stage[s] = "caught-up"
    /\ Register(s)
    /\ IF seen[s] /\ schedule.cadence = "interval"
       THEN Arm(s, "arming")
       ELSE /\ stage' = [stage EXCEPT ![s] = "running"]
            /\ UNCHANGED slot
    /\ UNCHANGED <<schedule, now, control, jobs, seen, timer, engineError, ghost>>

-----------------------------------------------------------------------------
(* The interval chain.                                                      *)

(* Mutation: a slot that another replica has sent is not waited for.        *)
SendIntervalAlone(s) ==
    /\ stage[s] \in {"arming", "sending"}
    /\ Send(<<"slot", slot[s]>>)
    /\ timer' = [timer EXCEPT ![s] = IF jobs[<<"slot", slot[s]>>] = "none" THEN slot[s] ELSE @]
    /\ slot' = [slot EXCEPT ![s] = Never]
    /\ stage' = [stage EXCEPT ![s] = "running"]
    /\ UNCHANGED <<schedule, now, control, registered, seen, engineError, ghost>>

(* The next slot is sent ahead, to run from its time on, and waited for.    *)
SendInterval(s) ==
    /\ stage[s] \in {"arming", "sending"}
    /\ Send(<<"slot", slot[s]>>)
    /\ timer' = [timer EXCEPT ![s] = slot[s]]
    /\ slot' = [slot EXCEPT ![s] = Never]
    /\ stage' = [stage EXCEPT ![s] = "running"]
    /\ UNCHANGED <<schedule, now, control, registered, seen, engineError, ghost>>

(* The send inside a timer fails: only lastEngineError tells.               *)
SendFails(s) ==
    /\ stage[s] = "sending"
    /\ engineError' = [engineError EXCEPT ![s] = TRUE]
    /\ slot' = [slot EXCEPT ![s] = Never]
    /\ stage' = [stage EXCEPT ![s] = "running"]
    /\ UNCHANGED <<schedule, now, control, registered, jobs, seen, timer, ghost>>

TimerFires(s) ==
    /\ stage[s] = "running" /\ timer[s] # Never /\ timer[s] <= now
    /\ timer' = [timer EXCEPT ![s] = Never]
    /\ Arm(s, "sending")
    /\ UNCHANGED <<schedule, now, control, registered, jobs, seen, engineError, ghost>>

(* The process crashes, fails to start, or drains and stops; what it was    *)
(* sending may have arrived.                                                *)
Down(s) ==
    /\ stage[s] # "down"
    /\ \/ stage[s] \in {"arming", "sending"} /\ Send(<<"slot", slot[s]>>)
       \/ UNCHANGED jobs
    /\ stage' = [stage EXCEPT ![s] = "down"]
    /\ seen' = [seen EXCEPT ![s] = FALSE]
    /\ timer' = [timer EXCEPT ![s] = Never]
    /\ slot' = [slot EXCEPT ![s] = Never]
    /\ UNCHANGED <<schedule, now, control, registered, engineError, ghost>>

-----------------------------------------------------------------------------
(* pg-boss, the workers, the operator, the clock.                           *)

(* pg-boss fires a cron record once per occurrence, in any process that     *)
(* runs its scheduler.                                                      *)
CronFires ==
    /\ registered /\ \E s \in Schedulers : stage[s] # "down"
    /\ jobs[<<"slot", now>>] = "none"
    /\ Send(<<"slot", now>>)
    /\ UNCHANGED <<schedule, now, control, registered, process, ghost>>

(* Mutation: an admission notes the occurrence instead of the moment.       *)
AdmitAsScheduled(j) ==
    /\ jobs[j] = "queued" /\ j[2] <= now
    /\ schedule.overlap = "serialize" => \A i \in JobIds : jobs[i] # "active"
    /\ jobs' = [jobs EXCEPT ![j] = "active"]
    /\ settled' = now
    /\ watermark' = Later(watermark, j[2])
    /\ UNCHANGED <<schedule, now, enabled, registered, process, current>>

(* A worker takes a due job, one at a time of a serialized schedule, and    *)
(* records the admission before it runs the handler.                        *)
AdmitDue(j) ==
    /\ jobs[j] = "queued" /\ j[2] <= now
    /\ schedule.overlap = "serialize" => \A i \in JobIds : jobs[i] # "active"
    /\ jobs' = [jobs EXCEPT ![j] = "active"]
    /\ settled' = now
    /\ watermark' = Later(watermark, now)
    /\ UNCHANGED <<schedule, now, enabled, registered, process, current>>

(* The attempt ends: the job is over, or to be retried.                     *)
AttemptEnds(j) ==
    /\ jobs[j] = "active"
    /\ \E to \in {"queued", "ended"} : jobs' = [jobs EXCEPT ![j] = to]
    /\ UNCHANGED <<schedule, now, control, registered, process, ghost>>

(* The UPDATE of schedule:enable and schedule:disable.                      *)
Set(value) == enabled' = value /\ watermark' = now

Command ==
    \E value \in BOOLEAN :
        /\ Set(value)
        /\ settled' = now
        /\ current' = {}
        /\ UNCHANGED <<schedule, now, registered, jobs, process>>

Tick ==
    /\ now < MaxTime
    /\ now' = now + 1
    /\ UNCHANGED <<schedule, control, registered, jobs, process, ghost>>

SchedulesNext ==
    \/ \E s \in Schedulers :
         \/ LoadControls(s) \/ ReconcileMisfires(s) \/ ReconcileSchedules(s)
         \/ SendInterval(s) \/ SendFails(s) \/ TimerFires(s) \/ Down(s)
    \/ CronFires
    \/ \E j \in JobIds : AdmitDue(j) \/ AttemptEnds(j)
    \/ Command \/ Tick

(* A running process goes on with its chain.                                *)
Fairness ==
    \A s \in Schedulers :
        WF_schedulesVars(TimerFires(s)) /\ WF_schedulesVars(SendInterval(s))

SchedulesSpec == SchedulesInit /\ [][SchedulesNext]_schedulesVars /\ Fairness

-----------------------------------------------------------------------------
(* What an operator suspended, and what a worker has run since, is never    *)
(* reinterpreted as an infrastructure misfire (scheduling slice): a         *)
(* recovery firing is for an occurrence later than the last command and     *)
(* than every admission of the schedule, whichever process sends it.        *)
CatchUpsAreLater ==
    [][\A t \in Time :
         jobs[<<"catch-up", t>>] = "none" /\ jobs'[<<"catch-up", t>>] # "none" =>
           t > settled]_schedulesVars

(* "Restart a background role to reconcile immediately": once a process     *)
(* that loaded the controls after the last command has started, the cron    *)
(* record is there if and only if the schedule is enabled, unless the       *)
(* command overtook a process in the middle of its start.                   *)
RestartAppliesCommand ==
    \A s \in Schedulers :
        s \in current /\ stage[s] = "running" /\ schedule.cadence = "cron"
            => registered = enabled

(* Intervals go on: a started scheduler sends a slot later than any moment  *)
(* it lives through, also when its replicas send the same slots, unless it  *)
(* ends or its last send failed.                                            *)
SlotsKeepComing ==
    \A s \in Schedulers, t \in Time :
        stage[s] = "running" /\ seen[s] /\ schedule.cadence = "interval" /\ now = t
            ~> \/ stage[s] = "down" \/ engineError[s]
               \/ \E u \in (t + 1)..(MaxTime + 1) : jobs[<<"slot", u>>] # "none"

(* The scheduling slice admits a recovery firing after downtime, for        *)
(* occurrences that were missed: one that was sent on time is not fired     *)
(* again.                                                                   *)
CatchUpsWereMissed ==
    [][\A t \in Time :
         jobs[<<"catch-up", t>>] = "none" /\ jobs'[<<"catch-up", t>>] # "none" =>
           jobs[<<"slot", t>>] = "none"]_schedulesVars
=============================================================================
