------------------------------ MODULE Lifecycle ------------------------------
(***************************************************************************)
(* The runtime-owned lifecycle of one DoxaRuntime (packages/runtime):      *)
(* boot with its bounded unwind, admission of executions, and shutdown.    *)
(*                                                                         *)
(* Participants are numbered in the order constructSingletonGraph built    *)
(* them, dependencies before dependents.  A lifecycle hook is a call that  *)
(* the runtime only waits for until a timer fires: the call itself goes on *)
(* and may settle later, or never.  An execution is admitted in two        *)
(* separate steps, because #admitExecution awaits its observers between    *)
(* the check of #state and the registration in #activeExecutions.          *)
(***************************************************************************)
EXTENDS Integers, FiniteSets

CONSTANTS
    NParticipants,  \* how many lifecycle participants the graph has
    Hooks,          \* Hooks[p]: the hooks participant p declares
    Execs           \* the executions callers try to admit

Participant == 1..NParticipants
Phase == {"start", "drain", "stop", "dispose"}

ASSUME ParticipantsAssumption == NParticipants \in Nat
ASSUME HooksAssumption == Hooks \in [Participant -> SUBSET Phase]

VARIABLES
    state,        \* DoxaRuntime.#state
    step,         \* where boot() or #performShutdown() stands
    phase,        \* the hook the current loop over participants invokes
    cursor,       \* the participant the current loop has reached
    waiting,      \* the runtime awaits call[cursor][phase]
    started,      \* participants 1..started are in boot()'s `started' list
    call,         \* what really became of each hook invocation
    budgetSpent,  \* the shared startup-cleanup deadline has passed
    unsettled,    \* phases LifecycleCleanupTimeoutError reported
    exec,         \* progress of each execution
    startedIn,    \* history: runtime state in which its work began
    active,       \* #activeExecutions
    drainSet,     \* the snapshot #drainExecutions waits for
    aborted       \* executions whose controller was aborted

lifecycleVars == <<state, step, phase, cursor, waiting, started, call,
                   budgetSpent, unsettled>>
execVars == <<exec, startedIn, active, aborted>>
vars == <<lifecycleVars, execVars, drainSet>>

RuntimeState == {"booting", "ready", "draining", "stopping", "disposing", "stopped"}
Step == {"starting", "settling", "unwinding", "serving", "hooks", "executions", "ended"}
CallState == {"none", "running", "ok", "failed"}
ExecState == {"none", "admitting", "refused", "running", "settled", "done"}

(* Every variable keeps its shape, the loops' cursor and the count of      *)
(* started participants within the graph (boot and unwindStartup).         *)
TypeOK ==
    /\ state \in RuntimeState
    /\ step \in Step
    /\ phase \in Phase
    /\ cursor \in 0..(NParticipants + 1)
    /\ waiting \in BOOLEAN
    /\ started \in 0..NParticipants
    /\ call \in [Participant -> [Phase -> CallState]]
    /\ budgetSpent \in BOOLEAN
    /\ unsettled \subseteq (Participant \X Phase)
    /\ exec \in [Execs -> ExecState]
    /\ startedIn \in [Execs -> RuntimeState]
    /\ active \subseteq Execs
    /\ drainSet \subseteq Execs
    /\ aborted \subseteq Execs

Init ==
    /\ state = "booting"
    /\ step = "starting"
    /\ phase = "start"
    /\ cursor = 1
    /\ waiting = FALSE
    /\ started = 0
    /\ call = [p \in Participant |-> [h \in Phase |-> "none"]]
    /\ budgetSpent = FALSE
    /\ unsettled = {}
    /\ exec = [e \in Execs |-> "none"]
    /\ startedIn = [e \in Execs |-> "booting"]
    /\ active = {}
    /\ drainSet = {}
    /\ aborted = {}

-----------------------------------------------------------------------------
(* Hook calls.                                                              *)

Declares(p, h) == h \in Hooks[p]

(* invokeLifecycle: the method is called; the runtime awaits it.           *)
Invoke ==
    /\ ~waiting
    /\ cursor \in Participant
    /\ Declares(cursor, phase)
    /\ call' = [call EXCEPT ![cursor][phase] = "running"]
    /\ waiting' = TRUE

(* A hook settles in its own time, even after the runtime stopped waiting. *)
HookSettles(p, h) ==
    /\ call[p][h] = "running"
    /\ \E outcome \in {"ok", "failed"} :
          call' = [call EXCEPT ![p][h] = outcome]
    /\ UNCHANGED <<state, step, phase, cursor, waiting, started, budgetSpent,
                   unsettled, execVars, drainSet>>

Awaited == call[cursor][phase]

-----------------------------------------------------------------------------
(* boot(): the start loop.                                                  *)

StartInvoke ==
    /\ step = "starting"
    /\ Invoke
    /\ UNCHANGED <<state, step, phase, cursor, started, budgetSpent, unsettled,
                   execVars, drainSet>>

(* Mutation: the started list runs one participant ahead.                  *)
StartCountsAhead ==
    /\ step = "starting"
    /\ cursor \in Participant
    /\ IF Declares(cursor, "start") THEN waiting /\ Awaited = "ok" ELSE ~waiting
    /\ started' = cursor + 1
    /\ cursor' = cursor + 1
    /\ waiting' = FALSE
    /\ UNCHANGED <<state, step, phase, call, budgetSpent, unsettled, execVars, drainSet>>

(* started.push(participant), after its start() fulfilled or when it has   *)
(* none.                                                                   *)
StartSucceeds ==
    /\ step = "starting"
    /\ cursor \in Participant
    /\ IF Declares(cursor, "start") THEN waiting /\ Awaited = "ok" ELSE ~waiting
    /\ started' = cursor
    /\ cursor' = cursor + 1
    /\ waiting' = FALSE
    /\ UNCHANGED <<state, step, phase, call, budgetSpent, unsettled, execVars, drainSet>>

(* Mutation: readiness one participant early.                              *)
ReadyOneEarly ==
    /\ step = "starting"
    /\ cursor >= NParticipants
    /\ state' = "ready"
    /\ step' = "serving"
    /\ UNCHANGED <<phase, cursor, waiting, started, call, budgetSpent, unsettled,
                   execVars, drainSet>>

(* Every participant started: the runtime serves.                          *)
BecomeReady ==
    /\ step = "starting"
    /\ cursor = NParticipants + 1
    /\ state' = "ready"
    /\ step' = "serving"
    /\ UNCHANGED <<phase, cursor, waiting, started, call, budgetSpent, unsettled,
                   execVars, drainSet>>

(* unwindStartup begins: stop, then dispose, over the owned participants   *)
(* in reverse.                                                             *)
BeginUnwind(owned) ==
    /\ step' = "unwinding"
    /\ phase' = "stop"
    /\ cursor' = owned
    /\ started' = owned
    /\ waiting' = FALSE

StartRejected ==
    /\ step = "starting"
    /\ waiting
    /\ Awaited = "failed"
    /\ BeginUnwind(started)
    /\ UNCHANGED <<state, call, budgetSpent, unsettled, execVars, drainSet>>

(* The start deadline fires first: the hook is aborted but still running,  *)
(* and gets the cleanup budget to settle.                                  *)
StartTimesOut ==
    /\ step = "starting"
    /\ waiting
    /\ Awaited = "running"
    /\ step' = "settling"
    /\ UNCHANGED <<state, phase, cursor, waiting, started, call, budgetSpent,
                   unsettled, execVars, drainSet>>

CleanupBudgetPasses ==
    /\ step \in {"settling", "unwinding"}
    /\ ~budgetSpent
    /\ budgetSpent' = TRUE
    /\ UNCHANGED <<state, step, phase, cursor, waiting, started, call, unsettled,
                   execVars, drainSet>>

(* Mutation: a start that fulfils late is not unwound.                     *)
LateStartForgotten ==
    /\ step = "settling"
    /\ Awaited \in {"ok", "failed"}
    /\ BeginUnwind(started)
    /\ UNCHANGED <<state, call, budgetSpent, unsettled, execVars, drainSet>>

(* settleWithinCleanupBudget: a late fulfilment makes the participant      *)
(* cleanup-owned, a late rejection is a secondary error.                   *)
LateStartSettles ==
    /\ step = "settling"
    /\ Awaited \in {"ok", "failed"}
    /\ BeginUnwind(IF Awaited = "ok" THEN cursor ELSE started)
    /\ UNCHANGED <<state, call, budgetSpent, unsettled, execVars, drainSet>>

(* remainingCleanupPhases, from the current participant and phase on.      *)
RemainingPhases(h, from) ==
    {<<p, h>> : p \in {q \in Participant : q <= from /\ Declares(q, h)}}
    \cup (IF h = "stop"
          THEN {<<p, "dispose">> :
                   p \in {q \in Participant : q <= started /\ Declares(q, "dispose")}}
          ELSE {})

BootFails ==
    /\ state' = "stopped"
    /\ step' = "ended"
    /\ waiting' = FALSE

(* Mutation: boot waits for the pending start without a budget.            *)
SettleForever ==
    /\ step = "settling"
    /\ Awaited # "running"
    /\ BootFails
    /\ UNCHANGED <<phase, cursor, started, call, budgetSpent, unsettled, execVars,
                   drainSet>>

(* The pending start outlived the cleanup budget: nothing is unwound, all  *)
(* of it is reported.                                                      *)
SettleBudgetExpires ==
    /\ step = "settling"
    /\ budgetSpent
    /\ unsettled' = {<<cursor, "start">>} \cup RemainingPhases("stop", started)
    /\ BootFails
    /\ UNCHANGED <<phase, cursor, started, call, budgetSpent, execVars, drainSet>>

-----------------------------------------------------------------------------
(* unwindStartup: the stop and dispose loops.                               *)

UnwindInvoke ==
    /\ step = "unwinding"
    /\ ~budgetSpent
    /\ Invoke
    /\ UNCHANGED <<state, step, phase, cursor, started, budgetSpent, unsettled,
                   execVars, drainSet>>

(* No time is left before the next hook, or a hook failed or timed out and *)
(* the budget is gone: report what remains and give up.                    *)
UnwindGivesUp ==
    /\ step = "unwinding"
    /\ budgetSpent
    /\ cursor \in Participant
    /\ Declares(cursor, phase)
    /\ waiting => Awaited \in {"running", "failed"}
    /\ unsettled' = RemainingPhases(phase, cursor)
    /\ BootFails
    /\ UNCHANGED <<phase, cursor, started, call, budgetSpent, execVars, drainSet>>

(* The hook fulfilled; or it rejected or outlived its phase deadline with  *)
(* budget left; or there was none to invoke.                               *)
UnwindNext ==
    /\ step = "unwinding"
    /\ cursor \in Participant
    /\ IF Declares(cursor, phase)
       THEN waiting /\ (Awaited \in {"running", "failed"} => ~budgetSpent)
       ELSE ~waiting
    /\ cursor' = cursor - 1
    /\ waiting' = FALSE
    /\ UNCHANGED <<state, step, phase, started, call, budgetSpent, unsettled,
                   execVars, drainSet>>

UnwindDisposes ==
    /\ step = "unwinding"
    /\ cursor = 0
    /\ phase = "stop"
    /\ phase' = "dispose"
    /\ cursor' = started
    /\ UNCHANGED <<state, step, waiting, started, call, budgetSpent, unsettled,
                   execVars, drainSet>>

UnwindCompletes ==
    /\ step = "unwinding"
    /\ cursor = 0
    /\ phase = "dispose"
    /\ BootFails
    /\ UNCHANGED <<phase, cursor, started, call, budgetSpent, unsettled, execVars,
                   drainSet>>

-----------------------------------------------------------------------------
(* shutdown().                                                              *)

(* Mutation: every caller performs its own shutdown.                       *)
ShutdownPerCaller ==
    /\ step \in {"serving", "hooks"}
    /\ state' = "draining"
    /\ step' = "hooks"
    /\ phase' = "drain"
    /\ cursor' = NParticipants
    /\ waiting' = FALSE
    /\ UNCHANGED <<started, call, budgetSpent, unsettled, execVars, drainSet>>

(* One caller starts #performShutdown; every later caller gets the same    *)
(* promise, so nothing happens.                                            *)
Shutdown ==
    /\ step = "serving"
    /\ state' = "draining"
    /\ step' = "hooks"
    /\ phase' = "drain"
    /\ cursor' = NParticipants
    /\ UNCHANGED <<waiting, started, call, budgetSpent, unsettled, execVars, drainSet>>

PhaseInvoke ==
    /\ step = "hooks"
    /\ Invoke
    /\ UNCHANGED <<state, step, phase, cursor, started, budgetSpent, unsettled,
                   execVars, drainSet>>

(* invokePhase goes on after a hook settled either way, or timed out while *)
(* still running.                                                          *)
PhaseNext ==
    /\ step = "hooks"
    /\ cursor \in Participant
    /\ waiting = Declares(cursor, phase)
    /\ cursor' = cursor - 1
    /\ waiting' = FALSE
    /\ UNCHANGED <<state, step, phase, started, call, budgetSpent, unsettled,
                   execVars, drainSet>>

(* #drainExecutions snapshots the registered executions.                   *)
DrainSnapshot ==
    /\ step = "hooks"
    /\ phase = "drain"
    /\ cursor = 0
    /\ step' = "executions"
    /\ drainSet' = active
    /\ UNCHANGED <<state, phase, cursor, waiting, started, call, budgetSpent,
                   unsettled, execVars>>

(* Mutation: stop begins at the dependencies.                              *)
StopForward ==
    /\ state' = "stopping"
    /\ step' = "hooks"
    /\ phase' = "stop"
    /\ cursor' = IF NParticipants = 0 THEN 0 ELSE 1

BeginStop ==
    /\ state' = "stopping"
    /\ step' = "hooks"
    /\ phase' = "stop"
    /\ cursor' = NParticipants

DrainSetSettled == \A e \in drainSet : exec[e] \in {"settled", "done"}

DrainSettles ==
    /\ step = "executions"
    /\ DrainSetSettled
    /\ BeginStop
    /\ UNCHANGED <<waiting, started, call, budgetSpent, unsettled, execVars, drainSet>>

(* Mutation: the drain deadline reports but aborts nothing.                *)
DrainTimesOutQuietly ==
    /\ step = "executions"
    /\ ~DrainSetSettled
    /\ BeginStop
    /\ UNCHANGED <<waiting, started, call, budgetSpent, unsettled, execVars, drainSet>>

(* Mutation: the drain deadline only aborts and goes on waiting.           *)
DrainAbortsAndWaits ==
    /\ step = "executions"
    /\ ~DrainSetSettled
    /\ aborted' = aborted \cup active
    /\ UNCHANGED <<lifecycleVars, exec, startedIn, active, drainSet>>

(* The drain deadline aborts every execution registered by now.            *)
DrainTimesOut ==
    /\ step = "executions"
    /\ ~DrainSetSettled
    /\ aborted' = aborted \cup active
    /\ BeginStop
    /\ UNCHANGED <<waiting, started, call, budgetSpent, unsettled, exec, startedIn,
                   active, drainSet>>

BeginDispose ==
    /\ step = "hooks"
    /\ phase = "stop"
    /\ cursor = 0
    /\ state' = "disposing"
    /\ phase' = "dispose"
    /\ cursor' = NParticipants
    /\ UNCHANGED <<step, waiting, started, call, budgetSpent, unsettled, execVars,
                   drainSet>>

Stopped ==
    /\ step = "hooks"
    /\ phase = "dispose"
    /\ cursor = 0
    /\ state' = "stopped"
    /\ step' = "ended"
    /\ UNCHANGED <<phase, cursor, waiting, started, call, budgetSpent, unsettled,
                   execVars, drainSet>>

-----------------------------------------------------------------------------
(* #admitExecution.                                                         *)

(* The only check of #state: a caller is refused unless the runtime is     *)
(* ready.  A queue worker already delivers while the runtime boots.        *)
Admit(e) ==
    /\ exec[e] = "none"
    /\ exec' = [exec EXCEPT ![e] = IF state = "ready" THEN "admitting" ELSE "refused"]
    /\ UNCHANGED <<lifecycleVars, startedIn, active, aborted, drainSet>>

(* The observers have answered: the work starts and is registered, with no *)
(* second look at #state.                                                  *)
StartWork(e) ==
    /\ exec[e] = "admitting"
    /\ exec' = [exec EXCEPT ![e] = "running"]
    /\ startedIn' = [startedIn EXCEPT ![e] = state]
    /\ active' = active \cup {e}
    /\ UNCHANGED <<lifecycleVars, aborted, drainSet>>

(* The work and the disposal of its scope have settled, whatever the       *)
(* outcome.                                                                *)
SettleWork(e) ==
    /\ exec[e] = "running"
    /\ exec' = [exec EXCEPT ![e] = "settled"]
    /\ UNCHANGED <<lifecycleVars, startedIn, active, aborted, drainSet>>

(* completeTelemetry has answered: the finally block unregisters it.       *)
Unregister(e) ==
    /\ exec[e] = "settled"
    /\ exec' = [exec EXCEPT ![e] = "done"]
    /\ active' = active \ {e}
    /\ UNCHANGED <<lifecycleVars, startedIn, aborted, drainSet>>

-----------------------------------------------------------------------------
BootStep ==
    \/ StartInvoke
    \/ StartSucceeds
    \/ BecomeReady
    \/ StartRejected
    \/ StartTimesOut
    \/ CleanupBudgetPasses
    \/ LateStartSettles
    \/ SettleBudgetExpires
    \/ UnwindInvoke
    \/ UnwindGivesUp
    \/ UnwindNext
    \/ UnwindDisposes
    \/ UnwindCompletes

ShutdownStep ==
    \/ PhaseInvoke
    \/ PhaseNext
    \/ DrainSnapshot
    \/ DrainSettles
    \/ DrainTimesOut
    \/ BeginDispose
    \/ Stopped

ExecStep ==
    \E e \in Execs :
        \/ Admit(e)
        \/ StartWork(e)
        \/ SettleWork(e)
        \/ Unregister(e)

Next ==
    \/ BootStep
    \/ Shutdown
    \/ ShutdownStep
    \/ ExecStep
    \/ \E p \in Participant, h \in Phase : HookSettles(p, h)

(* The runtime's own steps and its timers happen; nothing obliges a hook   *)
(* or an execution ever to settle.                                         *)
Fairness == WF_vars(BootStep) /\ WF_vars(ShutdownStep)

Spec == Init /\ [][Next]_vars /\ Fairness

-----------------------------------------------------------------------------
(* Properties.                                                              *)

Running == {"ready", "draining", "stopping", "disposing"}

(* A runtime that reached ready did so after every declared start() had    *)
(* fulfilled, so no framework work is admitted over a provider that is     *)
(* still starting (boot()'s loop and the check in #admitExecution).        *)
ReadyMeansStarted ==
    (state \in Running \/ \E e \in Execs : exec[e] \notin {"none", "refused"}) =>
        \A p \in Participant : Declares(p, "start") => call[p]["start"] = "ok"

(* Once the runtime has stopped, after shutdown or a failed boot, every    *)
(* participant whose start fulfilled, be it during the settlement window   *)
(* or still later, had its stop and dispose invoked or was reported        *)
(* unsettled: no resource is leaked in silence (unwindStartup,             *)
(* pendingCleanupPhases, remainingCleanupPhases).                          *)
Accounted(p, h) == call[p][h] # "none" \/ <<p, h>> \in unsettled

UnwindAccountsForEveryStart ==
    step = "ended" =>
        \A p \in Participant :
            (p <= started \/ call[p]["start"] = "ok") =>
                \/ <<p, "start">> \in unsettled
                \/ \A h \in {"stop", "dispose"} : Declares(p, h) => Accounted(p, h)

(* Work that began while the runtime was ready has settled, or has been    *)
(* told to abort, before any stop() runs under it (#drainExecutions).      *)
AcceptedWorkEndsOrAborts ==
    state \in {"stopping", "disposing", "stopped"} =>
        \A e \in Execs :
            exec[e] = "running" /\ startedIn[e] = "ready" => e \in aborted

(* No hook of a participant is ever invoked a second time, however many    *)
(* callers ask for shutdown and however late an earlier call settles       *)
(* (the shared #shutdownPromise).                                          *)
NoHookRunsTwice ==
    [][\A p \in Participant, h \in Phase :
          call'[p][h] = "running" => call[p][h] \in {"none", "running"}]_vars

(* Teardown runs against the order of dependencies: when stop or dispose   *)
(* of a participant is invoked, the same hook of every later participant   *)
(* the runtime owns has been invoked before, and no dispose comes before   *)
(* the last stop (invokePhase and unwindStartup over the reversed list).   *)
Invoked(p, h) == Declares(p, h) => call[p][h] # "none"

TeardownInReverse ==
    [][\A p \in Participant, h \in {"stop", "dispose"} :
          call[p][h] = "none" /\ call'[p][h] = "running" =>
              \A q \in 1..started :
                  /\ q > p => Invoked(q, h)
                  /\ h = "dispose" => Invoked(q, "stop")]_vars

(* boot() always concludes, in a ready runtime or a stopped one, even when *)
(* a start, stop or dispose hook never settles (the phase timers and the   *)
(* shared cleanup budget).                                                 *)
BootConcludes == state = "booting" ~> state \in {"ready", "stopped"}

(* shutdown() always reaches stopped, even when hooks and executions never *)
(* settle (the per-phase and drain timers).                                *)
ShutdownConcludes == state = "draining" ~> state = "stopped"

=============================================================================
