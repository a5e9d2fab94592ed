--------------------------- MODULE LifecycleProofs ---------------------------
(***************************************************************************)
(* Proofs about Lifecycle, for every number of participants, every choice  *)
(* of declared hooks and every set of executions.                          *)
(*                                                                         *)
(* The inductive invariant has three layers.  Control relates the program  *)
(* counter of boot() and #performShutdown() to the runtime's state and to  *)
(* the loop's cursor.  Progress relates the cursor to the hooks invoked so *)
(* far.  Registered relates executions to #activeExecutions and to the     *)
(* drain snapshot.                                                         *)
(***************************************************************************)
EXTENDS Lifecycle, TLAPS

Control ==
    /\ step \in {"starting", "settling"} => phase = "start" /\ started = cursor - 1
    /\ step = "settling" => waiting
    /\ waiting => cursor \in Participant /\ Declares(cursor, phase)
    /\ waiting => step \in {"starting", "settling", "unwinding", "hooks"}
    /\ step \in {"starting", "settling", "unwinding"} <=> state = "booting"
    /\ step = "serving" <=> state = "ready"
    /\ step = "ended" <=> state = "stopped"
    /\ step = "unwinding" => phase \in {"stop", "dispose"} /\ cursor <= started
    /\ step \in {"serving", "hooks", "executions"} => started = NParticipants
    /\ step = "hooks" =>
          /\ cursor <= NParticipants
          /\ \/ phase = "drain" /\ state = "draining"
             \/ phase = "stop" /\ state = "stopping"
             \/ phase = "dispose" /\ state = "disposing"
    /\ step = "executions" => phase = "drain" /\ state = "draining"

LEMMA InitControl == Init => TypeOK /\ Control
<1> SUFFICES ASSUME Init PROVE TypeOK /\ Control
  OBVIOUS
<1>1. ~waiting /\ waiting \in BOOLEAN /\ budgetSpent \in BOOLEAN
  BY Zenon DEF Init
<1>2. call \in [Participant -> [Phase -> CallState]]
  BY DEF Init, CallState
<1>3. TypeOK
  BY <1>1, <1>2, ParticipantsAssumption
  DEF Init, TypeOK, RuntimeState, Step, Phase, ExecState
<1>4. Control
  BY <1>1, ParticipantsAssumption DEF Init, Control
<1>5. QED
  BY <1>3, <1>4

LEMMA ControlStep == TypeOK /\ Control /\ [Next]_vars => TypeOK' /\ Control'
<1> SUFFICES ASSUME TypeOK, Control, [Next]_vars PROVE TypeOK' /\ Control'
  OBVIOUS
<1> USE ParticipantsAssumption, HooksAssumption
<1> USE DEF TypeOK, Control, RuntimeState, Step, Phase, CallState, ExecState,
            Participant, lifecycleVars, execVars, Declares
<1>1. CASE StartInvoke
  BY <1>1 DEF StartInvoke, Invoke
<1>2. CASE StartSucceeds
  <2>1. ~waiting' /\ waiting' \in BOOLEAN
    BY <1>2, Zenon DEF StartSucceeds
  <2>2. QED
    BY <1>2, <2>1 DEF StartSucceeds
<1>3. CASE BecomeReady
  BY <1>3 DEF BecomeReady
<1>4. CASE StartRejected
  <2>1. ~waiting' /\ waiting' \in BOOLEAN
    BY <1>4, Zenon DEF StartRejected, BeginUnwind
  <2>2. QED
    BY <1>4, <2>1 DEF StartRejected, BeginUnwind
<1>5. CASE StartTimesOut
  BY <1>5 DEF StartTimesOut
<1>6. CASE CleanupBudgetPasses
  BY <1>6 DEF CleanupBudgetPasses
<1>7. CASE LateStartSettles
  <2>1. ~waiting' /\ waiting' \in BOOLEAN
    BY <1>7, Zenon DEF LateStartSettles, BeginUnwind
  <2>2. QED
    BY <1>7, <2>1 DEF LateStartSettles, BeginUnwind
<1>8. CASE SettleBudgetExpires
  <2>1. ~waiting' /\ waiting' \in BOOLEAN
    BY <1>8, Zenon DEF SettleBudgetExpires, BootFails
  <2>2. QED
    BY <1>8, <2>1 DEF SettleBudgetExpires, BootFails, RemainingPhases
<1>9. CASE UnwindInvoke
  BY <1>9 DEF UnwindInvoke, Invoke
<1>10. CASE UnwindGivesUp
  <2>1. ~waiting' /\ waiting' \in BOOLEAN
    BY <1>10, Zenon DEF UnwindGivesUp, BootFails
  <2>2. QED
    BY <1>10, <2>1 DEF UnwindGivesUp, BootFails, RemainingPhases
<1>11. CASE UnwindNext
  <2>1. ~waiting' /\ waiting' \in BOOLEAN
    BY <1>11, Zenon DEF UnwindNext
  <2>2. QED
    BY <1>11, <2>1 DEF UnwindNext
<1>12. CASE UnwindDisposes
  BY <1>12 DEF UnwindDisposes
<1>13. CASE UnwindCompletes
  BY <1>13 DEF UnwindCompletes, BootFails
<1>14. CASE Shutdown
  BY <1>14 DEF Shutdown
<1>15. CASE PhaseInvoke
  BY <1>15 DEF PhaseInvoke, Invoke
<1>16. CASE PhaseNext
  <2>1. ~waiting' /\ waiting' \in BOOLEAN
    BY <1>16, Zenon DEF PhaseNext
  <2>2. QED
    BY <1>16, <2>1 DEF PhaseNext
<1>17. CASE DrainSnapshot
  BY <1>17 DEF DrainSnapshot
<1>18. CASE DrainSettles
  BY <1>18 DEF DrainSettles, BeginStop
<1>19. CASE DrainTimesOut
  BY <1>19 DEF DrainTimesOut, BeginStop
<1>20. CASE BeginDispose
  BY <1>20 DEF BeginDispose
<1>21. CASE Stopped
  BY <1>21 DEF Stopped
<1>22. CASE ExecStep
  BY <1>22 DEF ExecStep, Admit, StartWork, SettleWork, Unregister
<1>23. CASE \E p \in Participant, h \in Phase : HookSettles(p, h)
  BY <1>23 DEF HookSettles
<1>24. CASE UNCHANGED vars
  BY <1>24 DEF vars
<1>25. QED
  BY <1>1, <1>2, <1>3, <1>4, <1>5, <1>6, <1>7, <1>8, <1>9, <1>10, <1>11, <1>12, <1>13,
     <1>14, <1>15, <1>16, <1>17, <1>18, <1>19, <1>20, <1>21, <1>22, <1>23, <1>24
     DEF Next, BootStep, ShutdownStep

-----------------------------------------------------------------------------
(* Executions.                                                              *)

Registered ==
    /\ \A e \in Execs :
          /\ exec[e] = "running" => e \in active
          /\ exec[e] \notin {"none", "refused"} =>
                started = NParticipants /\ state # "booting"
    /\ step = "executions" =>
          \A e \in Execs : exec[e] = "running" /\ startedIn[e] = "ready" => e \in drainSet
    /\ AcceptedWorkEndsOrAborts

LEMMA RegisteredStep ==
    TypeOK /\ Control /\ Registered /\ [Next]_vars => Registered'
<1> SUFFICES ASSUME TypeOK, Control, Registered, [Next]_vars PROVE Registered'
  OBVIOUS
<1> USE DEF Registered, AcceptedWorkEndsOrAborts
<1>1. CASE BootStep \/ \E p \in Participant, h \in Phase : HookSettles(p, h)
  <2>1. UNCHANGED <<exec, startedIn, active, aborted, drainSet>>
    BY <1>1 DEF BootStep, StartInvoke, StartSucceeds, BecomeReady, StartRejected,
       StartTimesOut, CleanupBudgetPasses, LateStartSettles, SettleBudgetExpires,
       UnwindInvoke, UnwindGivesUp, UnwindNext, UnwindDisposes, UnwindCompletes,
       HookSettles, execVars
  <2>2. CASE state = "booting"
    <3>1. \A e \in Execs : exec[e] \in {"none", "refused"}
      BY <2>2
    <3>2. QED
      BY <2>1, <3>1
  <2>3. CASE state # "booting"
    <3>1. UNCHANGED <<state, step, started>>
      BY <1>1, <2>3 DEF Control, BootStep, StartInvoke, StartSucceeds, BecomeReady,
         StartRejected, StartTimesOut, CleanupBudgetPasses, LateStartSettles,
         SettleBudgetExpires, UnwindInvoke, UnwindGivesUp, UnwindNext, UnwindDisposes,
         UnwindCompletes, HookSettles
    <3>2. QED
      BY <2>1, <3>1
  <2>4. QED
    BY <2>2, <2>3
<1>2. CASE Shutdown \/ PhaseInvoke \/ PhaseNext \/ BeginDispose \/ Stopped
  BY <1>2 DEF Control, Shutdown, PhaseInvoke, PhaseNext, BeginDispose, Stopped, execVars
<1>3. CASE DrainSnapshot
  BY <1>3 DEF Control, DrainSnapshot, execVars
<1>4. CASE DrainSettles
  BY <1>4 DEF Control, DrainSettles, DrainSetSettled, BeginStop, execVars
<1>5. CASE DrainTimesOut
  BY <1>5 DEF Control, DrainTimesOut, BeginStop
<1>6. CASE ExecStep
  <2>1. PICK e \in Execs : Admit(e) \/ StartWork(e) \/ SettleWork(e) \/ Unregister(e)
    BY <1>6 DEF ExecStep
  <2>2. CASE Admit(e)
    BY <2>2 DEF Admit, Control, TypeOK, lifecycleVars
  <2>3. CASE StartWork(e)
    BY <2>3 DEF StartWork, Control, TypeOK, lifecycleVars
  <2>4. CASE SettleWork(e)
    BY <2>4 DEF SettleWork, TypeOK, lifecycleVars
  <2>5. CASE Unregister(e)
    BY <2>5 DEF Unregister, TypeOK, lifecycleVars
  <2>6. QED
    BY <2>1, <2>2, <2>3, <2>4, <2>5
<1>7. CASE UNCHANGED vars
  BY <1>7 DEF vars, lifecycleVars, execVars
<1>8. QED
  BY <1>1, <1>2, <1>3, <1>4, <1>5, <1>6, <1>7 DEF Next, ShutdownStep

-----------------------------------------------------------------------------
(* Hook invocations.                                                        *)

(* The teardown loops count down: they have not reached what is ahead of   *)
(* the cursor, and have invoked what is behind it.                         *)
Ahead(p) == p < cursor \/ (p = cursor /\ ~waiting)
Behind(p) == p > cursor \/ (p = cursor /\ waiting)
Looping == step \in {"unwinding", "hooks"}
Early == step \in {"starting", "settling", "serving", "executions"}

(* Whether the runtime may still invoke hook h of participant p.           *)
Pending(p, h) ==
    \/ /\ h = "start"
       /\ step = "starting"
       /\ p > cursor \/ (p = cursor /\ ~waiting)
    \/ /\ h = "drain"
       /\ \/ step \in {"starting", "settling", "unwinding", "serving"}
          \/ step = "hooks" /\ phase = "drain" /\ Ahead(p)
    \/ /\ h = "stop"
       /\ \/ Early
          \/ Looping /\ phase = "drain"
          \/ Looping /\ phase = "stop" /\ Ahead(p)
    \/ /\ h = "dispose"
       /\ \/ Early
          \/ Looping /\ phase \in {"drain", "stop"}
          \/ Looping /\ phase = "dispose" /\ Ahead(p)

NotYetInvoked ==
    \A p \in Participant, h \in Phase : Pending(p, h) => call[p][h] = "none"

StartsFulfilled ==
    \A p \in Participant :
        p <= started /\ Declares(p, "start") => call[p]["start"] = "ok"

TornDown ==
    \A p \in 1..started :
        /\ Looping /\ phase \in {"stop", "dispose"} /\ Behind(p) => Invoked(p, phase)
        /\ Looping /\ phase = "dispose" => Invoked(p, "stop")

MayHaveStarted(p) == p <= started \/ call[p]["start"] \in {"running", "ok"}

Accounting ==
    /\ step = "settling" => \A p \in Participant : p > cursor => ~MayHaveStarted(p)
    /\ step = "unwinding" => \A p \in Participant : p > started => ~MayHaveStarted(p)
    /\ step = "ended" =>
          \A p \in Participant :
              MayHaveStarted(p) =>
                  \/ <<p, "start">> \in unsettled
                  \/ \A h \in {"stop", "dispose"} : Declares(p, h) => Accounted(p, h)

Progress == NotYetInvoked /\ StartsFulfilled /\ TornDown /\ Accounting

LEMMA InitProgress == Init => Progress
<1> SUFFICES ASSUME Init PROVE Progress
  OBVIOUS
<1>1. ~waiting /\ \A p \in Participant, h \in Phase : call[p][h] = "none"
  BY Zenon DEF Init
<1>2. NotYetInvoked
  BY <1>1 DEF NotYetInvoked
<1>3. StartsFulfilled /\ TornDown
  BY DEF Init, StartsFulfilled, TornDown, Looping, Participant
<1>4. Accounting
  BY DEF Init, Accounting
<1>5. QED
  BY <1>2, <1>3, <1>4 DEF Progress

(* What a step may do to a hook's call.                                    *)
InvokedNow(p, h) ==
    /\ p = cursor /\ h = phase
    /\ ~waiting
    /\ step \in {"starting", "unwinding", "hooks"}
    /\ UNCHANGED <<state, step, phase, cursor, started>>
    /\ waiting'
    /\ call'[p][h] = "running"

SettledNow(p, h) == call[p][h] = "running" /\ call'[p][h] \in {"ok", "failed"}

LEMMA CallStep ==
    ASSUME TypeOK, [Next]_vars
    PROVE  \A p \in Participant, h \in Phase :
              call'[p][h] = call[p][h] \/ InvokedNow(p, h) \/ SettledNow(p, h)
<1> USE DEF TypeOK, InvokedNow, SettledNow
<1>1. CASE StartInvoke \/ UnwindInvoke \/ PhaseInvoke
  BY <1>1 DEF StartInvoke, UnwindInvoke, PhaseInvoke, Invoke
<1>2. CASE \E p \in Participant, h \in Phase : HookSettles(p, h)
  BY <1>2 DEF HookSettles
<1>3. CASE UNCHANGED call
  BY <1>3
<1>4. CASE BootStep
  BY <1>1, <1>3, <1>4 DEF BootStep, StartSucceeds, BecomeReady, StartRejected,
     StartTimesOut, CleanupBudgetPasses, LateStartSettles, SettleBudgetExpires,
     UnwindGivesUp, UnwindNext, UnwindDisposes, UnwindCompletes
<1>5. CASE Shutdown \/ ShutdownStep
  BY <1>1, <1>3, <1>5 DEF Shutdown, ShutdownStep, PhaseNext, DrainSnapshot, DrainSettles,
     DrainTimesOut, BeginDispose, Stopped
<1>6. CASE ExecStep \/ UNCHANGED vars
  BY <1>3, <1>6 DEF ExecStep, Admit, StartWork, SettleWork, Unregister, vars, lifecycleVars
<1>7. QED
  BY <1>2, <1>4, <1>5, <1>6 DEF Next

(* What a step may do to the loops: the waiting flag apart, each of them   *)
(* only moves forward.                                                     *)
LEMMA PendingStep ==
    ASSUME TypeOK, Control, [Next]_vars, NEW p \in Participant, NEW h \in Phase, Pending(p, h)'
    PROVE  Pending(p, h) /\ ~InvokedNow(p, h)
<1> USE ParticipantsAssumption
<1> USE DEF TypeOK, Control, Pending, Early, Looping, Ahead, Participant, Phase,
            InvokedNow
<1>1. CASE StartInvoke
  BY <1>1 DEF StartInvoke, Invoke
<1>2. CASE StartSucceeds
  <2>1. ~waiting' /\ waiting' \in BOOLEAN
    BY <1>2, Zenon DEF StartSucceeds
  <2>2. QED
    BY <1>2, <2>1 DEF StartSucceeds
<1>3. CASE BecomeReady
  BY <1>3 DEF BecomeReady
<1>4. CASE StartRejected
  <2>1. ~waiting' /\ waiting' \in BOOLEAN
    BY <1>4, Zenon DEF StartRejected, BeginUnwind
  <2>2. QED
    BY <1>4, <2>1 DEF StartRejected, BeginUnwind
<1>5. CASE StartTimesOut \/ CleanupBudgetPasses
  BY <1>5 DEF StartTimesOut, CleanupBudgetPasses
<1>6. CASE LateStartSettles
  <2>1. ~waiting' /\ waiting' \in BOOLEAN
    BY <1>6, Zenon DEF LateStartSettles, BeginUnwind
  <2>2. QED
    BY <1>6, <2>1 DEF LateStartSettles, BeginUnwind
<1>7. CASE SettleBudgetExpires \/ UnwindGivesUp \/ UnwindCompletes
  BY <1>7 DEF SettleBudgetExpires, UnwindGivesUp, UnwindCompletes, BootFails
<1>8. CASE UnwindInvoke
  BY <1>8 DEF UnwindInvoke, Invoke
<1>9. CASE UnwindNext
  <2>1. ~waiting' /\ waiting' \in BOOLEAN
    BY <1>9, Zenon DEF UnwindNext
  <2>2. QED
    BY <1>9, <2>1 DEF UnwindNext
<1>10. CASE UnwindDisposes
  BY <1>10 DEF UnwindDisposes
<1>11. CASE Shutdown
  BY <1>11 DEF Shutdown
<1>12. CASE PhaseInvoke
  BY <1>12 DEF PhaseInvoke, Invoke
<1>13. CASE PhaseNext
  <2>1. ~waiting' /\ waiting' \in BOOLEAN
    BY <1>13, Zenon DEF PhaseNext
  <2>2. QED
    BY <1>13, <2>1 DEF PhaseNext
<1>14. CASE DrainSnapshot \/ DrainSettles \/ DrainTimesOut
  BY <1>14 DEF DrainSnapshot, DrainSettles, DrainTimesOut, BeginStop
<1>15. CASE BeginDispose \/ Stopped
  BY <1>15 DEF BeginDispose, Stopped
<1>16. CASE ExecStep \/ UNCHANGED vars
  BY <1>16 DEF ExecStep, Admit, StartWork, SettleWork, Unregister, vars, lifecycleVars
<1>17. CASE \E q \in Participant, k \in Phase : HookSettles(q, k)
  BY <1>17 DEF HookSettles
<1>18. QED
  BY <1>1, <1>2, <1>3, <1>4, <1>5, <1>6, <1>7, <1>8, <1>9, <1>10, <1>11, <1>12, <1>13,
     <1>14, <1>15, <1>16, <1>17 DEF Next, BootStep, ShutdownStep

LEMMA NotYetInvokedStep ==
    ASSUME TypeOK, Control, NotYetInvoked, [Next]_vars PROVE NotYetInvoked'
<1> SUFFICES ASSUME NEW p \in Participant, NEW h \in Phase, Pending(p, h)'
             PROVE  call'[p][h] = "none"
  BY DEF NotYetInvoked
<1>1. Pending(p, h) /\ ~InvokedNow(p, h)
  BY PendingStep
<1>2. call[p][h] = "none"
  BY <1>1 DEF NotYetInvoked
<1>3. QED
  BY <1>1, <1>2, CallStep DEF SettledNow

(* The started list, and the participants it may miss.                     *)
LEMMA StartsStep ==
    ASSUME TypeOK, Control, StartsFulfilled, [Next]_vars PROVE StartsFulfilled'
<1> USE DEF TypeOK, Control, StartsFulfilled, Participant
<1>1. \A p \in Participant : call[p]["start"] = "ok" => call'[p]["start"] = "ok"
      \/ InvokedNow(p, "start")
  BY CallStep DEF SettledNow, Phase
<1>2. \A p \in Participant : p <= started => ~InvokedNow(p, "start")
  BY DEF InvokedNow
<1>3. CASE started' <= started
  <2>1. started \in Int /\ started' \in Int
    BY ControlStep
  <2>2. QED
    BY <1>1, <1>2, <1>3, <2>1 DEF Declares
<1>4. CASE StartSucceeds
  <2>1. cursor \in Participant /\ started' = cursor /\ step = "starting"
    BY <1>4, Zenon DEF StartSucceeds
  <2>2. Declares(cursor, "start") => call[cursor]["start"] = "ok" /\ waiting
    BY <1>4, <2>1 DEF StartSucceeds, Awaited
  <2>3. QED
    BY <1>1, <1>2, <2>1, <2>2 DEF Declares, InvokedNow
<1>5. CASE LateStartSettles
  <2>1. step = "settling"
        /\ started' = IF call[cursor][phase] = "ok" THEN cursor ELSE started
    BY <1>5, Zenon DEF LateStartSettles, BeginUnwind, Awaited
  <2>2. QED
    BY <1>1, <1>2, <2>1 DEF Declares, InvokedNow
<1>6. CASE BootStep
  BY <1>3, <1>4, <1>5, <1>6 DEF BootStep, StartInvoke, BecomeReady, StartRejected, BeginUnwind,
     StartTimesOut, CleanupBudgetPasses, SettleBudgetExpires, UnwindInvoke, UnwindGivesUp,
     UnwindNext, UnwindDisposes, UnwindCompletes
<1>7. CASE Shutdown \/ ShutdownStep
  BY <1>3, <1>7 DEF Shutdown, ShutdownStep, PhaseInvoke, PhaseNext, DrainSnapshot,
     DrainSettles, DrainTimesOut, BeginDispose, Stopped
<1>8. CASE ExecStep \/ UNCHANGED vars \/ \E p \in Participant, h \in Phase : HookSettles(p, h)
  BY <1>3, <1>8 DEF ExecStep, Admit, StartWork, SettleWork, Unregister, HookSettles, vars,
     lifecycleVars
<1>9. QED
  BY <1>6, <1>7, <1>8 DEF Next

(* What has been invoked stays invoked.                                    *)
LEMMA InvokedStays ==
    ASSUME TypeOK, [Next]_vars, NEW p \in Participant, NEW h \in Phase, Invoked(p, h)
    PROVE  Invoked(p, h)'
BY CallStep DEF Invoked, Declares, InvokedNow, SettledNow

LEMMA TornDownStep ==
    ASSUME TypeOK, Control, TornDown, [Next]_vars PROVE TornDown'
<1> USE ParticipantsAssumption
<1> USE DEF TypeOK, Participant, Phase
<1>1. TypeOK' /\ Control'
  BY ControlStep
<1> SUFFICES ASSUME NEW p \in 1..started',
                    Looping', (phase \in {"stop", "dispose"})'
             PROVE  /\ Behind(p)' => Invoked(p, phase)'
                    /\ phase' = "dispose" => Invoked(p, "stop")'
  BY DEF TornDown
<1>2. p \in Participant /\ p \in Int /\ p > 0
  BY <1>1
<1>3. \A h \in Phase : Invoked(p, h) => Invoked(p, h)'
  BY <1>2, InvokedStays
<1>4. CASE UNCHANGED <<step, phase, cursor, waiting, started>>
  BY <1>3, <1>4 DEF TornDown, Looping, Behind
<1>5. CASE UnwindInvoke \/ PhaseInvoke
  <2>1. /\ UNCHANGED <<step, phase, cursor, started>>
        /\ cursor \in Participant
        /\ call' = [call EXCEPT ![cursor][phase] = "running"]
    BY <1>5 DEF UnwindInvoke, PhaseInvoke, Invoke
  <2>2. Invoked(cursor, phase)'
    BY <2>1 DEF Invoked
  <2>3. QED
    BY <1>1, <1>2, <1>3, <2>1, <2>2 DEF TornDown, Looping, Behind
<1>6. CASE UnwindNext \/ PhaseNext
  <2>1. /\ UNCHANGED <<step, phase, started>>
        /\ cursor' = cursor - 1 /\ ~waiting'
        /\ ~waiting => ~Declares(cursor, phase)
    BY <1>6, Zenon DEF UnwindNext, PhaseNext
  <2>2. Behind(p)' => Behind(p) \/ (p = cursor /\ ~Declares(cursor, phase))
    BY <1>1, <1>2, <2>1 DEF Behind
  <2>3. Behind(p)' => Invoked(p, phase)
    BY <2>1, <2>2 DEF TornDown, Looping, Invoked
  <2>4. QED
    BY <1>3, <2>1, <2>3 DEF TornDown, Looping
<1>7. CASE StartRejected \/ LateStartSettles
  <2>1. phase' = "stop" /\ cursor' = started' /\ ~waiting'
    BY <1>7, Zenon DEF StartRejected, LateStartSettles, BeginUnwind
  <2>2. QED
    BY <1>1, <1>2, <2>1 DEF Behind
<1>8. CASE UnwindDisposes \/ BeginDispose
  <2>1. /\ cursor = 0 /\ phase = "stop" /\ Looping
        /\ cursor' = started' /\ UNCHANGED <<waiting, started>>
    BY <1>8 DEF UnwindDisposes, BeginDispose, Control, Looping
  <2>2. ~waiting /\ Behind(p)
    BY <1>2, <2>1 DEF Behind, Control
  <2>3. Invoked(p, "stop")
    BY <2>1, <2>2 DEF TornDown
  <2>4. ~Behind(p)'
    BY <1>1, <1>2, <2>1, <2>2 DEF Behind
  <2>5. QED
    BY <1>3, <2>3, <2>4
<1>9. CASE DrainSettles \/ DrainTimesOut
  <2>1. phase' = "stop" /\ cursor' = started' /\ ~waiting'
    BY <1>9 DEF DrainSettles, DrainTimesOut, BeginStop, Control
  <2>2. QED
    BY <1>1, <1>2, <2>1 DEF Behind
<1>10. CASE BootStep
  BY <1>4, <1>5, <1>6, <1>7, <1>8, <1>10
  DEF BootStep, StartInvoke, Invoke, StartSucceeds, BecomeReady, StartTimesOut,
      CleanupBudgetPasses, SettleBudgetExpires, UnwindGivesUp, UnwindCompletes, BootFails,
      Looping
<1>11. CASE Shutdown \/ ShutdownStep
  BY <1>5, <1>6, <1>8, <1>9, <1>11
  DEF Shutdown, ShutdownStep, DrainSnapshot, Stopped, Looping
<1>12. CASE ExecStep \/ UNCHANGED vars \/ \E q \in Participant, h \in Phase : HookSettles(q, h)
  BY <1>4, <1>12 DEF ExecStep, Admit, StartWork, SettleWork, Unregister, HookSettles, vars,
     lifecycleVars
<1>13. QED
  BY <1>10, <1>11, <1>12 DEF Next

LEMMA AccountingStep ==
    ASSUME TypeOK, Control, Progress, [Next]_vars PROVE Accounting'
<1> USE ParticipantsAssumption
<1> USE DEF TypeOK, Participant
<1>1. TypeOK' /\ Control' /\ StartsFulfilled'
  BY ControlStep, StartsStep DEF Progress
<1> DEFINE Unstarted(p) == call[p]["start"] \notin {"running", "ok"}
<1>2. \A p \in Participant : Unstarted(p) => Unstarted(p)' \/ InvokedNow(p, "start")
  BY CallStep DEF SettledNow, Phase
<1>3. \A p \in Participant, h \in Phase : call[p][h] # "none" => call'[p][h] # "none"
  BY CallStep DEF InvokedNow, SettledNow
<1>4. CASE UNCHANGED <<step, cursor, started, unsettled>>
  <2>1. \A p \in Participant : step # "starting" => ~InvokedNow(p, "start")
    BY DEF InvokedNow, Control
  <2>2. step \in {"settling", "unwinding", "ended"} =>
            \A p \in Participant : MayHaveStarted(p)' => MayHaveStarted(p)
    BY <1>2, <1>4, <2>1 DEF MayHaveStarted
  <2>3. \A p \in Participant, h \in Phase : Accounted(p, h) => Accounted(p, h)'
    BY <1>3, <1>4 DEF Accounted
  <2>4. QED
    BY <1>4, <2>2, <2>3 DEF Progress, Accounting, Declares, Phase
<1>5. CASE StartTimesOut
  <2>1. step = "starting" /\ step' = "settling" /\ UNCHANGED <<cursor, started, call>>
    BY <1>5 DEF StartTimesOut
  <2>2. \A p \in Participant : p > cursor => call[p]["start"] = "none"
    BY <2>1 DEF Progress, NotYetInvoked, Pending, Phase
  <2>3. QED
    BY <2>1, <2>2 DEF Accounting, MayHaveStarted, Control
<1>6. CASE StartRejected
  <2>1. /\ step = "starting" /\ step' = "unwinding" /\ UNCHANGED <<started, call>>
        /\ call[cursor][phase] = "failed"
    BY <1>6, Zenon DEF StartRejected, BeginUnwind, Awaited
  <2>2. \A p \in Participant : p > cursor => call[p]["start"] = "none"
    BY <2>1 DEF Progress, NotYetInvoked, Pending, Phase
  <2>3. QED
    BY <2>1, <2>2 DEF Accounting, MayHaveStarted, Control
<1>7. CASE LateStartSettles
  <2>1. /\ step = "settling" /\ step' = "unwinding" /\ UNCHANGED call
        /\ call[cursor][phase] \in {"ok", "failed"}
        /\ started' = IF call[cursor][phase] = "ok" THEN cursor ELSE started
    BY <1>7, Zenon DEF LateStartSettles, BeginUnwind, Awaited
  <2>2. \A p \in Participant : p > cursor => Unstarted(p)
    BY <2>1 DEF Progress, Accounting, MayHaveStarted
  <2>3. QED
    BY <2>1, <2>2 DEF Accounting, MayHaveStarted, Control
<1>8. CASE SettleBudgetExpires
  <2>1. /\ step = "settling" /\ step' = "ended" /\ UNCHANGED <<started, call>>
        /\ unsettled' = {<<cursor, "start">>} \cup RemainingPhases("stop", started)
    BY <1>8, Zenon DEF SettleBudgetExpires, BootFails
  <2>2. \A p \in Participant : MayHaveStarted(p)' => p <= started \/ p = cursor
    BY <2>1 DEF Progress, Accounting, MayHaveStarted, Control
  <2>3. QED
    BY <2>1, <2>2 DEF Accounting, Accounted, RemainingPhases
<1>9. CASE UnwindGivesUp
  <2>1. /\ step = "unwinding" /\ step' = "ended" /\ UNCHANGED <<started, call>>
        /\ unsettled' = RemainingPhases(phase, cursor)
    BY <1>9, Zenon DEF UnwindGivesUp, BootFails
  <2>2. \A p \in Participant : MayHaveStarted(p)' => p <= started
    BY <2>1 DEF Progress, Accounting, MayHaveStarted
  <2>3. \A p \in 1..started : p > cursor => Invoked(p, phase)
    BY <2>1 DEF Progress, TornDown, Looping, Behind, Control
  <2>4. \A p \in 1..started : phase = "dispose" => Invoked(p, "stop")
    BY <2>1 DEF Progress, TornDown, Looping
  <2>5. QED
    BY <2>1, <2>2, <2>3, <2>4 DEF Accounting, Accounted, Invoked, RemainingPhases, Control
<1>10. CASE UnwindCompletes \/ Stopped
  <2>1. /\ Looping /\ phase = "dispose" /\ cursor = 0
        /\ step' = "ended" /\ UNCHANGED <<started, call>>
    BY <1>10, Zenon DEF UnwindCompletes, Stopped, BootFails, Looping
  <2>2. \A p \in Participant : MayHaveStarted(p)' => p <= started
    BY <2>1 DEF Progress, Accounting, MayHaveStarted, Looping, Control
  <2>3. \A p \in 1..started : Invoked(p, "dispose") /\ Invoked(p, "stop")
    BY <2>1 DEF Progress, TornDown, Behind
  <2>4. QED
    BY <2>1, <2>2, <2>3 DEF Accounting, Accounted, Invoked
<1>11. CASE step' \notin {"settling", "unwinding", "ended"}
  BY <1>11 DEF Accounting
<1>12. CASE UnwindNext \/ UnwindDisposes
  <2>1. step = "unwinding" /\ step' = "unwinding" /\ UNCHANGED <<started, call>>
    BY <1>12 DEF UnwindNext, UnwindDisposes
  <2>2. QED
    BY <2>1 DEF Progress, Accounting, MayHaveStarted
<1>13. CASE BootStep
  BY <1>4, <1>5, <1>6, <1>7, <1>8, <1>9, <1>10, <1>11, <1>12, <1>13
  DEF BootStep, StartInvoke, StartSucceeds, BecomeReady, CleanupBudgetPasses, UnwindInvoke
<1>14. CASE Shutdown \/ ShutdownStep
  BY <1>10, <1>11, <1>14
  DEF Shutdown, ShutdownStep, PhaseInvoke, PhaseNext, DrainSnapshot, DrainSettles,
      DrainTimesOut, BeginStop, BeginDispose
<1>15. CASE ExecStep \/ UNCHANGED vars \/ \E q \in Participant, h \in Phase : HookSettles(q, h)
  BY <1>4, <1>15 DEF ExecStep, Admit, StartWork, SettleWork, Unregister, HookSettles, vars,
     lifecycleVars
<1>16. QED
  BY <1>13, <1>14, <1>15 DEF Next

-----------------------------------------------------------------------------
(* The theorems.                                                            *)

IInv == TypeOK /\ Control /\ Registered /\ Progress

LEMMA InductiveInvariant == Spec => []IInv
<1>1. Init => IInv
  <2>1. Init => Registered
    BY DEF Init, Registered, AcceptedWorkEndsOrAborts
  <2>2. QED
    BY <2>1, InitControl, InitProgress DEF IInv
<1>2. IInv /\ [Next]_vars => IInv'
  <2> SUFFICES ASSUME IInv, [Next]_vars PROVE IInv'
    OBVIOUS
  <2>1. TypeOK' /\ Control' /\ Registered'
    BY ControlStep, RegisteredStep DEF IInv
  <2>2. Progress'
    BY NotYetInvokedStep, StartsStep, TornDownStep, AccountingStep DEF IInv, Progress
  <2>3. QED
    BY <2>1, <2>2 DEF IInv
<1>3. QED
  BY <1>1, <1>2, PTL DEF Spec

(* Every reachable state of the lifecycle has the shape TypeOK gives it:   *)
(* no loop of boot, unwindStartup or invokePhase leaves the graph.         *)
THEOREM TypeCorrect == Spec => []TypeOK
<1>1. IInv => TypeOK
  BY DEF IInv
<1>2. QED
  BY <1>1, InductiveInvariant, PTL

(* A runtime is ready, and work is admitted, only over participants whose  *)
(* start has fulfilled (boot's start loop and #admitExecution).            *)
THEOREM ReadinessIsEarned == Spec => []ReadyMeansStarted
<1>1. IInv => ReadyMeansStarted
  <2> SUFFICES ASSUME IInv, state \in Running
                            \/ \E e \in Execs : exec[e] \notin {"none", "refused"}
               PROVE  \A p \in Participant : Declares(p, "start") => call[p]["start"] = "ok"
    BY DEF ReadyMeansStarted
  <2>1. started = NParticipants
    BY DEF IInv, TypeOK, Control, Registered, Running, Step
  <2>2. QED
    BY <2>1, ParticipantsAssumption DEF IInv, Progress, StartsFulfilled, Participant
<1>2. QED
  BY <1>1, InductiveInvariant, PTL

(* No start is leaked: a stopped runtime has torn down or reported every   *)
(* participant that started (unwindStartup and #performShutdown).          *)
THEOREM EveryStartIsAccountedFor == Spec => []UnwindAccountsForEveryStart
<1>1. IInv => UnwindAccountsForEveryStart
  BY DEF IInv, Progress, Accounting, MayHaveStarted, UnwindAccountsForEveryStart
<1>2. QED
  BY <1>1, InductiveInvariant, PTL

(* Work accepted while ready has ended or been told to abort before stop   *)
(* begins (#drainExecutions and its deadline).                             *)
THEOREM AcceptedWorkIsDrained == Spec => []AcceptedWorkEndsOrAborts
<1>1. IInv => AcceptedWorkEndsOrAborts
  BY DEF IInv, Registered
<1>2. QED
  BY <1>1, InductiveInvariant, PTL

(* No hook is invoked a second time, whatever callers and late hooks do    *)
(* (the shared #shutdownPromise and the single pass of each loop).         *)
THEOREM HooksRunOnce == Spec => NoHookRunsTwice
<1>1. IInv /\ [Next]_vars =>
        [\A p \in Participant, h \in Phase :
            call'[p][h] = "running" => call[p][h] \in {"none", "running"}]_vars
  <2> SUFFICES ASSUME IInv, [Next]_vars, NEW p \in Participant, NEW h \in Phase,
                      call'[p][h] = "running"
               PROVE  call[p][h] \in {"none", "running"}
    OBVIOUS
  <2>1. CASE InvokedNow(p, h)
    <3>1. Pending(p, h)
      BY <2>1 DEF IInv, TypeOK, Control, InvokedNow, Pending, Early, Looping, Ahead, Phase
    <3>2. QED
      BY <3>1 DEF IInv, Progress, NotYetInvoked
  <2>2. CASE ~InvokedNow(p, h)
    BY <2>2, CallStep DEF IInv, SettledNow
  <2>3. QED
    BY <2>1, <2>2
<1>2. QED
  BY <1>1, InductiveInvariant, PTL DEF Spec, NoHookRunsTwice

(* Teardown runs against the order of dependencies, stop before dispose    *)
(* (invokePhase and unwindStartup over the reversed participants).         *)
THEOREM TeardownIsReversed == Spec => TeardownInReverse
<1>1. IInv /\ [Next]_vars =>
        [\A p \in Participant, h \in {"stop", "dispose"} :
            call[p][h] = "none" /\ call'[p][h] = "running" =>
                \A q \in 1..started :
                    /\ q > p => Invoked(q, h)
                    /\ h = "dispose" => Invoked(q, "stop")]_vars
  <2> SUFFICES ASSUME IInv, [Next]_vars, NEW p \in Participant,
                      NEW h \in {"stop", "dispose"},
                      call[p][h] = "none", call'[p][h] = "running", NEW q \in 1..started
               PROVE  (q > p => Invoked(q, h)) /\ (h = "dispose" => Invoked(q, "stop"))
    OBVIOUS
  <2>1. InvokedNow(p, h)
    BY CallStep DEF IInv, SettledNow, Phase
  <2>2. p = cursor /\ h = phase /\ Looping
    BY <2>1 DEF IInv, Control, InvokedNow, Looping
  <2>3. QED
    BY <2>2 DEF IInv, Progress, TornDown, Behind
<1>2. QED
  BY <1>1, InductiveInvariant, PTL DEF Spec, TeardownInReverse

=============================================================================
