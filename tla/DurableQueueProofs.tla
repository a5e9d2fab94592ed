--------------------------- MODULE DurableQueueProofs ---------------------------
(***************************************************************************)
(* Proofs about the two modules of the queue package.  DurableQueue, for   *)
(* any fleet, any intents and any ids: the hand-off is atomic, attempts of *)
(* one job exclude each other, and the outbox with pg-boss implements      *)
(* DurableWork.  Schedules, for any scheduler processes, declarations and  *)
(* time: what a recovery firing and a restart may do.                      *)
(***************************************************************************)
EXTENDS DurableQueue, Schedules, TLAPS

(* The shapes the proofs use; the bounds of TypeOK play no part in them.   *)
Shape ==
    /\ batch \in [Workers -> SUBSET Rows]
    /\ outbox \in [Rows -> {"none", "pending", "dispatched"}]
    /\ job \in [Jobs -> JobState]
    /\ attempt \in [Workers -> [Jobs -> {"none", "delivered", "working", "committed"}]]
    /\ late \in SUBSET Jobs
    /\ effects \in [Jobs -> Nat]

(* An attempt that waits to be acknowledged has taken effect.              *)
CommitsCount ==
    \A w \in Workers, j \in Jobs : attempt[w][j] = "committed" => effects[j] > 0

(* The job whose COMMIT is on the wire is a job of the queue.              *)
LateIsKnown == \A j \in late : job[j] # "absent"

QInv == Shape /\ HandOffIsAtomic /\ OneLiveAttempt /\ CommitsCount /\ LateIsKnown

-----------------------------------------------------------------------------
(* What the steps leave alone, grouped: a step of attempts disturbs one    *)
(* job and one process, a step of the fleet neither.                       *)

LEMMA InitQInv == Init => QInv
<1> SUFFICES ASSUME Init PROVE QInv
  OBVIOUS
<1>1. Shape
  BY DEF Init, Shape, JobState, Terminal
<1>2. HandOffIsAtomic
  BY JobOfAssumption DEF Init, HandOffIsAtomic
<1>3. OneLiveAttempt
  BY DEF Init, OneLiveAttempt, Live
<1>4. CommitsCount
  BY DEF Init, CommitsCount
<1>5. LateIsKnown
  BY DEF Init, LateIsKnown
<1> QED
  BY <1>1, <1>2, <1>3, <1>4, <1>5 DEF QInv

LEMMA FailedIsAState ==
    ASSUME Shape, NEW j \in Jobs
    PROVE  /\ Failed(j) \in JobState
           /\ job[j] # "active" => Failed(j) = job[j]
           /\ job[j] = "active" => Failed(j) \in {"retry", "failed"}
  BY DEF Shape, Failed, JobState, Terminal

LEMMA SentIsAState ==
    ASSUME Shape, NEW ids \in SUBSET Jobs
    PROVE  /\ Sent(ids) \in [Jobs -> JobState]
           /\ \A j \in Jobs :
                 Sent(ids)[j] = IF j \in ids /\ job[j] = "absent" THEN "created" ELSE job[j]
  BY DEF Shape, Sent, JobState, Terminal

LEMMA ShapeStep == ASSUME QInv, [Next]_vars PROVE Shape'
<1> USE DEF QInv
<1>1. ASSUME NEW r \in Rows, StageIntent(r) PROVE Shape'
  BY <1>1 DEF Shape, StageIntent, fleetVars, jobVars, effectVars
<1>2. ASSUME NEW j \in Jobs, Enqueue(j) PROVE Shape'
  BY <1>2, SentIsAState DEF Shape, Enqueue, fleetVars, effectVars
<1>3. ASSUME NEW j \in Jobs, LateCommit(j) PROVE Shape'
  BY <1>3 DEF Shape, LateCommit, fleetVars, jobVars
<1>4. ASSUME NEW j \in Jobs, RetryQueueJob(j) \/ CancelQueueJob(j) PROVE Shape'
  BY <1>4 DEF Shape, RetryQueueJob, CancelQueueJob, fleetVars, effectVars, JobState, Terminal
<1>5. ASSUME NEW j \in Jobs, Supervise(j) PROVE Shape'
  BY <1>5, FailedIsAState DEF Shape, Supervise, fleetVars, effectVars
<1>6. ASSUME NEW w \in Workers, ClaimIntents(w) PROVE Shape'
  BY <1>6 DEF Shape, ClaimIntents, jobVars, effectVars
<1>7. ASSUME NEW w \in Workers, HandOff(w) PROVE Shape'
  <2>1. {JobOf[r] : r \in batch[w]} \in SUBSET Jobs
    BY JobOfAssumption DEF Shape
  <2> QED
    BY <1>7, <2>1, SentIsAState DEF Shape, HandOff, FlushEnds, effectVars
<1>8. ASSUME NEW w \in Workers,
             \/ StartQueue(w) \/ BecomeReady(w) \/ DrainHook(w)
             \/ OffWork(w) \/ Drained(w) \/ Shutdown(w)
      PROVE Shape'
  BY <1>8 DEF Shape, StartQueue, BecomeReady, DrainHook, OffWork, Drained, Shutdown, MoveTo,
              jobVars, effectVars
<1>9. ASSUME NEW w \in Workers, FlushFails(w) PROVE Shape'
  <2>1. batch' = [batch EXCEPT ![w] = {}] /\ UNCHANGED <<outbox, jobVars, effectVars>>
    BY <1>9 DEF FlushFails, Gone, FlushEnds
  <2>2. attempt' = attempt \/ attempt' = [attempt EXCEPT ![w] = [j \in Jobs |-> "none"]]
    BY <1>9 DEF FlushFails, Gone
  <2>3. CASE attempt' = attempt
    BY <2>1, <2>3 DEF Shape, jobVars, effectVars
  <2>4. CASE attempt' = [attempt EXCEPT ![w] = [j \in Jobs |-> "none"]]
    BY <2>1, <2>4 DEF Shape, jobVars, effectVars
  <2> QED
    BY <2>2, <2>3, <2>4
<1>10. ASSUME NEW w \in Workers, Stop(w) PROVE Shape'
  BY <1>10, FailedIsAState DEF Shape, Stop, Gone, FlushEnds
<1>11. ASSUME NEW w \in Workers, Crash(w) PROVE Shape'
  BY <1>11 DEF Shape, Crash, Gone, FlushEnds, jobVars, effectVars
<1>12. ASSUME NEW w \in Workers, NEW j \in Jobs, Fetch(w, j) PROVE Shape'
  BY <1>12 DEF Shape, Fetch, fleetVars, effectVars, JobState, Terminal
<1>13. ASSUME NEW w \in Workers, NEW j \in Jobs, Admit(w, j) PROVE Shape'
  BY <1>13 DEF Shape, Admit, fleetVars, jobVars
<1>14. ASSUME NEW w \in Workers, NEW j \in Jobs, Refuse(w, j) \/ Throw(w, j) PROVE Shape'
  <2>1. Failed(j) \in JobState
    BY FailedIsAState
  <2>2. AttemptFails(w, j) /\ UNCHANGED <<batch, outbox, late, effects>>
    BY <1>14 DEF Refuse, Throw, fleetVars, effectVars
  <2> QED
    BY <2>1, <2>2 DEF Shape, AttemptFails
<1>15. ASSUME NEW w \in Workers, NEW j \in Jobs, Expire(w, j) PROVE Shape'
  BY <1>15, FailedIsAState DEF Shape, Expire, AttemptFails, fleetVars
<1>16. ASSUME NEW w \in Workers, NEW j \in Jobs, Acknowledge(w, j) PROVE Shape'
  BY <1>16 DEF Shape, Acknowledge, fleetVars, effectVars, JobState, Terminal
<1>17. ASSUME NEW w \in Workers, NEW j \in Jobs, Commit(w, j) PROVE Shape'
  BY <1>17 DEF Shape, Commit, fleetVars, jobVars
<1>18. CASE UNCHANGED vars
  BY <1>18 DEF Shape, vars, fleetVars, jobVars, effectVars
<1> QED
  BY <1>1, <1>2, <1>3, <1>4, <1>5, <1>6, <1>7, <1>8, <1>9, <1>10, <1>11, <1>12, <1>13,
     <1>14, <1>15, <1>16, <1>17, <1>18 DEF Next, ProcessStep

-----------------------------------------------------------------------------
(* The steps that touch no job and no attempt are all alike to the         *)
(* properties of attempts.                                                 *)

LEMMA StepKinds ==
    ASSUME [Next]_vars
    PROVE  \/ UNCHANGED <<job, attempt>>
           \/ \E j \in Jobs : Enqueue(j) \/ RetryQueueJob(j) \/ CancelQueueJob(j) \/ Supervise(j)
           \/ \E w \in Workers : HandOff(w) \/ FlushFails(w) \/ Stop(w) \/ Crash(w)
           \/ \E w \in Workers, j \in Jobs :
                 \/ Fetch(w, j) \/ Admit(w, j) \/ Refuse(w, j) \/ Throw(w, j)
                 \/ Expire(w, j) \/ Acknowledge(w, j) \/ Commit(w, j)
<1>1. ASSUME NEW r \in Rows, StageIntent(r) PROVE UNCHANGED <<job, attempt>>
  BY <1>1 DEF StageIntent, jobVars
<1>2. ASSUME NEW j \in Jobs, LateCommit(j) PROVE UNCHANGED <<job, attempt>>
  BY <1>2 DEF LateCommit, jobVars
<1>3. ASSUME NEW w \in Workers,
             \/ ClaimIntents(w) \/ StartQueue(w) \/ BecomeReady(w)
             \/ DrainHook(w) \/ OffWork(w) \/ Drained(w) \/ Shutdown(w)
      PROVE UNCHANGED <<job, attempt>>
  BY <1>3 DEF ClaimIntents, StartQueue, BecomeReady, DrainHook, OffWork, Drained,
              Shutdown, jobVars
<1>4. CASE UNCHANGED vars
  BY <1>4 DEF vars, jobVars
<1> QED
  BY <1>1, <1>2, <1>3, <1>4 DEF Next, ProcessStep

LEMMA OneLiveAttemptStep == ASSUME QInv, [Next]_vars PROVE OneLiveAttempt'
<1> USE DEF QInv
<1>1. CASE UNCHANGED <<job, attempt>>
  BY <1>1 DEF OneLiveAttempt, Live
<1>2. ASSUME NEW j \in Jobs, Enqueue(j) PROVE OneLiveAttempt'
  <2>1. \A k \in Jobs : job'[k] = job[k] \/ job[k] = "absent"
    BY <1>2, SentIsAState DEF Enqueue
  <2> QED
    BY <1>2, <2>1 DEF OneLiveAttempt, Live, Enqueue
<1>3. ASSUME NEW j \in Jobs, RetryQueueJob(j) \/ CancelQueueJob(j) PROVE OneLiveAttempt'
  <2>1. UNCHANGED attempt /\ \A k \in Jobs : k # j => job'[k] = job[k]
    BY <1>3 DEF RetryQueueJob, CancelQueueJob, Shape
  <2>2. \/ job[j] = "failed"
        \/ job'[j] = "cancelled"
    BY <1>3 DEF RetryQueueJob, CancelQueueJob, Shape
  <2> QED
    BY <2>1, <2>2 DEF OneLiveAttempt, Live
<1>4. ASSUME NEW j \in Jobs, Supervise(j) PROVE OneLiveAttempt'
  BY <1>4 DEF OneLiveAttempt, Live, Supervise, Shape
<1>5. ASSUME NEW w \in Workers, HandOff(w) PROVE OneLiveAttempt'
  <2>1. {JobOf[r] : r \in batch[w]} \in SUBSET Jobs
    BY JobOfAssumption DEF Shape
  <2>2. \A k \in Jobs : job'[k] = job[k] \/ job[k] = "absent"
    BY <1>5, <2>1, SentIsAState DEF HandOff
  <2> QED
    BY <1>5, <2>2 DEF OneLiveAttempt, Live, HandOff
<1>6. ASSUME NEW w \in Workers, FlushFails(w) \/ Stop(w) \/ Crash(w) PROVE OneLiveAttempt'
  <2>1. \/ UNCHANGED <<job, attempt>>
        \/ \A v \in Workers, k \in Jobs :
              attempt'[v][k] = IF v = w THEN "none" ELSE attempt[v][k]
    BY <1>6 DEF FlushFails, Stop, Crash, Gone, jobVars, Shape
  <2>2. \A k \in Jobs : job'[k] = job[k] \/ Live(w, k)
    <3>1. CASE Stop(w)
      <4>1. job' = [k \in Jobs |-> IF attempt[w][k] = "none" THEN job[k] ELSE Failed(k)]
        BY <3>1 DEF Stop
      <4> QED
        BY <4>1 DEF Live
    <3>2. CASE FlushFails(w) \/ Crash(w)
      BY <3>2 DEF FlushFails, Crash, jobVars
    <3> QED
      BY <1>6, <3>1, <3>2
  <2> QED
    BY <2>1, <2>2 DEF OneLiveAttempt, Live
<1>7. ASSUME NEW w \in Workers, NEW j \in Jobs, Fetch(w, j) PROVE OneLiveAttempt'
  BY <1>7 DEF OneLiveAttempt, Live, Fetch, Shape
<1>8. ASSUME NEW w \in Workers, NEW j \in Jobs, Admit(w, j) \/ Commit(w, j)
      PROVE OneLiveAttempt'
  <2>1. UNCHANGED job /\ Live(w, j)
    BY <1>8 DEF Live, Admit, Commit, jobVars
  <2>2. \A v \in Workers, k \in Jobs : Live(v, k)' => Live(v, k)
    BY <1>8 DEF Live, Admit, Commit, Shape
  <2> QED
    BY <2>1, <2>2 DEF OneLiveAttempt
<1>9. ASSUME NEW w \in Workers, NEW j \in Jobs,
             Refuse(w, j) \/ Throw(w, j) \/ Expire(w, j) \/ Acknowledge(w, j)
      PROVE OneLiveAttempt'
  <2>1. Live(w, j)
    BY <1>9 DEF Live, Refuse, Throw, Expire, Acknowledge
  <2>2. \A v \in Workers, k \in Jobs :
           attempt'[v][k] = IF v = w /\ k = j THEN "none" ELSE attempt[v][k]
    BY <1>9 DEF Refuse, Throw, Expire, Acknowledge, AttemptFails, Shape
  <2>3. \A k \in Jobs : job'[k] = job[k] \/ k = j
    BY <1>9 DEF Refuse, Throw, Expire, Acknowledge, AttemptFails, Shape
  <2> QED
    BY <2>1, <2>2, <2>3 DEF OneLiveAttempt, Live
<1> QED
  BY <1>1, <1>2, <1>3, <1>4, <1>5, <1>6, <1>7, <1>8, <1>9, StepKinds

LEMMA CommitsCountStep == ASSUME QInv, [Next]_vars PROVE CommitsCount'
<1> USE DEF QInv
<1>2. ASSUME NEW w \in Workers, NEW j \in Jobs, Commit(w, j) PROVE CommitsCount'
  BY <1>2 DEF CommitsCount, Commit, Shape
<1>3. ASSUME UNCHANGED effects,
             \A w \in Workers, j \in Jobs :
                attempt'[w][j] = "committed" => attempt[w][j] = "committed"
      PROVE CommitsCount'
  BY <1>3 DEF CommitsCount
<1>4. ASSUME NEW w \in Workers, NEW j \in Jobs,
             \/ Fetch(w, j) \/ Admit(w, j) \/ Refuse(w, j) \/ Throw(w, j)
             \/ Expire(w, j) \/ Acknowledge(w, j)
      PROVE CommitsCount'
  <2>1. UNCHANGED effects
    BY <1>4 DEF Fetch, Admit, Refuse, Throw, Expire, Acknowledge, effectVars
  <2>2. \A v \in Workers, k \in Jobs :
           attempt'[v][k] = "committed" => attempt[v][k] = "committed"
    BY <1>4 DEF Fetch, Admit, Refuse, Throw, Expire, Acknowledge, AttemptFails, Shape
  <2> QED
    BY <2>1, <2>2, <1>3
<1>5. ASSUME NEW w \in Workers, FlushFails(w) \/ Stop(w) \/ Crash(w) PROVE CommitsCount'
  <2>1. UNCHANGED effects
    BY <1>5 DEF FlushFails, Stop, Crash, effectVars
  <2>2. \A v \in Workers, k \in Jobs :
           attempt'[v][k] = "committed" => attempt[v][k] = "committed"
    BY <1>5 DEF FlushFails, Stop, Crash, Gone, Shape
  <2> QED
    BY <2>1, <2>2, <1>3
<1>6. ASSUME NEW j \in Jobs, LateCommit(j) PROVE CommitsCount'
  BY <1>6 DEF LateCommit, CommitsCount, jobVars, Shape
<1>7. ASSUME NEW r \in Rows, StageIntent(r) PROVE CommitsCount'
  BY <1>7 DEF StageIntent, effectVars, CommitsCount
<1>8. ASSUME NEW j \in Jobs,
             Enqueue(j) \/ RetryQueueJob(j) \/ CancelQueueJob(j) \/ Supervise(j)
      PROVE CommitsCount'
  BY <1>8 DEF Enqueue, RetryQueueJob, CancelQueueJob, Supervise, effectVars, CommitsCount
<1>9. ASSUME NEW w \in Workers,
             \/ ClaimIntents(w) \/ HandOff(w) \/ StartQueue(w)
             \/ BecomeReady(w) \/ DrainHook(w) \/ OffWork(w) \/ Drained(w) \/ Shutdown(w)
      PROVE CommitsCount'
  BY <1>9 DEF ClaimIntents, HandOff, StartQueue, BecomeReady, DrainHook, OffWork,
              Drained, Shutdown, effectVars, CommitsCount
<1>10. CASE UNCHANGED vars
  BY <1>10 DEF vars, effectVars, CommitsCount
<1> QED
  BY <1>2, <1>4, <1>5, <1>6, <1>7, <1>8, <1>9, <1>10 DEF Next, ProcessStep

-----------------------------------------------------------------------------
(* Jobs are never forgotten.                                               *)

LEMMA JobsStay ==
    ASSUME QInv, [Next]_vars
    PROVE  \A k \in Jobs : job[k] # "absent" => job'[k] # "absent"
<1> USE DEF QInv
<1>1. CASE UNCHANGED <<job, attempt>>
  BY <1>1
<1>2. ASSUME NEW j \in Jobs, Enqueue(j)
      PROVE \A k \in Jobs : job[k] # "absent" => job'[k] # "absent"
  BY <1>2, SentIsAState DEF Enqueue
<1>3. ASSUME NEW j \in Jobs, RetryQueueJob(j) \/ CancelQueueJob(j)
      PROVE \A k \in Jobs : job[k] # "absent" => job'[k] # "absent"
  BY <1>3 DEF RetryQueueJob, CancelQueueJob, Shape
<1>4. ASSUME NEW j \in Jobs, Supervise(j)
      PROVE \A k \in Jobs : job[k] # "absent" => job'[k] # "absent"
  BY <1>4, FailedIsAState DEF Supervise, Shape
<1>5. ASSUME NEW w \in Workers, HandOff(w)
      PROVE \A k \in Jobs : job[k] # "absent" => job'[k] # "absent"
  <2>1. {JobOf[r] : r \in batch[w]} \in SUBSET Jobs
    BY JobOfAssumption DEF Shape
  <2> QED
    BY <1>5, <2>1, SentIsAState DEF HandOff
<1>6. ASSUME NEW w \in Workers, Stop(w)
      PROVE \A k \in Jobs : job[k] # "absent" => job'[k] # "absent"
  BY <1>6, FailedIsAState DEF Stop
<1>7. ASSUME NEW w \in Workers, FlushFails(w) \/ Crash(w)
      PROVE \A k \in Jobs : job[k] # "absent" => job'[k] # "absent"
  BY <1>7 DEF FlushFails, Crash, jobVars
<1>8. ASSUME NEW w \in Workers, NEW j \in Jobs, Fetch(w, j) \/ Acknowledge(w, j)
      PROVE \A k \in Jobs : job[k] # "absent" => job'[k] # "absent"
  BY <1>8 DEF Fetch, Acknowledge, Shape
<1>9. ASSUME NEW w \in Workers, NEW j \in Jobs, Refuse(w, j) \/ Throw(w, j) \/ Expire(w, j)
      PROVE \A k \in Jobs : job[k] # "absent" => job'[k] # "absent"
  <2>1. AttemptFails(w, j)
    BY <1>9 DEF Refuse, Throw, Expire
  <2> QED
    BY <2>1, FailedIsAState DEF AttemptFails, Shape
<1>10. ASSUME NEW w \in Workers, NEW j \in Jobs, Admit(w, j) \/ Commit(w, j)
       PROVE \A k \in Jobs : job[k] # "absent" => job'[k] # "absent"
  BY <1>10 DEF Admit, Commit, jobVars
<1> QED
  BY <1>1, <1>2, <1>3, <1>4, <1>5, <1>6, <1>7, <1>8, <1>9, <1>10, StepKinds

LEMMA LateIsKnownStep == ASSUME QInv, [Next]_vars PROVE LateIsKnown'
<1> USE DEF QInv
<1>1. ASSUME NEW w \in Workers, NEW j \in Jobs, Live(w, j) PROVE job[j] # "absent"
  BY <1>1 DEF OneLiveAttempt
<1>2. late' \subseteq late \cup {j \in Jobs : \E w \in Workers : Live(w, j)}
  <2>1. ASSUME NEW w \in Workers, NEW j \in Jobs, Expire(w, j)
        PROVE late' \subseteq late \cup {k \in Jobs : \E v \in Workers : Live(v, k)}
    BY <2>1 DEF Expire, Live
  <2>2. ASSUME NEW w \in Workers, Stop(w)
        PROVE late' \subseteq late \cup {k \in Jobs : \E v \in Workers : Live(v, k)}
    BY <2>2 DEF Stop, Live
  <2>3. ASSUME NEW j \in Jobs,
               \/ Enqueue(j) \/ LateCommit(j) \/ RetryQueueJob(j) \/ CancelQueueJob(j)
               \/ Supervise(j)
        PROVE late' \subseteq late
    BY <2>3 DEF Enqueue, LateCommit, RetryQueueJob, CancelQueueJob, Supervise, effectVars
  <2>4. ASSUME NEW w \in Workers,
               \/ ClaimIntents(w) \/ HandOff(w) \/ FlushFails(w) \/ StartQueue(w)
               \/ BecomeReady(w) \/ DrainHook(w) \/ OffWork(w) \/ Drained(w) \/ Shutdown(w)
               \/ Crash(w)
        PROVE UNCHANGED late
    BY <2>4 DEF ClaimIntents, HandOff, FlushFails, StartQueue, BecomeReady, DrainHook, OffWork,
                Drained, Shutdown, Crash, effectVars
  <2>5. ASSUME NEW w \in Workers, NEW j \in Jobs,
               \/ Fetch(w, j) \/ Admit(w, j) \/ Refuse(w, j) \/ Throw(w, j)
               \/ Acknowledge(w, j) \/ Commit(w, j)
        PROVE UNCHANGED late
    BY <2>5 DEF Fetch, Admit, Refuse, Throw, Acknowledge, Commit, effectVars
  <2>6. ASSUME NEW r \in Rows, StageIntent(r) PROVE UNCHANGED late
    BY <2>6 DEF StageIntent, effectVars
  <2>7. CASE UNCHANGED vars
    BY <2>7 DEF vars, effectVars
  <2> QED
    BY <2>1, <2>2, <2>3, <2>4, <2>5, <2>6, <2>7 DEF Next, ProcessStep
<1> QED
  BY <1>1, <1>2, JobsStay DEF LateIsKnown, Shape

-----------------------------------------------------------------------------
(* The hand-off.                                                           *)

LEMMA HandOffIsAtomicStep == ASSUME QInv, [Next]_vars PROVE HandOffIsAtomic'
<1>0. \A k \in Jobs : job[k] # "absent" => job'[k] # "absent"
  BY JobsStay
<1> USE DEF QInv
<1>1. ASSUME UNCHANGED outbox,
             \A w \in Workers : batch'[w] \subseteq batch[w]
      PROVE HandOffIsAtomic'
  <2>1. ASSUME NEW r \in Rows, outbox'[r] = "dispatched" PROVE job'[JobOf[r]] # "absent"
    <3>1. JobOf[r] \in Jobs
      BY JobOfAssumption
    <3>2. job[JobOf[r]] # "absent"
      BY <1>1, <2>1 DEF HandOffIsAtomic
    <3>3. QED
      BY <3>1, <3>2, <1>0
  <2>2. \A v, w \in Workers : v # w => batch'[v] \cap batch'[w] = {}
    BY <1>1 DEF HandOffIsAtomic
  <2>3. \A w \in Workers : \A r \in batch'[w] : outbox'[r] = "pending"
    BY <1>1 DEF HandOffIsAtomic
  <2> QED
    BY <2>1, <2>2, <2>3 DEF HandOffIsAtomic
<1>2. ASSUME NEW w \in Workers, ClaimIntents(w) PROVE HandOffIsAtomic'
  <2> DEFINE pending == {r \in Rows : outbox[r] = "pending"} \ Locked
  <2>1. UNCHANGED outbox /\ \A v \in Workers : batch'[v] = IF v = w THEN pending ELSE batch[v]
    BY <1>2 DEF ClaimIntents, Shape
  <2>2. \A v \in Workers : pending \cap batch[v] = {}
    BY DEF Locked
  <2>3. \A r \in Rows : outbox'[r] = "dispatched" => job'[JobOf[r]] # "absent"
    BY <2>1, <1>0, JobOfAssumption DEF HandOffIsAtomic
  <2>4. \A u, v \in Workers : u # v => batch'[u] \cap batch'[v] = {}
    BY <2>1, <2>2 DEF HandOffIsAtomic
  <2>5. \A v \in Workers : \A r \in batch'[v] : outbox'[r] = "pending"
    BY <2>1 DEF HandOffIsAtomic, Shape
  <2> QED
    BY <2>3, <2>4, <2>5 DEF HandOffIsAtomic
<1>3. ASSUME NEW w \in Workers, HandOff(w) PROVE HandOffIsAtomic'
  <2>1. {JobOf[r] : r \in batch[w]} \in SUBSET Jobs
    BY JobOfAssumption DEF Shape
  <2>2. \A r \in batch[w] : job'[JobOf[r]] # "absent"
    BY <1>3, <2>1, SentIsAState DEF HandOff
  <2>3. \A v \in Workers : batch'[v] = IF v = w THEN {} ELSE batch[v]
    BY <1>3 DEF HandOff, FlushEnds, Shape
  <2>4. \A r \in Rows : outbox'[r] = IF r \in batch[w] THEN "dispatched" ELSE outbox[r]
    BY <1>3 DEF HandOff
  <2>5. \A r \in Rows : outbox'[r] = "dispatched" => job'[JobOf[r]] # "absent"
    BY <2>2, <2>4, <1>0, JobOfAssumption DEF HandOffIsAtomic
  <2>6. \A v \in Workers : \A r \in batch'[v] : outbox'[r] = "pending"
    BY <2>3, <2>4 DEF HandOffIsAtomic, Shape
  <2> QED
    BY <2>3, <2>5, <2>6 DEF HandOffIsAtomic
<1>4. ASSUME NEW r \in Rows, StageIntent(r) PROVE HandOffIsAtomic'
  <2>1. UNCHANGED batch /\ \A q \in Rows : outbox'[q] = IF q = r THEN "pending" ELSE outbox[q]
    BY <1>4 DEF StageIntent, fleetVars, Shape
  <2>2. UNCHANGED job
    BY <1>4 DEF StageIntent, jobVars
  <2> QED
    BY <2>1, <2>2 DEF HandOffIsAtomic, Shape
<1>5. ASSUME NEW w \in Workers, FlushFails(w) \/ Stop(w) \/ Crash(w) PROVE HandOffIsAtomic'
  <2>1. UNCHANGED outbox /\ \A v \in Workers : batch'[v] \subseteq batch[v]
    BY <1>5 DEF FlushFails, Stop, Crash, Gone, FlushEnds, Shape
  <2> QED
    BY <2>1, <1>1
<1>6. ASSUME NEW w \in Workers,
             \/ StartQueue(w) \/ BecomeReady(w) \/ DrainHook(w) \/ OffWork(w) \/ Drained(w)
             \/ Shutdown(w)
      PROVE HandOffIsAtomic'
  BY <1>6, <1>1 DEF StartQueue, BecomeReady, DrainHook, OffWork, Drained, Shutdown
<1>7. ASSUME NEW w \in Workers, NEW j \in Jobs,
             \/ Fetch(w, j) \/ Admit(w, j) \/ Refuse(w, j) \/ Throw(w, j) \/ Expire(w, j)
             \/ Acknowledge(w, j) \/ Commit(w, j)
      PROVE HandOffIsAtomic'
  BY <1>7, <1>1 DEF Fetch, Admit, Refuse, Throw, Expire, Acknowledge, Commit, fleetVars
<1>8. ASSUME NEW j \in Jobs,
             \/ Enqueue(j) \/ LateCommit(j) \/ RetryQueueJob(j) \/ CancelQueueJob(j)
             \/ Supervise(j)
      PROVE HandOffIsAtomic'
  BY <1>8, <1>1 DEF Enqueue, LateCommit, RetryQueueJob, CancelQueueJob, Supervise, fleetVars
<1>9. CASE UNCHANGED vars
  BY <1>9, <1>1 DEF vars, fleetVars
<1> QED
  BY <1>2, <1>3, <1>4, <1>5, <1>6, <1>7, <1>8, <1>9 DEF Next, ProcessStep

LEMMA QInvariant == Spec => []QInv
<1>1. QInv /\ [Next]_vars => QInv'
  BY ShapeStep, HandOffIsAtomicStep, OneLiveAttemptStep, CommitsCountStep, LateIsKnownStep
  DEF QInv
<1> QED
  BY InitQInv, <1>1, PTL DEF Spec

(* An intent is marked dispatched only with its job in the queue, for any  *)
(* number of processes that flush, fail and crash at once (#flushOutbox).  *)
THEOREM HandOffSafe == Spec => []HandOffIsAtomic
<1>1. QInv => HandOffIsAtomic
  BY DEF QInv
<1> QED
  BY QInvariant, <1>1, PTL

(* One job never has two live attempts (handleQueueDelivery, the queue's   *)
(* expiry and supervision).                                                *)
THEOREM AttemptsAreExclusive == Spec => []OneLiveAttempt
<1>1. QInv => OneLiveAttempt
  BY DEF QInv
<1> QED
  BY QInvariant, <1>1, PTL

-----------------------------------------------------------------------------
(* The refinement of DurableWork: a step moves no status, or one, or gives *)
(* up several jobs.                                                        *)

LEMMA StatusStays ==
    ASSUME UNCHANGED outbox, NEW j \in Jobs, job'[j] = job[j]
    PROVE  Status(j)' = Status(j)
  BY DEF Status

LEMMA StatusOfState ==
    ASSUME Shape, NEW j \in Jobs
    PROVE  /\ job[j] = "completed" => Status(j) = "done"
           /\ job[j] = "failed" => Status(j) = "given up"
           /\ job[j] = "cancelled" => Status(j) = "withdrawn"
           /\ job[j] \in {"created", "active", "retry"} => Status(j) = "owed"
           /\ job[j] = "absent" => Status(j) \in {"owed", "unknown"}
  BY DEF Status, Shape, JobState, Terminal

LEMMA Stutter ==
    ASSUME UNCHANGED effects, \A k \in Jobs : Status(k)' = Status(k)
    PROVE  UNCHANGED Promise!workVars
  BY DEF Promise!workVars

LEMMA StatusBecomes ==
    ASSUME UNCHANGED effects, NEW j \in Jobs, NEW from, NEW to,
           Status(j) = from, Status(j)' = to,
           \A k \in Jobs : k # j => Status(k)' = Status(k)
    PROVE  Promise!Becomes(j, from, to)
  BY DEF Promise!Becomes

(* Attempts that fail, of one job or of several, give jobs up or leave     *)
(* them owed.                                                              *)
LEMMA FailuresGiveUp ==
    ASSUME Shape, Shape', UNCHANGED <<outbox, effects>>,
           \A k \in Jobs : job'[k] = job[k] \/ job'[k] = Failed(k)
    PROVE  Promise!WorkNext
<1> DEFINE some == {k \in Jobs : Status(k) = "owed" /\ Status(k)' = "given up"}
<1>1. ASSUME NEW k \in Jobs
      PROVE Status(k)' = IF k \in some THEN "given up" ELSE Status(k)
  <2>1. CASE job'[k] = job[k]
    BY <2>1, StatusStays
  <2>2. CASE job'[k] = Failed(k) /\ job'[k] # job[k]
    <3>1. job[k] = "active" /\ job'[k] \in {"retry", "failed"}
      BY <2>2, FailedIsAState
    <3>2. Status(k) = "owed"
      BY <3>1, StatusOfState
    <3>3. Status(k)' \in {"owed", "given up"}
      BY <3>1 DEF Status
    <3> QED
      BY <3>2, <3>3
  <2> QED
    BY <2>1, <2>2
<1>2. Promise!GiveUp(some)
  BY <1>1 DEF Promise!GiveUp
<1> QED
  BY <1>2 DEF Promise!WorkNext

LEMMA RefinementStep ==
    ASSUME QInv, QInv', [Next]_vars
    PROVE  [Promise!WorkNext]_(Promise!workVars)
<1> USE DEF QInv
<1>1. ASSUME UNCHANGED <<outbox, job, effects>> PROVE UNCHANGED Promise!workVars
  BY <1>1, StatusStays, Stutter
<1>2. ASSUME NEW r \in Rows, StageIntent(r) PROVE [Promise!WorkNext]_(Promise!workVars)
  <2> DEFINE j == JobOf[r]
  <2>1. j \in Jobs
    BY JobOfAssumption
  <2>2. /\ UNCHANGED <<job, effects>>
        /\ outbox[r] = "none"
        /\ \A q \in Rows : outbox'[q] = IF q = r THEN "pending" ELSE outbox[q]
    BY <1>2 DEF StageIntent, jobVars, effectVars, Shape
  <2>3. \A k \in Jobs : k # j => Status(k)' = Status(k)
    BY <2>2 DEF Status
  <2>4. CASE Status(j)' = Status(j)
    BY <2>2, <2>3, <2>4, Stutter
  <2>5. CASE Status(j)' # Status(j)
    <3>1. Status(j) = "unknown" /\ Status(j)' = "owed"
      BY <2>1, <2>2, <2>5 DEF Status
    <3>2. Promise!Becomes(j, "unknown", "owed")
      BY <2>1, <2>2, <2>3, <3>1, StatusBecomes
    <3> QED
      BY <2>1, <3>2 DEF Promise!WorkNext, Promise!Accept
  <2> QED
    BY <2>4, <2>5
<1>3. ASSUME NEW j \in Jobs, Enqueue(j) PROVE [Promise!WorkNext]_(Promise!workVars)
  <2>1. /\ UNCHANGED <<outbox, effects>>
        /\ job[j] = "absent" /\ job'[j] = "created"
        /\ \A k \in Jobs : k # j => job'[k] = job[k]
    BY <1>3, SentIsAState DEF Enqueue, effectVars
  <2>2. \A k \in Jobs : k # j => Status(k)' = Status(k)
    BY <2>1, StatusStays
  <2>3. Status(j)' = "owed"
    BY <2>1 DEF Status
  <2>4. CASE Status(j) = "owed"
    BY <2>1, <2>2, <2>3, <2>4, Stutter
  <2>5. CASE Status(j) = "unknown"
    <3>1. Promise!Becomes(j, "unknown", "owed")
      BY <2>1, <2>2, <2>3, <2>5, StatusBecomes
    <3> QED
      BY <3>1 DEF Promise!WorkNext, Promise!Accept
  <2> QED
    BY <2>1, <2>4, <2>5, StatusOfState
<1>4. ASSUME NEW w \in Workers, HandOff(w) PROVE [Promise!WorkNext]_(Promise!workVars)
  <2> DEFINE ids == {JobOf[r] : r \in batch[w]}
  <2>1. ids \in SUBSET Jobs
    BY JobOfAssumption DEF Shape
  <2>2. /\ UNCHANGED effects
        /\ \A r \in Rows : outbox'[r] = IF r \in batch[w] THEN "dispatched" ELSE outbox[r]
    BY <1>4 DEF HandOff, effectVars
  <2>3. \A k \in Jobs :
           job'[k] = IF k \in ids /\ job[k] = "absent" THEN "created" ELSE job[k]
    BY <1>4, <2>1, SentIsAState DEF HandOff
  <2>4. ASSUME NEW k \in Jobs PROVE Status(k)' = Status(k)
    <3>1. CASE job[k] # "absent"
      BY <3>1, <2>3 DEF Status, Shape, JobState, Terminal
    <3>2. CASE job[k] = "absent" /\ k \in ids
      <4>1. PICK r \in batch[w] : JobOf[r] = k
        BY <3>2
      <4>2. r \in Rows /\ outbox[r] = "pending"
        BY <4>1 DEF HandOffIsAtomic, Shape
      <4>3. Status(k) = "owed"
        BY <3>2, <4>1, <4>2 DEF Status
      <4>4. Status(k)' = "owed"
        BY <3>2, <2>3 DEF Status
      <4> QED
        BY <4>3, <4>4
    <3>3. CASE job[k] = "absent" /\ k \notin ids
      <4>1. job'[k] = "absent"
        BY <3>3, <2>3
      <4>2. \A r \in Rows : JobOf[r] = k => outbox'[r] = outbox[r]
        BY <3>3, <2>2
      <4> QED
        BY <3>3, <4>1, <4>2 DEF Status
    <3> QED
      BY <3>1, <3>2, <3>3
  <2> QED
    BY <2>2, <2>4, Stutter
<1>5. ASSUME NEW w \in Workers, NEW j \in Jobs, Fetch(w, j)
      PROVE [Promise!WorkNext]_(Promise!workVars)
  <2>1. /\ UNCHANGED <<outbox, effects>>
        /\ job[j] \in {"created", "retry"} /\ job'[j] = "active"
        /\ \A k \in Jobs : k # j => job'[k] = job[k]
    BY <1>5 DEF Fetch, effectVars, Shape
  <2>2. \A k \in Jobs : Status(k)' = Status(k)
    BY <2>1, StatusStays DEF Status
  <2> QED
    BY <2>1, <2>2, Stutter
<1>6. ASSUME NEW w \in Workers, NEW j \in Jobs, Refuse(w, j) \/ Throw(w, j) \/ Expire(w, j)
      PROVE [Promise!WorkNext]_(Promise!workVars)
  <2>1. AttemptFails(w, j) /\ UNCHANGED <<outbox, effects>>
    BY <1>6 DEF Refuse, Throw, Expire, effectVars
  <2>2. \A k \in Jobs : job'[k] = job[k] \/ job'[k] = Failed(k)
    BY <2>1 DEF AttemptFails, Shape
  <2> QED
    BY <2>1, <2>2, FailuresGiveUp
<1>7. ASSUME NEW j \in Jobs, Supervise(j) PROVE [Promise!WorkNext]_(Promise!workVars)
  <2>1. UNCHANGED <<outbox, effects>>
    BY <1>7 DEF Supervise, effectVars
  <2>2. \A k \in Jobs : job'[k] = job[k] \/ job'[k] = Failed(k)
    BY <1>7 DEF Supervise, Shape
  <2> QED
    BY <2>1, <2>2, FailuresGiveUp
<1>8. ASSUME NEW w \in Workers, Stop(w) PROVE [Promise!WorkNext]_(Promise!workVars)
  <2>1. UNCHANGED <<outbox, effects>>
    BY <1>8 DEF Stop
  <2>2. \A k \in Jobs : job'[k] = job[k] \/ job'[k] = Failed(k)
    BY <1>8 DEF Stop
  <2> QED
    BY <2>1, <2>2, FailuresGiveUp
<1>9. ASSUME NEW w \in Workers, NEW j \in Jobs, Acknowledge(w, j)
      PROVE [Promise!WorkNext]_(Promise!workVars)
  <2>1. /\ UNCHANGED <<outbox, effects>>
        /\ attempt[w][j] = "committed"
        /\ job'[j] = IF job[j] = "active" THEN "completed" ELSE job[j]
        /\ \A k \in Jobs : k # j => job'[k] = job[k]
    BY <1>9 DEF Acknowledge, effectVars, Shape
  <2>2. \A k \in Jobs : k # j => Status(k)' = Status(k)
    BY <2>1, StatusStays
  <2>3. CASE job[j] = "active"
    <3>1. Status(j) = "owed" /\ Status(j)' = "done"
      BY <2>1, <2>3 DEF Status
    <3>2. Promise!Becomes(j, "owed", "done")
      BY <2>1, <2>2, <3>1, StatusBecomes
    <3>3. effects[j] > 0
      BY <2>1 DEF CommitsCount
    <3> QED
      BY <3>2, <3>3 DEF Promise!WorkNext, Promise!Finish
  <2>4. CASE job[j] # "active"
    BY <2>1, <2>2, <2>4, StatusStays, Stutter
  <2> QED
    BY <2>3, <2>4
<1>10. ASSUME NEW j \in Jobs, UNCHANGED <<outbox, job>>, job[j] # "absent",
              effects' = [effects EXCEPT ![j] = @ + 1]
       PROVE [Promise!WorkNext]_(Promise!workVars)
  <2>1. Status(j) # "unknown"
    BY <1>10 DEF Status, Shape, JobState, Terminal
  <2>2. \A k \in Jobs : Status(k)' = Status(k)
    BY <1>10, StatusStays
  <2>3. Promise!TakeEffect(j)
    BY <1>10, <2>1, <2>2 DEF Promise!TakeEffect
  <2> QED
    BY <2>3 DEF Promise!WorkNext
<1>11. ASSUME NEW w \in Workers, NEW j \in Jobs, Commit(w, j)
       PROVE [Promise!WorkNext]_(Promise!workVars)
  <2>1. job[j] # "absent"
    BY <1>11 DEF Commit, OneLiveAttempt, Live
  <2> QED
    BY <1>11, <2>1, <1>10 DEF Commit, jobVars
<1>12. ASSUME NEW j \in Jobs, LateCommit(j) PROVE [Promise!WorkNext]_(Promise!workVars)
  BY <1>12, <1>10 DEF LateCommit, LateIsKnown, jobVars
<1>13. ASSUME NEW j \in Jobs, RetryQueueJob(j) PROVE [Promise!WorkNext]_(Promise!workVars)
  <2>1. /\ UNCHANGED <<outbox, effects>>
        /\ job[j] = "failed" /\ job'[j] = "retry"
        /\ \A k \in Jobs : k # j => job'[k] = job[k]
    BY <1>13 DEF RetryQueueJob, effectVars, Shape
  <2>2. Promise!Becomes(j, "given up", "owed")
    BY <2>1, StatusStays, StatusBecomes DEF Status
  <2> QED
    BY <2>2 DEF Promise!WorkNext, Promise!Redrive
<1>14. ASSUME NEW j \in Jobs, CancelQueueJob(j) PROVE [Promise!WorkNext]_(Promise!workVars)
  <2>1. /\ UNCHANGED <<outbox, effects>>
        /\ job[j] \in {"created", "retry", "active"} /\ job'[j] = "cancelled"
        /\ \A k \in Jobs : k # j => job'[k] = job[k]
    BY <1>14 DEF CancelQueueJob, effectVars, Shape
  <2>2. Promise!Becomes(j, "owed", "withdrawn")
    BY <2>1, StatusStays, StatusBecomes DEF Status
  <2> QED
    BY <2>2 DEF Promise!WorkNext, Promise!Withdraw
<1>15. ASSUME NEW w \in Workers,
              \/ ClaimIntents(w) \/ FlushFails(w) \/ StartQueue(w) \/ BecomeReady(w)
              \/ DrainHook(w) \/ OffWork(w) \/ Drained(w) \/ Shutdown(w) \/ Crash(w)
       PROVE [Promise!WorkNext]_(Promise!workVars)
  BY <1>15, <1>1 DEF ClaimIntents, FlushFails, StartQueue, BecomeReady, DrainHook, OffWork,
                     Drained, Shutdown, Crash, jobVars, effectVars
<1>16. ASSUME NEW w \in Workers, NEW j \in Jobs, Admit(w, j)
       PROVE [Promise!WorkNext]_(Promise!workVars)
  BY <1>16, <1>1 DEF Admit, jobVars
<1>17. CASE UNCHANGED vars
  BY <1>17, <1>1 DEF vars, jobVars, effectVars
<1> QED
  BY <1>2, <1>3, <1>4, <1>5, <1>6, <1>7, <1>8, <1>9, <1>11, <1>12, <1>13, <1>14, <1>15, <1>16,
     <1>17 DEF Next, ProcessStep

(* The outbox and pg-boss implement DurableWork: accepted work is owed     *)
(* until it is done, given up or withdrawn, and never revived by a second  *)
(* use of its idempotency key (flushOutbox, handleQueueDelivery).          *)
THEOREM PromiseIsKept == Spec => KeepsItsPromise
<1>1. Init => Promise!WorkInit
  <2> SUFFICES ASSUME Init PROVE Promise!WorkInit
    OBVIOUS
  <2>1. \A j \in Jobs : Status(j) = "unknown"
    BY DEF Init, Status
  <2> QED
    BY <2>1 DEF Init, Promise!WorkInit
<1>2. QInv /\ QInv' /\ [Next]_vars => [Promise!WorkNext]_(Promise!workVars)
  BY RefinementStep
<1> QED
  BY <1>1, <1>2, QInvariant, PTL DEF Spec, KeepsItsPromise, Promise!WorkSpec

-----------------------------------------------------------------------------
(* SCHEDULES                                                               *)

(* The control row of a schedule: it was last reconciled, taken up or       *)
(* commanded no later than now, and whatever worker or command came last    *)
(* has moved it.                                                            *)
Reconciled ==
    /\ now \in Nat /\ watermark \in Int /\ settled \in Int
    /\ settled <= watermark /\ watermark <= now
    /\ jobs \in [JobIds -> {"none", "queued", "active", "ended"}]

Stages == {"down", "loaded", "caught-up", "arming", "running", "sending"}

(* The processes that loaded the controls after the last command: they      *)
(* agree with the row, nobody who read it before is about to reconcile the  *)
(* cron record, and one that has started left the record as the row says.   *)
UpToDate ==
    /\ enabled \in BOOLEAN /\ registered \in BOOLEAN
    /\ seen \in [Schedulers -> BOOLEAN] /\ stage \in [Schedulers -> Stages]
    /\ current \subseteq Schedulers
    /\ \A s \in current : stage[s] # "down" => seen[s] = enabled
    /\ \A s \in current, p \in Schedulers \ current : stage[p] \notin {"loaded", "caught-up"}
    /\ \A s \in current :
         schedule.cadence = "cron" /\ stage[s] \in {"arming", "running", "sending"} =>
           registered = enabled

SchedulesInv == Reconciled /\ UpToDate

LEMMA SchedulesInvInit == SchedulesInit => SchedulesInv
<1> SUFFICES ASSUME SchedulesInit PROVE SchedulesInv
  OBVIOUS
<1>1. Reconciled
  BY DEF SchedulesInit, Reconciled, Never
<1>2. UpToDate
  BY DEF SchedulesInit, UpToDate, Stages
<1>3. QED
  BY <1>1, <1>2 DEF SchedulesInv

(* Sending a job starts no other one.                                      *)
LEMMA SendStartsOne ==
    ASSUME Reconciled, NEW i \in {"slot", "catch-up"}, NEW t, Send(<<i, t>>)
    PROVE  /\ jobs' \in [JobIds -> {"none", "queued", "active", "ended"}]
           /\ \A j \in JobIds : j # <<i, t>> => jobs'[j] = jobs[j]
BY DEF Reconciled, Send

LEMMA ReconciledStep ==
    ASSUME Reconciled, [SchedulesNext]_schedulesVars
    PROVE  Reconciled'
<1> DEFINE JobTable == [JobIds -> {"none", "queued", "active", "ended"}]
<1>1. ASSUME NEW s \in Schedulers, ReconcileMisfires(s) PROVE Reconciled'
  <2>1. jobs' \in JobTable
    BY <1>1, SendStartsOne DEF ReconcileMisfires, Reconciled
  <2>2. UNCHANGED <<now, settled>> /\ watermark' \in {watermark, now}
    BY <1>1 DEF ReconcileMisfires, ghost
  <2>3. QED
    BY <2>1, <2>2 DEF Reconciled
<1>2. ASSUME NEW s \in Schedulers,
             LoadControls(s) \/ ReconcileSchedules(s) \/ SendFails(s) \/ TimerFires(s)
      PROVE  Reconciled'
  BY <1>2 DEF LoadControls, ReconcileSchedules, SendFails, TimerFires, ghost, control, Reconciled
<1>3. ASSUME NEW s \in Schedulers, SendInterval(s) \/ Down(s) PROVE Reconciled'
  <2>1. jobs' \in JobTable
    BY <1>3, SendStartsOne DEF SendInterval, Down, Reconciled
  <2>2. UNCHANGED <<now, watermark, settled>>
    BY <1>3 DEF SendInterval, Down, ghost, control
  <2>3. QED
    BY <2>1, <2>2 DEF Reconciled
<1>4. CASE CronFires
  <2>1. jobs' \in JobTable
    BY <1>4, SendStartsOne DEF CronFires
  <2>2. UNCHANGED <<now, watermark, settled>>
    BY <1>4 DEF CronFires, ghost, control
  <2>3. QED
    BY <2>1, <2>2 DEF Reconciled
<1>5. ASSUME NEW j \in JobIds, AdmitDue(j) PROVE Reconciled'
  <2>1. /\ jobs' \in JobTable
        /\ now' = now /\ settled' = now /\ watermark' = Later(watermark, now)
    BY <1>5 DEF AdmitDue, Reconciled
  <2>2. QED
    BY <2>1 DEF Reconciled, Later
<1>6. ASSUME NEW j \in JobIds, AttemptEnds(j) PROVE Reconciled'
  BY <1>6 DEF AttemptEnds, Reconciled, ghost, control
<1>7. CASE Command
  BY <1>7 DEF Command, Set, Reconciled
<1>8. CASE Tick
  BY <1>8 DEF Tick, Reconciled, ghost, control
<1>9. CASE UNCHANGED schedulesVars
  BY <1>9 DEF schedulesVars, Reconciled, ghost, control
<1>10. QED
  BY <1>1, <1>2, <1>3, <1>4, <1>5, <1>6, <1>7, <1>8, <1>9 DEF SchedulesNext

(* A step that reads no control row, changes none and ends a phase of one   *)
(* process behind the reconciliation, or the process.                       *)
LEMMA StillUpToDate ==
    ASSUME UpToDate, NEW s \in Schedulers, NEW to \in Stages \ {"loaded", "caught-up"},
           UNCHANGED <<schedule, enabled, registered, current>>,
           stage' = [stage EXCEPT ![s] = to],
           seen' = seen \/ (to = "down" /\ seen' = [seen EXCEPT ![s] = FALSE]),
           to # "down" => stage[s] \in {"arming", "running", "sending"}
    PROVE  UpToDate'
<1>1. /\ seen' \in [Schedulers -> BOOLEAN] /\ stage' \in [Schedulers -> Stages]
      /\ \A p \in Schedulers : /\ stage'[p] = IF p = s THEN to ELSE stage[p]
                               /\ p # s \/ to # "down" => seen'[p] = seen[p]
  BY DEF UpToDate
<1>2. \A p \in current' : stage'[p] # "down" => seen'[p] = enabled'
  BY <1>1 DEF UpToDate
<1>3. \A q \in current', p \in Schedulers \ current' : stage'[p] \notin {"loaded", "caught-up"}
  BY <1>1 DEF UpToDate
<1>4. \A p \in current' :
        schedule'.cadence = "cron" /\ stage'[p] \in {"arming", "running", "sending"} =>
          registered' = enabled'
  BY <1>1 DEF UpToDate
<1>5. QED
  BY <1>1, <1>2, <1>3, <1>4 DEF UpToDate

LEMMA UpToDateStep ==
    ASSUME UpToDate, [SchedulesNext]_schedulesVars
    PROVE  UpToDate'
<1>1. ASSUME NEW s \in Schedulers, LoadControls(s) PROVE UpToDate'
  <2>1. /\ UNCHANGED <<schedule, enabled, registered>> /\ stage[s] = "down"
        /\ seen' = [seen EXCEPT ![s] = enabled]
        /\ stage' = [stage EXCEPT ![s] = "loaded"]
        /\ current' = IF \E p \in Schedulers \ current : stage[p] \in {"loaded", "caught-up"}
                      THEN current \ {s} ELSE current \cup {s}
    BY <1>1 DEF LoadControls, control
  <2>2. /\ seen' \in [Schedulers -> BOOLEAN] /\ stage' \in [Schedulers -> Stages]
        /\ current' \subseteq Schedulers
        /\ \A p \in Schedulers : /\ stage'[p] = IF p = s THEN "loaded" ELSE stage[p]
                                 /\ seen'[p] = IF p = s THEN enabled ELSE seen[p]
    BY <2>1 DEF UpToDate, Stages
  <2>3. CASE \E p \in Schedulers \ current : stage[p] \in {"loaded", "caught-up"}
    <3>1. current' = {}
      BY <2>1, <2>3 DEF UpToDate
    <3>2. QED
      BY <2>1, <2>2, <3>1 DEF UpToDate
  <2>4. CASE ~\E p \in Schedulers \ current : stage[p] \in {"loaded", "caught-up"}
    <3>1. current' = current \cup {s}
      BY <2>1, <2>4
    <3>2. \A p \in current' : stage'[p] # "down" => seen'[p] = enabled'
      BY <2>1, <2>2, <3>1 DEF UpToDate
    <3>3. \A q \in current', p \in Schedulers \ current' :
            stage'[p] \notin {"loaded", "caught-up"}
      BY <2>2, <2>4, <3>1
    <3>4. \A p \in current' :
            schedule'.cadence = "cron" /\ stage'[p] \in {"arming", "running", "sending"} =>
              registered' = enabled'
      BY <2>1, <2>2, <3>1 DEF UpToDate
    <3>5. QED
      BY <2>1, <2>2, <3>2, <3>3, <3>4 DEF UpToDate
  <2>5. QED
    BY <2>3, <2>4
<1>2. ASSUME NEW s \in Schedulers, ReconcileMisfires(s) PROVE UpToDate'
  <2>1. /\ UNCHANGED <<schedule, enabled, registered, seen, current>> /\ stage[s] = "loaded"
        /\ stage' = [stage EXCEPT ![s] = "caught-up"]
    BY <1>2 DEF ReconcileMisfires, ghost
  <2>2. /\ stage' \in [Schedulers -> Stages]
        /\ \A p \in Schedulers : stage'[p] = IF p = s THEN "caught-up" ELSE stage[p]
    BY <2>1 DEF UpToDate, Stages
  <2>3. current # {} => s \in current
    BY <2>1 DEF UpToDate
  <2>4. QED
    BY <2>1, <2>2, <2>3 DEF UpToDate
<1>3. ASSUME NEW s \in Schedulers, ReconcileSchedules(s) PROVE UpToDate'
  <2>1. /\ UNCHANGED <<schedule, enabled, seen, current>> /\ stage[s] = "caught-up"
        /\ registered' = (seen[s] /\ schedule.cadence = "cron")
    BY <1>3 DEF ReconcileSchedules, Register, control, ghost
  <2>2. PICK to \in {"arming", "running"} : stage' = [stage EXCEPT ![s] = to]
    BY <1>3 DEF ReconcileSchedules, Arm
  <2>3. /\ stage' \in [Schedulers -> Stages]
        /\ \A p \in Schedulers : stage'[p] = IF p = s THEN to ELSE stage[p]
    BY <2>2 DEF UpToDate, Stages
  <2>4. current # {} => s \in current /\ seen[s] = enabled
    BY <2>1 DEF UpToDate
  <2>5. registered' \in BOOLEAN
    BY <2>1
  <2>6. current # {} /\ schedule.cadence = "cron" => registered' = enabled
    <3>1. seen[s] \in BOOLEAN /\ enabled \in BOOLEAN
      BY DEF UpToDate
    <3>2. QED
      BY <2>1, <2>4, <3>1
  <2>7. QED
    BY <2>1, <2>3, <2>4, <2>5, <2>6 DEF UpToDate
<1>4. ASSUME NEW s \in Schedulers, SendInterval(s) \/ SendFails(s) \/ TimerFires(s) PROVE UpToDate'
  <2>1. /\ UNCHANGED <<schedule, enabled, registered, seen, current>>
        /\ stage[s] \in {"arming", "running", "sending"}
        /\ \E to \in {"running", "sending"} : stage' = [stage EXCEPT ![s] = to]
    BY <1>4 DEF SendInterval, SendFails, TimerFires, Arm, control, ghost
  <2>2. QED
    BY <2>1, StillUpToDate DEF Stages
<1>5. ASSUME NEW s \in Schedulers, Down(s) PROVE UpToDate'
  <2>1. /\ UNCHANGED <<schedule, enabled, registered, current>>
        /\ stage' = [stage EXCEPT ![s] = "down"] /\ seen' = [seen EXCEPT ![s] = FALSE]
    BY <1>5 DEF Down, control, ghost
  <2>2. QED
    BY <2>1, StillUpToDate DEF Stages
<1>6. CASE Command
  BY <1>6 DEF Command, Set, UpToDate, process
<1>7. CASE UNCHANGED <<schedule, enabled, registered, seen, stage, current>>
  BY <1>7 DEF UpToDate
<1>8. QED
  BY <1>1, <1>2, <1>3, <1>4, <1>5, <1>6, <1>7
     DEF SchedulesNext, CronFires, AdmitDue, AttemptEnds, Tick, schedulesVars, control, process,
         ghost

LEMMA SchedulesInvHolds == SchedulesSpec => []SchedulesInv
<1>1. SchedulesInv /\ [SchedulesNext]_schedulesVars => SchedulesInv'
  BY ReconciledStep, UpToDateStep DEF SchedulesInv
<1>2. QED
  BY <1>1, SchedulesInvInit, PTL DEF SchedulesSpec

(* reconcileMisfires: however processes start, crash and race the workers   *)
(* and the operator, a recovery firing is for an occurrence after whatever  *)
(* was last admitted or commanded.                                          *)
THEOREM RecoveryFiresLater == SchedulesSpec => CatchUpsAreLater
<1> DEFINE FiresLater == \A t \in Time :
             jobs[<<"catch-up", t>>] = "none" /\ jobs'[<<"catch-up", t>>] # "none" => t > settled
<1>1. ASSUME SchedulesInv, [SchedulesNext]_schedulesVars PROVE [FiresLater]_schedulesVars
  <2> SUFFICES ASSUME NEW t \in Time, jobs[<<"catch-up", t>>] = "none",
                      jobs'[<<"catch-up", t>>] # "none"
               PROVE  t > settled
    OBVIOUS
  <2>1. <<"catch-up", t>> \in JobIds /\ t \in Int
    BY TimeAssumption DEF Time, JobIds
  <2>2. ASSUME NEW u, Send(<<"slot", u>>) PROVE FALSE
    BY <2>1, <2>2, <1>1, SendStartsOne DEF SchedulesInv
  <2>3. ASSUME NEW s \in Schedulers, ReconcileMisfires(s) PROVE t > settled
    <3>1. IsMissed /\ Send(<<"catch-up", now>>)
      BY <2>3 DEF ReconcileMisfires
    <3>2. t = now
      BY <2>1, <3>1, <1>1, SendStartsOne DEF SchedulesInv
    <3>3. QED
      BY <3>1, <3>2, <1>1 DEF IsMissed, SchedulesInv, Reconciled
  <2>4. ASSUME NEW j \in JobIds, AdmitDue(j) \/ AttemptEnds(j) PROVE FALSE
    BY <2>1, <2>4, <1>1 DEF AdmitDue, AttemptEnds, SchedulesInv, Reconciled
  <2>5. jobs' # jobs
    OBVIOUS
  <2>6. QED
    BY <1>1, <2>2, <2>3, <2>4, <2>5
       DEF SchedulesNext, LoadControls, ReconcileSchedules, SendInterval, SendFails, TimerFires,
           Down, CronFires, Command, Tick, schedulesVars
<1>2. QED
  BY <1>1, SchedulesInvHolds, PTL DEF SchedulesSpec, CatchUpsAreLater

(* reconcileCronSchedules: once a process that loaded the controls after    *)
(* the last command has started, the cron record is there if and only if    *)
(* the schedule is enabled, whatever other processes start and end.         *)
THEOREM RestartsReconcile == SchedulesSpec => []RestartAppliesCommand
<1>1. SchedulesInv => RestartAppliesCommand
  BY DEF SchedulesInv, UpToDate, RestartAppliesCommand
<1>2. QED
  BY <1>1, SchedulesInvHolds, PTL

=============================================================================
