---------------------------- MODULE DeliveryProofs ----------------------------
(***************************************************************************)
(* Proofs about Delivery, for any number of jobs and retries and whatever  *)
(* statuses the provider posts.                                            *)
(***************************************************************************)
EXTENDS Delivery, FiniteSetTheorems, TLAPS

(* The kind of failure a ledger row may have in each state.                *)
Fits(r) ==
    /\ r.kind = "transient" => r.state = "undelivered"
    /\ r.kind = "permanent" => r.state \in {"undelivered", "failed"}
    /\ r.kind = "opt-out" => r.state = "failed"
    /\ r.kind = "suppressed" => r.state = "suppressed"

DInv ==
    /\ Fits(row)
    /\ \A e \in posted : e[2] \in Statuses
    /\ DOMAIN job = Jobs

(* Whatever the provider tells becomes a transition whose failure fits.    *)
LEMMA TransitionFits ==
    ASSUME NEW what \in Outcomes \cup Statuses
    PROVE  Fits(Transition(what))
<1>1. CASE what \in Acceptances
  BY <1>1 DEF Acceptances, Accepted, Transition, Row, Fits
<1>2. CASE what \notin Acceptances
  BY <1>2, RepliesAssumption, StatusesAssumption
     DEF Outcomes, Acceptances, Accepted, Refusals, Transition, Row, Fits
<1>3. QED
  BY <1>1, <1>2

(* The rule lets a terminal state go nowhere but to suppression.           *)
LEMMA TerminalStays ==
    ASSUME NEW o, Apply(o), row.state \in Terminal, row'.state # row.state
    PROVE  row'.state = "suppressed"
BY DEF Apply, MayFollow, Terminal

LEMMA ApplyFits ==
    ASSUME Fits(row), NEW what \in Outcomes \cup Statuses, Apply(Transition(what))
    PROVE  Fits(row')
BY TransitionFits DEF Apply

(* Every step applies a transition, leaves the row, stages or redrives.    *)
LEMMA RowSteps ==
    ASSUME DInv, [Next]_vars
    PROVE  \/ UNCHANGED row
           \/ \E what \in Outcomes \cup Statuses : Apply(Transition(what))
           \/ Stage
           \/ Redrive
<1>1. CASE Stage
  BY <1>1
<1>2. CASE Redrive
  BY <1>2
<1>3. ASSUME NEW j \in Jobs, BeginAttempt(j) PROVE UNCHANGED row
  BY <1>3 DEF BeginAttempt
<1>4. ASSUME NEW j \in Jobs, NEW n \in Attempts,
             Sent(j, n) \/ RecordFails(j, n) \/ AttemptLost(j, n)
      PROVE  UNCHANGED row
  BY <1>4 DEF Sent, RecordFails, AttemptLost
<1>5. ASSUME NEW j \in Jobs, NEW n \in Attempts, Record(j, n)
      PROVE  \E what \in Outcomes \cup Statuses : Apply(Transition(what))
  BY <1>5 DEF Record, Learnt
<1>6. CASE CopyProceeds
  BY <1>6 DEF CopyProceeds
<1>7. CASE Webhook
  <2>1. PICK e \in posted : IF IsNew(e) THEN Apply(Transition(e[2])) ELSE UNCHANGED row
    BY <1>7 DEF Webhook
  <2>2. e[2] \in Outcomes \cup Statuses
    BY DEF DInv
  <2>3. QED
    BY <2>1, <2>2
<1>8. CASE UNCHANGED vars
  BY <1>8 DEF vars
<1>9. QED
  BY <1>1, <1>2, <1>3, <1>4, <1>5, <1>6, <1>7, <1>8 DEF Next

LEMMA DInvInit == Init => DInv
BY DEF Init, DInv, Fits, Row

LEMMA DInvStep == DInv /\ [Next]_vars => DInv'
<1> SUFFICES ASSUME DInv, [Next]_vars PROVE DInv'
  OBVIOUS
<1>1. Fits(row')
  <2>1. CASE UNCHANGED row
    BY <2>1 DEF DInv
  <2>2. CASE \E what \in Outcomes \cup Statuses : Apply(Transition(what))
    BY <2>2, ApplyFits DEF DInv
  <2>3. CASE Stage
    BY <2>3 DEF Stage, Row, Fits
  <2>4. CASE Redrive
    BY <2>4 DEF Redrive, Row, Fits
  <2>5. QED
    BY <2>1, <2>2, <2>3, <2>4, RowSteps
<1>2. \A e \in posted' : e[2] \in Statuses
  <2>1. CASE CopyProceeds
    <3>1. PICK c \in 1..Len(copies) : \E status \in After(copies[c]) :
            posted' = posted \cup {<<c, status>>}
      BY <2>1 DEF CopyProceeds
    <3>2. PICK status \in After(copies[c]) : posted' = posted \cup {<<c, status>>}
      BY <3>1
    <3>3. status \in Statuses
      BY <3>2 DEF After
    <3>4. QED
      BY <3>2, <3>3 DEF DInv
  <2>2. CASE ~CopyProceeds
    <3>1. UNCHANGED posted
      BY <2>2 DEF Next, Stage, Redrive, BeginAttempt, Sent, Record, RecordFails, AttemptLost,
                  Webhook, vars
    <3>2. QED
      BY <3>1 DEF DInv
  <2>3. QED
    BY <2>1, <2>2
<1>3. DOMAIN job' = Jobs
  BY DEF DInv, Next, Stage, Redrive, BeginAttempt, Sent, Record, RecordFails, AttemptLost,
         Settled, CopyProceeds, Webhook, vars
<1>4. QED
  BY <1>1, <1>2, <1>3 DEF DInv

LEMMA DInvHolds == Spec => []DInv
BY DInvInit, DInvStep, PTL DEF Spec

-----------------------------------------------------------------------------
(* The failure recorded on a ledger row is always one of its state         *)
(* (transitionDeliveryNow clears or replaces it), for any provider.        *)
THEOREM FailuresFit == Spec => []FailureFitsState
<1>1. DInv => FailureFitsState
  BY DEF DInv, Fits, FailureFitsState
<1>2. QED
  BY <1>1, DInvHolds, PTL

(* canApplyDeliveryTransition: a terminal delivery changes by suppression  *)
(* or by the operator's redrive only, however many copies and callbacks    *)
(* there are.                                                              *)
THEOREM TerminalIsKept == Spec => TerminalIsFinal
<1> DEFINE Redriven == \E j \in Jobs : job[j] = "none" /\ job'[j] = "ready"
           Step == row.state \in Terminal /\ row'.state # row.state =>
                     \/ row'.state = "suppressed"
                     \/ row.state = "failed" /\ row'.state = "pending" /\ Redriven
<1>1. ASSUME DInv, [Next]_vars PROVE [Step]_vars
  <2> SUFFICES ASSUME row.state \in Terminal, row'.state # row.state
               PROVE  \/ row'.state = "suppressed"
                      \/ row.state = "failed" /\ row'.state = "pending" /\ Redriven
    OBVIOUS
  <2>1. CASE \E what \in Outcomes \cup Statuses : Apply(Transition(what))
    BY <2>1, TerminalStays
  <2>2. CASE Redrive
    <3>1. PICK j \in Jobs : /\ row.state \in {"failed", "undelivered"}
                            /\ job[j] = "none"
                            /\ row' = Row("pending", "none")
                            /\ job' = [job EXCEPT ![j] = "ready"]
      BY <2>2 DEF Redrive
    <3>2. job'[j] = "ready"
      BY <3>1, <1>1 DEF DInv
    <3>3. row.state = "failed" /\ row'.state = "pending"
      BY <3>1 DEF Terminal, Row
    <3>4. QED
      BY <3>1, <3>2, <3>3
  <2>3. ~Stage
    BY DEF Stage, Terminal
  <2>4. QED
    BY <1>1, <2>1, <2>2, <2>3, RowSteps
<1>2. QED
  BY <1>1, DInvHolds, PTL DEF Spec, TerminalIsFinal

-----------------------------------------------------------------------------
(* How redrives and failures are counted.                                  *)

Failing(r) == r.state \in {"failed", "undelivered"}
Redriven == {j \in Jobs \ {1} : job[j] # "none"}
FailedAttempts == {a \in Jobs \X Attempts : pc[a] = "failed"}
FailureEvents == {e \in recorded : e[2] \in {"deferred", "undelivered", "failed", "opt-out"}}

(* The attempts of a job: the next one has not begun, a job that is ready   *)
(* has one left, and the current attempt of an active job has not learnt    *)
(* and recorded its outcome yet.                                            *)
AttemptInv ==
    /\ job \in [Jobs -> {"none", "ready", "active", "completed", "dead"}]
    /\ used \in [Jobs -> 0..(Retries + 1)]
    /\ pc \in [Jobs \X Attempts -> Doing \cup Outcomes]
    /\ \A j \in Jobs, n \in Attempts : pc[<<j, n>>] = "none" <=> n > used[j]
    /\ \A j \in Jobs : job[j] = "none" => used[j] = 0
    /\ \A j \in Jobs : job[j] = "ready" => used[j] <= Retries
    /\ \A j \in Jobs, n \in Attempts :
         job[j] = "active" /\ n = used[j] => pc[<<j, n>>] \notin {"failed", "ended", "untold"}
    /\ \A j \in Jobs : job[j] = "active" => used[j] > 0

(* A message that can be redriven has failed once more than it has been     *)
(* redriven.                                                                *)
CountInv ==
    /\ IsFiniteSet(recorded)
    /\ Cardinality(Redriven) <= Cardinality(FailedAttempts) + Cardinality(FailureEvents)
    /\ Failing(row) =>
         Cardinality(Redriven) < Cardinality(FailedAttempts) + Cardinality(FailureEvents)

StagedInv == row.state = "absent" => \A j \in Jobs : job[j] = "none"

LEMMA JobsFinite == IsFiniteSet(Jobs) /\ IsFiniteSet(Jobs \X Attempts)
<1>1. IsFiniteSet(Jobs)
  BY JobsAssumption
<1>2. IsFiniteSet(Attempts)
  BY BoundsAssumption, FS_Interval DEF Attempts
<1>3. QED
  BY <1>1, <1>2, FS_Product

LEMMA CountsFinite ==
    ASSUME IsFiniteSet(recorded)
    PROVE  /\ IsFiniteSet(Redriven) /\ Cardinality(Redriven) \in Nat
           /\ IsFiniteSet(FailedAttempts) /\ Cardinality(FailedAttempts) \in Nat
           /\ IsFiniteSet(FailureEvents) /\ Cardinality(FailureEvents) \in Nat
<1>1. /\ Redriven \in SUBSET Jobs
      /\ FailedAttempts \in SUBSET (Jobs \X Attempts)
      /\ FailureEvents \in SUBSET recorded
  BY DEF Redriven, FailedAttempts, FailureEvents
<1>2. IsFiniteSet(Redriven) /\ IsFiniteSet(FailedAttempts) /\ IsFiniteSet(FailureEvents)
  BY <1>1, JobsFinite, FS_Subset
<1>3. QED
  BY <1>2, FS_CardinalityType

(* More failures are a larger number of them.                              *)
LEMMA LargerCount ==
    ASSUME NEW T, IsFiniteSet(T), NEW S \in SUBSET T
    PROVE  /\ Cardinality(S) \in Nat /\ Cardinality(T) \in Nat
           /\ Cardinality(S) <= Cardinality(T)
           /\ S # T => Cardinality(S) < Cardinality(T)
<1>1. /\ IsFiniteSet(S) /\ Cardinality(S) <= Cardinality(T)
      /\ Cardinality(T) = Cardinality(S) => S = T
  BY FS_Subset
<1>2. Cardinality(S) \in Nat /\ Cardinality(T) \in Nat
  BY <1>1, FS_CardinalityType
<1>3. QED
  BY <1>1, <1>2

(* A step that redrives nothing keeps the count if a message that fails in  *)
(* it leaves a failure behind that was not there.                           *)
LEMMA FailureIsCounted ==
    ASSUME CountInv, IsFiniteSet(recorded'),
           Redriven' = Redriven,
           FailedAttempts \subseteq FailedAttempts', FailureEvents \subseteq FailureEvents',
           Failing(row') => \/ Failing(row)
                            \/ FailedAttempts # FailedAttempts'
                            \/ FailureEvents # FailureEvents'
    PROVE  CountInv'
<1>1. /\ Cardinality(Redriven) \in Nat
      /\ IsFiniteSet(FailedAttempts') /\ IsFiniteSet(FailureEvents')
  <2>1. Cardinality(Redriven) \in Nat
    BY CountsFinite DEF CountInv
  <2>2. FailedAttempts' \in SUBSET (Jobs \X Attempts) /\ FailureEvents' \in SUBSET recorded'
    BY DEF FailedAttempts, FailureEvents
  <2>3. QED
    BY <2>1, <2>2, JobsFinite, FS_Subset
<1>2. /\ Cardinality(FailedAttempts) \in Nat /\ Cardinality(FailedAttempts') \in Nat
      /\ Cardinality(FailedAttempts) <= Cardinality(FailedAttempts')
      /\ FailedAttempts # FailedAttempts' =>
           Cardinality(FailedAttempts) < Cardinality(FailedAttempts')
  BY <1>1, LargerCount
<1>3. /\ Cardinality(FailureEvents) \in Nat /\ Cardinality(FailureEvents') \in Nat
      /\ Cardinality(FailureEvents) <= Cardinality(FailureEvents')
      /\ FailureEvents # FailureEvents' =>
           Cardinality(FailureEvents) < Cardinality(FailureEvents')
  BY <1>1, LargerCount
<1>4. Cardinality(Redriven') = Cardinality(Redriven)
  OBVIOUS
<1>5. Cardinality(Redriven') <= Cardinality(FailedAttempts') + Cardinality(FailureEvents')
  BY <1>1, <1>2, <1>3, <1>4 DEF CountInv
<1>6. ASSUME Failing(row')
      PROVE  Cardinality(Redriven') < Cardinality(FailedAttempts') + Cardinality(FailureEvents')
  BY <1>1, <1>2, <1>3, <1>4, <1>6 DEF CountInv
<1>7. QED
  BY <1>5, <1>6 DEF CountInv

-----------------------------------------------------------------------------
(* The attempts of the jobs.                                               *)

LEMMA AttemptInit == Init => AttemptInv
<1> SUFFICES ASSUME Init PROVE AttemptInv
  OBVIOUS
<1>1. /\ job \in [Jobs -> {"none", "ready", "active", "completed", "dead"}]
      /\ used \in [Jobs -> 0..(Retries + 1)]
      /\ pc \in [Jobs \X Attempts -> Doing \cup Outcomes]
  BY BoundsAssumption DEF Init, Doing
<1>2. \A j \in Jobs, n \in Attempts :
        pc[<<j, n>>] = "none" /\ n > used[j] /\ job[j] = "none" /\ used[j] = 0
  BY BoundsAssumption DEF Init, Attempts
<1>3. \A j \in Jobs : job[j] = "none" /\ used[j] = 0
  BY DEF Init
<1>4. QED
  BY <1>1, <1>2, <1>3 DEF AttemptInv

(* What the end of an attempt makes of its job.                            *)
LEMMA AttemptSettles ==
    ASSUME AttemptInv, NEW j \in Jobs, NEW n \in Attempts, NEW outcome, Settled(j, n, outcome),
           UNCHANGED used, NEW to \in (Doing \cup Outcomes) \ {"none"},
           pc' = [pc EXCEPT ![<<j, n>>] = to],
           pc[<<j, n>>] # "none"
    PROVE  AttemptInv'
<1>1. /\ job' \in [Jobs -> {"none", "ready", "active", "completed", "dead"}]
      /\ used' \in [Jobs -> 0..(Retries + 1)]
      /\ pc' \in [Jobs \X Attempts -> Doing \cup Outcomes]
  BY DEF AttemptInv, Settled
<1>2. \A i \in Jobs, m \in Attempts :
        pc'[<<i, m>>] = IF i = j /\ m = n THEN to ELSE pc[<<i, m>>]
  BY DEF AttemptInv
<1>3. \A i \in Jobs : /\ job'[i] = "active" => job[i] = "active" /\ ~(i = j /\ used[j] = n)
                      /\ job'[i] = "none" => job[i] = "none"
                      /\ job'[i] = "ready" =>
                           job[i] = "ready" \/ (i = j /\ used[j] = n /\ n <= Retries)
  <2> SUFFICES ASSUME NEW i \in Jobs
               PROVE  /\ job'[i] = "active" => job[i] = "active" /\ ~(i = j /\ used[j] = n)
                      /\ job'[i] = "none" => job[i] = "none"
                      /\ job'[i] = "ready" =>
                           job[i] = "ready" \/ (i = j /\ used[j] = n /\ n <= Retries)
    OBVIOUS
  <2>1. job'[i] = IF i # j \/ job[j] # "active" \/ used[j] # n THEN job[i]
                  ELSE IF outcome = "succeeded" THEN "completed"
                  ELSE IF n <= Retries THEN "ready" ELSE "dead"
    BY DEF AttemptInv, Settled
  <2>2. QED
    BY <2>1
<1>4. ASSUME NEW i \in Jobs, NEW m \in Attempts
      PROVE  pc'[<<i, m>>] = "none" <=> m > used'[i]
  <2>1. pc'[<<i, m>>] = "none" <=> pc[<<i, m>>] = "none"
    BY <1>2
  <2>2. QED
    BY <2>1 DEF AttemptInv
<1>5. \A i \in Jobs : /\ job'[i] = "none" => used'[i] = 0
                      /\ job'[i] = "ready" => used'[i] <= Retries
                      /\ job'[i] = "active" => used'[i] > 0
  BY <1>3 DEF AttemptInv
<1>6. ASSUME NEW i \in Jobs, NEW m \in Attempts, job'[i] = "active", m = used'[i]
      PROVE  pc'[<<i, m>>] \notin {"failed", "ended", "untold"}
  BY <1>2, <1>3, <1>6 DEF AttemptInv
<1>7. QED
  BY <1>1, <1>4, <1>5, <1>6 DEF AttemptInv

(* A job becomes ready for the first time.                                 *)
LEMMA JobStarts ==
    ASSUME AttemptInv, NEW j, job[j] = "none",
           job' = [job EXCEPT ![j] = "ready"], UNCHANGED <<used, pc>>
    PROVE  AttemptInv'
<1>1. ASSUME NEW i \in Jobs
      PROVE  job'[i] = IF i = j THEN "ready" ELSE job[i]
  BY DEF AttemptInv
<1>2. /\ job' \in [Jobs -> {"none", "ready", "active", "completed", "dead"}]
      /\ used' \in [Jobs -> 0..(Retries + 1)]
      /\ pc' \in [Jobs \X Attempts -> Doing \cup Outcomes]
  BY DEF AttemptInv
<1>3. \A i \in Jobs : job'[i] = "ready" => used'[i] <= Retries
  BY <1>1, BoundsAssumption DEF AttemptInv
<1>4. QED
  BY <1>1, <1>2, <1>3 DEF AttemptInv

LEMMA AttemptBegins ==
    ASSUME AttemptInv, NEW j \in Jobs, BeginAttempt(j)
    PROVE  /\ AttemptInv'
           /\ Redriven' = Redriven
           /\ FailedAttempts' = FailedAttempts
<1>1. /\ job' = [job EXCEPT ![j] = "active"] /\ job[j] = "ready"
      /\ used' = [used EXCEPT ![j] = used[j] + 1]
      /\ pc' = [pc EXCEPT ![<<j, used[j] + 1>>] = "sending"]
  BY DEF BeginAttempt
<1>2. used[j] \in Nat /\ used[j] <= Retries /\ used[j] + 1 \in Attempts
  BY <1>1, BoundsAssumption DEF AttemptInv, Attempts
<1>3. pc[<<j, used[j] + 1>>] = "none"
  BY <1>2 DEF AttemptInv
<1>4. \A i \in Jobs, m \in Attempts :
        pc'[<<i, m>>] = IF i = j /\ m = used[j] + 1 THEN "sending" ELSE pc[<<i, m>>]
  BY <1>1 DEF AttemptInv
<1>5. \A i \in Jobs : /\ job'[i] = IF i = j THEN "active" ELSE job[i]
                      /\ used'[i] = IF i = j THEN used[j] + 1 ELSE used[i]
  BY <1>1 DEF AttemptInv
<1>6. AttemptInv'
  <2>1. /\ job' \in [Jobs -> {"none", "ready", "active", "completed", "dead"}]
        /\ used' \in [Jobs -> 0..(Retries + 1)]
        /\ pc' \in [Jobs \X Attempts -> Doing \cup Outcomes]
    BY <1>1, <1>2, BoundsAssumption DEF AttemptInv, Doing, Attempts
  <2>2. ASSUME NEW i \in Jobs, NEW m \in Attempts
        PROVE  pc'[<<i, m>>] = "none" <=> m > used'[i]
    <3>1. CASE i = j
      <4>1. pc[<<i, m>>] = "none" <=> m > used[i]
        BY DEF AttemptInv
      <4>2. QED
        BY <3>1, <4>1, <1>2, <1>4, <1>5 DEF Attempts
    <3>2. CASE i # j
      BY <3>2, <1>4, <1>5 DEF AttemptInv
    <3>3. QED
      BY <3>1, <3>2
  <2>3. \A i \in Jobs : /\ job'[i] = "none" => used'[i] = 0
                        /\ job'[i] = "ready" => used'[i] <= Retries
                        /\ job'[i] = "active" => used'[i] > 0
    BY <1>2, <1>5 DEF AttemptInv
  <2>4. ASSUME NEW i \in Jobs, NEW m \in Attempts, job'[i] = "active", m = used'[i]
        PROVE  pc'[<<i, m>>] \notin {"failed", "ended", "untold"}
    BY <2>4, <1>4, <1>5 DEF AttemptInv
  <2>5. QED
    BY <2>1, <2>2, <2>3, <2>4 DEF AttemptInv
<1>7. Redriven' = Redriven
  BY <1>1, <1>5 DEF Redriven
<1>8. FailedAttempts' = FailedAttempts
  BY <1>3, <1>4 DEF FailedAttempts
<1>9. QED
  BY <1>6, <1>7, <1>8

(* The end of an attempt, told or not: no job starts by it.                *)
LEMMA SettlingRedrivesNothing ==
    ASSUME AttemptInv, NEW j \in Jobs, NEW n, NEW outcome, Settled(j, n, outcome)
    PROVE  Redriven' = Redriven
<1>1. \A i \in Jobs : job'[i] = "none" <=> job[i] = "none"
  BY DEF AttemptInv, Settled
<1>2. QED
  BY <1>1 DEF Redriven

-----------------------------------------------------------------------------
(* The count of failures, action by action.                                *)

LEMMA CountInit == Init => CountInv
<1> SUFFICES ASSUME Init PROVE CountInv
  OBVIOUS
<1>1. IsFiniteSet(recorded) /\ Redriven = {} /\ ~Failing(row)
  BY FS_EmptySet DEF Init, Redriven, Failing, Row
<1>2. Cardinality(Redriven) = 0
  BY <1>1, FS_EmptySet
<1>3. Cardinality(FailedAttempts) \in Nat /\ Cardinality(FailureEvents) \in Nat
  BY <1>1, CountsFinite
<1>4. QED
  BY <1>1, <1>2, <1>3 DEF CountInv

(* Neither an acceptance nor the delivery of a copy fails a message.       *)
LEMMA OnlyFailuresFail ==
    ASSUME NEW what \in Outcomes \cup Statuses, Apply(Transition(what)), Failing(row')
    PROVE  \/ Failing(row)
           \/ what \in Refusals \cup {"transient"}
           \/ what \in {"deferred", "undelivered", "failed", "opt-out"}
           \/ what \in {"took_failed", "took_undelivered"}
<1>1. CASE what \in DOMAIN Accepted
  BY <1>1 DEF Accepted, Apply, Transition, Row, Failing
<1>2. CASE what \notin DOMAIN Accepted
  BY <1>2, StatusesAssumption
     DEF Apply, Transition, Row, Failing, Outcomes, Acceptances, Refusals
<1>3. QED
  BY <1>1, <1>2

LEMMA StageCounts ==
    ASSUME AttemptInv, StagedInv, CountInv, Stage
    PROVE  AttemptInv' /\ CountInv'
<1>1. /\ job' = [job EXCEPT ![1] = "ready"] /\ row.state = "absent"
      /\ UNCHANGED <<recorded, used, pc>>
      /\ ~Failing(row')
  BY DEF Stage, Failing, Row
<1>2. AttemptInv'
  <2>1. CASE 1 \in Jobs
    BY <2>1, <1>1, JobStarts DEF StagedInv
  <2>2. CASE 1 \notin Jobs
    <3>1. job' = job
      BY <2>2, <1>1 DEF AttemptInv
    <3>2. QED
      BY <3>1, <1>1 DEF AttemptInv
  <2>3. QED
    BY <2>1, <2>2
<1>3. Redriven' = Redriven
  BY <1>1 DEF Redriven, AttemptInv
<1>4. FailedAttempts' = FailedAttempts /\ FailureEvents' = FailureEvents
  BY <1>1 DEF FailedAttempts, FailureEvents
<1>5. IsFiniteSet(recorded')
  BY <1>1 DEF CountInv
<1>6. QED
  BY <1>1, <1>2, <1>3, <1>4, <1>5, FailureIsCounted

(* A redrive uses up the failure it answers.                               *)
LEMMA RedriveCounts ==
    ASSUME AttemptInv, CountInv, Redrive
    PROVE  AttemptInv' /\ CountInv'
<1>1. PICK j \in Jobs :
        /\ Failing(row) /\ ~Failing(row') /\ job[j] = "none"
        /\ job' = [job EXCEPT ![j] = "ready"]
        /\ UNCHANGED <<recorded, used, pc>>
  <2>1. ~Failing(Row("pending", "none"))
    BY DEF Failing, Row
  <2>2. QED
    BY <2>1 DEF Redrive, Failing
<1>2. AttemptInv'
  BY <1>1, JobStarts
<1>3. FailedAttempts' = FailedAttempts /\ FailureEvents' = FailureEvents
  BY <1>1 DEF FailedAttempts, FailureEvents
<1>4. Redriven' \in SUBSET (Redriven \cup {j})
  BY <1>1 DEF Redriven, AttemptInv
<1>5. /\ IsFiniteSet(Redriven) /\ Cardinality(Redriven) \in Nat
      /\ Cardinality(FailedAttempts) \in Nat /\ Cardinality(FailureEvents) \in Nat
  BY CountsFinite DEF CountInv
<1>6. /\ IsFiniteSet(Redriven \cup {j})
      /\ Cardinality(Redriven \cup {j}) <= Cardinality(Redriven) + 1
  BY <1>5, FS_AddElement
<1>7. /\ Cardinality(Redriven') \in Nat
      /\ Cardinality(Redriven') <= Cardinality(Redriven \cup {j})
      /\ Cardinality(Redriven \cup {j}) \in Nat
  BY <1>4, <1>6, LargerCount
<1>8. Cardinality(Redriven') <= Cardinality(FailedAttempts') + Cardinality(FailureEvents')
  BY <1>1, <1>3, <1>5, <1>6, <1>7 DEF CountInv
<1>9. IsFiniteSet(recorded')
  BY <1>1 DEF CountInv
<1>10. QED
  BY <1>1, <1>2, <1>8, <1>9 DEF CountInv

(* What the attempts do apart from recording a failure.                    *)
LEMMA AttemptCounts ==
    ASSUME AttemptInv, CountInv, NEW j \in Jobs, NEW n \in Attempts,
           Sent(j, n) \/ RecordFails(j, n) \/ AttemptLost(j, n)
    PROVE  AttemptInv' /\ CountInv'
<1>1. UNCHANGED <<row, recorded, used>>
  BY DEF Sent, RecordFails, AttemptLost
<1>2. PICK to \in (Doing \cup Outcomes) \ {"none", "failed"} : 
        pc' = [pc EXCEPT ![<<j, n>>] = to] /\ pc[<<j, n>>] \notin {"none", "failed"}
  <2>1. CASE Sent(j, n)
    BY <2>1 DEF Sent, Doing, Outcomes, Acceptances, Accepted, Refusals
  <2>2. CASE RecordFails(j, n)
    BY <2>2 DEF RecordFails, Learnt, Doing, Outcomes, Acceptances, Accepted, Refusals
  <2>3. CASE AttemptLost(j, n)
    <3>1. job[j] = "active" /\ used[j] = n
      BY <2>3 DEF AttemptLost
    <3>2. pc[<<j, n>>] \in Doing \cup Outcomes /\ pc[<<j, n>>] \notin {"none", "failed"}
      BY <3>1 DEF AttemptInv, Attempts
    <3>3. QED
      BY <2>3, <3>2 DEF AttemptLost, Doing
  <2>4. QED
    BY <2>1, <2>2, <2>3
<1>3. \A i \in Jobs, m \in Attempts :
        pc'[<<i, m>>] = IF i = j /\ m = n THEN to ELSE pc[<<i, m>>]
  BY <1>2 DEF AttemptInv
<1>4. FailedAttempts' = FailedAttempts
  BY <1>2, <1>3 DEF FailedAttempts
<1>5. FailureEvents' = FailureEvents /\ IsFiniteSet(recorded')
  BY <1>1 DEF FailureEvents, CountInv
<1>6. AttemptInv' /\ Redriven' = Redriven
  <2>1. CASE Sent(j, n)
    <3>1. job' = job /\ pc[<<j, n>>] = "sending" /\ to \in Outcomes
      <4>1. UNCHANGED job /\ pc[<<j, n>>] = "sending"
        BY <2>1 DEF Sent
      <4>2. pc'[<<j, n>>] \in Outcomes
        BY <2>1, <1>2 DEF Sent, AttemptInv, Outcomes
      <4>3. QED
        BY <4>1, <4>2, <1>3
    <3>2. pc' \in [Jobs \X Attempts -> Doing \cup Outcomes]
      BY <1>2 DEF AttemptInv
    <3>3. to \notin {"none", "failed", "ended", "untold"}
      BY <3>1 DEF Outcomes, Acceptances, Accepted, Refusals
    <3>4. QED
      BY <3>1, <3>2, <3>3, <1>1, <1>3 DEF AttemptInv, Redriven
  <2>2. CASE RecordFails(j, n) \/ AttemptLost(j, n)
    <3>1. Settled(j, n, "failed")
      BY <2>2 DEF RecordFails, AttemptLost
    <3>2. QED
      BY <3>1, <1>1, <1>2, AttemptSettles, SettlingRedrivesNothing
  <2>3. QED
    BY <2>1, <2>2
<1>7. QED
  BY <1>1, <1>4, <1>5, <1>6, FailureIsCounted

(* Recording a refusal or a transient failure adds a failed attempt.       *)
LEMMA RecordCounts ==
    ASSUME AttemptInv, CountInv, NEW j \in Jobs, NEW n \in Attempts, Record(j, n)
    PROVE  AttemptInv' /\ CountInv'
<1> DEFINE what == pc[<<j, n>>]
           to == Concluded(what)
<1>1. /\ what \in Outcomes
      /\ Apply(Transition(what))
      /\ Settled(j, n, IF IsRetried(what) THEN "failed" ELSE "succeeded")
      /\ pc' = [pc EXCEPT ![<<j, n>>] = to]
      /\ UNCHANGED <<recorded, used>>
  BY DEF Record, Learnt
<1>2. what \notin {"none", "failed", "ended", "untold"}
  BY <1>1 DEF Outcomes, Acceptances, Accepted, Refusals
<1>3. \A i \in Jobs, m \in Attempts :
        pc'[<<i, m>>] = IF i = j /\ m = n THEN to ELSE pc[<<i, m>>]
  BY <1>1 DEF AttemptInv
<1>4. AttemptInv' /\ Redriven' = Redriven
  <2>1. to \in (Doing \cup Outcomes) \ {"none"}
    BY DEF Doing, Concluded
  <2> HIDE DEF to, what
  <2>2. QED
    BY <2>1, <1>1, <1>2, AttemptSettles, SettlingRedrivesNothing DEF what
<1>5. /\ FailedAttempts \subseteq FailedAttempts'
      /\ to = "failed" =>
           <<j, n>> \in FailedAttempts' /\ <<j, n>> \notin FailedAttempts
  BY <1>2, <1>3 DEF FailedAttempts
<1>6. FailureEvents' = FailureEvents /\ IsFiniteSet(recorded')
  BY <1>1 DEF FailureEvents, CountInv
<1>7. Failing(row') => Failing(row) \/ to = "failed"
  <2>1. ASSUME Failing(row'), ~Failing(row)
        PROVE  what \in Refusals \cup {"transient", "took_failed", "took_undelivered"}
    BY <1>1, <2>1, OnlyFailuresFail, RepliesAssumption DEF Outcomes, Acceptances, Refusals
  <2>2. what \in Refusals \cup {"transient", "took_failed", "took_undelivered"} =>
           to = "failed"
    BY RepliesAssumption DEF Concluded, Refusals, Acceptances
  <2>3. QED
    BY <2>1, <2>2
<1>8. QED
  BY <1>4, <1>5, <1>6, <1>7, FailureIsCounted

(* A callback that fails the message is one that was not recorded before.  *)
LEMMA WebhookCounts ==
    ASSUME DInv, AttemptInv, CountInv, Webhook
    PROVE  AttemptInv' /\ CountInv'
<1>1. PICK e \in posted :
        /\ recorded' = recorded \cup {e}
        /\ IF IsNew(e) THEN Apply(Transition(e[2])) ELSE UNCHANGED row
        /\ UNCHANGED <<job, used, pc>>
  BY DEF Webhook
<1>2. e[2] \in Statuses
  BY DEF DInv
<1>3. IsFiniteSet(recorded')
  BY <1>1, FS_AddElement DEF CountInv
<1>4. AttemptInv' /\ Redriven' = Redriven /\ FailedAttempts' = FailedAttempts
  BY <1>1 DEF AttemptInv, Redriven, FailedAttempts
<1>5. FailureEvents \subseteq FailureEvents'
  BY <1>1 DEF FailureEvents
<1>6. ASSUME Failing(row'), ~Failing(row) PROVE FailureEvents # FailureEvents'
  <2>1. IsNew(e) /\ Apply(Transition(e[2]))
    BY <1>1, <1>6 DEF Failing
  <2>2. e[2] \in {"deferred", "undelivered", "failed", "opt-out"}
    BY <2>1, <1>2, <1>6, OnlyFailuresFail, StatusesAssumption DEF Refusals
  <2>3. e \in FailureEvents' /\ e \notin FailureEvents
    BY <2>1, <2>2, <1>1 DEF FailureEvents, IsNew
  <2>4. QED
    BY <2>3
<1>7. QED
  BY <1>3, <1>4, <1>5, <1>6, FailureIsCounted

(* Before the message is staged there is no job.                           *)
LEMMA StagedStep ==
    ASSUME DInv, AttemptInv, StagedInv, [Next]_vars
    PROVE  StagedInv'
<1> SUFFICES ASSUME row'.state = "absent", NEW i \in Jobs PROVE job'[i] = "none"
  BY DEF StagedInv
<1>1. row.state = "absent" /\ ~Stage /\ ~Redrive
  <2>1. ASSUME NEW what \in Outcomes \cup Statuses, Apply(Transition(what))
        PROVE  row.state = "absent"
    BY <2>1, StatusesAssumption
       DEF Apply, Transition, Row, Outcomes, Acceptances, Accepted, Refusals
  <2>2. ~Stage /\ ~Redrive
    BY DEF Stage, Redrive, Row
  <2>3. QED
    BY <2>1, <2>2, RowSteps
<1>2. \A k \in Jobs : job[k] = "none"
  BY <1>1 DEF StagedInv
<1>3. ASSUME NEW j \in Jobs, NEW n, NEW outcome, Settled(j, n, outcome)
      PROVE  job'[i] = "none"
  BY <1>2, <1>3 DEF Settled, AttemptInv
<1>4. CASE UNCHANGED job
  BY <1>2, <1>4
<1>5. QED
  BY <1>1, <1>2, <1>3, <1>4
     DEF Next, BeginAttempt, Sent, Record, RecordFails, AttemptLost, CopyProceeds, Webhook, vars

RedriveInv == DInv /\ AttemptInv /\ StagedInv /\ CountInv

LEMMA RedriveInvStep == RedriveInv /\ [Next]_vars => RedriveInv'
<1> SUFFICES ASSUME RedriveInv, [Next]_vars PROVE RedriveInv'
  OBVIOUS
<1> USE DEF RedriveInv
<1>1. DInv' /\ StagedInv'
  BY DInvStep, StagedStep
<1>2. AttemptInv' /\ CountInv'
  <2>1. CASE Stage
    BY <2>1, StageCounts
  <2>2. CASE Redrive
    BY <2>2, RedriveCounts
  <2>3. ASSUME NEW j \in Jobs, BeginAttempt(j) PROVE AttemptInv' /\ CountInv'
    <3>1. AttemptInv' /\ Redriven' = Redriven /\ FailedAttempts' = FailedAttempts
      BY <2>3, AttemptBegins
    <3>2. UNCHANGED <<row, recorded>>
      BY <2>3 DEF BeginAttempt
    <3>3. FailureEvents' = FailureEvents /\ IsFiniteSet(recorded')
      BY <3>2 DEF FailureEvents, CountInv
    <3>4. QED
      BY <3>1, <3>2, <3>3, FailureIsCounted
  <2>4. ASSUME NEW j \in Jobs, NEW n \in Attempts,
               Sent(j, n) \/ RecordFails(j, n) \/ AttemptLost(j, n)
        PROVE  AttemptInv' /\ CountInv'
    BY <2>4, AttemptCounts
  <2>5. ASSUME NEW j \in Jobs, NEW n \in Attempts, Record(j, n)
        PROVE  AttemptInv' /\ CountInv'
    BY <2>5, RecordCounts
  <2>6. CASE Webhook
    BY <2>6, WebhookCounts
  <2>7. CASE CopyProceeds \/ UNCHANGED vars
    <3>1. UNCHANGED <<row, recorded, job, used, pc>>
      BY <2>7 DEF CopyProceeds, vars
    <3>2. QED
      BY <3>1 DEF AttemptInv, CountInv, Redriven, FailedAttempts, FailureEvents, Failing
  <2>8. QED
    BY <2>1, <2>2, <2>3, <2>4, <2>5, <2>6, <2>7 DEF Next
<1>3. QED
  BY <1>1, <1>2

(* However late and often callbacks come, and however many attempts expire *)
(* unheard, an operator's redrive answers a failure that no other redrive  *)
(* answered (delivery:retry, DeliveryLedger.record).                       *)
THEOREM RedrivesAreAnswers == Spec => []RedrivesAnswerFailures
<1>1. Init => RedriveInv
  BY DInvInit, AttemptInit, CountInit DEF RedriveInv, StagedInv, Init
<1>2. RedriveInv => RedrivesAnswerFailures
  BY DEF RedriveInv, CountInv, RedrivesAnswerFailures, Redriven, FailedAttempts, FailureEvents
<1>3. QED
  BY <1>1, <1>2, RedriveInvStep, PTL DEF Spec

=============================================================================
