------------------------------- MODULE Delivery -------------------------------
(***************************************************************************)
(* The delivery ledger of one mail or SMS: the row that an action stages   *)
(* with a queue job, the job's attempts (runtime.ts invokeCommunication),  *)
(* the provider's events (DeliveryLedger.record) and the operator's        *)
(* delivery:retry, all of which move the row through                       *)
(* transitionDeliveryNow (postgres-drizzle) and the rule of                *)
(* core/communications.ts.                                                 *)
(*                                                                         *)
(* Each transition is one transaction whose UPDATE repeats the rule, so it *)
(* is one step.  The queue and the provider are external: an attempt may   *)
(* expire and go on unheard, an answer may be lost after the provider took *)
(* the message, and events come late, twice and in any order.              *)
(***************************************************************************)
EXTENDS Integers, Sequences, FiniteSets

CONSTANTS
    Jobs,        \* queue jobs of the message, in order: 1..n
    Retries,     \* policy.retries
    Replies,     \* what the provider may say of a copy as it takes it
    Statuses,    \* what its callbacks tell of a copy
    Faults       \* bound on lost answers, refusals to retry, failed transactions, lost attempts

ASSUME JobsAssumption == IsFiniteSet(Jobs) /\ Jobs = 1..Cardinality(Jobs)
ASSUME RepliesAssumption ==
    Replies \subseteq {"took_unknown", "took_accepted", "took_sent", "took_delivered",
                       "took_undelivered", "took_failed", "took_cancelled"}
ASSUME StatusesAssumption ==
    Statuses \subseteq {"unknown", "accepted", "sent", "deferred", "delivered", "undelivered",
                        "failed", "opt-out", "canceled", "unsubscribe"}
ASSUME BoundsAssumption == Retries \in Nat /\ Faults \in Nat

VARIABLES
    row,         \* the doxa_delivery_messages row
    recorded,    \* doxa_delivery_events
    job,         \* the queue's state of a job
    used,        \* attempts of a job so far
    pc,          \* the attempts: what they are doing, or what they learnt
    copies,      \* what the provider has done with each copy it accepted
    posted,      \* events the provider may post, again and again
    faults

vars == <<row, recorded, job, used, pc, copies, posted, faults>>

Attempts == 1..(Retries + 1)
Copies == 1..(Cardinality(Jobs) * (Retries + 1))
Terminal == {"delivered", "failed", "suppressed", "cancelled"}
DeliveryState == Terminal \cup {"pending", "accepted", "sent", "undelivered"}
Row(state, kind) == [state |-> state, kind |-> kind]
FailureKind == {"none", "transient", "permanent", "suppressed", "opt-out"}

(* normalizeState: the state transport.send returns for the message that    *)
(* the provider took, pending for every status it does not know.            *)
Accepted ==
    [took_unknown |-> "pending", took_accepted |-> "accepted", took_sent |-> "sent",
     took_delivered |-> "delivered", took_undelivered |-> "undelivered",
     took_failed |-> "failed", took_cancelled |-> "cancelled"]

(* What transport.send returns, and the kinds of DeliveryError it throws.   *)
Acceptances == Replies \cap DOMAIN Accepted
Refusals == {"permanent", "suppressed", "opt-out"}
Outcomes == Acceptances \cup Refusals \cup {"transient"}

(* An attempt that has recorded its outcome recorded a failure, the state   *)
(* of a message the provider took, or that it was told no such state.       *)
Doing == {"none", "sending", "ended", "failed", "untold"}

TypeOK ==
    /\ row.state \in DeliveryState \cup {"absent"}
    /\ row.kind \in FailureKind
    /\ recorded \subseteq posted /\ posted \subseteq Copies \X Statuses
    /\ job \in [Jobs -> {"none", "ready", "active", "completed", "dead"}]
    /\ used \in [Jobs -> 0..(Retries + 1)]
    /\ \A j \in Jobs, n \in Attempts :
         /\ pc[<<j, n>>] \in Doing \cup Outcomes
         /\ pc[<<j, n>>] = "none" <=> n > used[j]

Init ==
    /\ row = Row("absent", "none")
    /\ recorded = {}
    /\ job = [j \in Jobs |-> "none"]
    /\ used = [j \in Jobs |-> 0]
    /\ pc = [a \in Jobs \X Attempts |-> "none"]
    /\ copies = <<>>
    /\ posted = {}
    /\ faults = 0

Fault == faults < Faults /\ faults' = faults + 1

-----------------------------------------------------------------------------
(* The rule: canApplyDeliveryTransition.                                    *)

(* Mutation: what has failed may be delivered after all.                    *)
MayFollowFailure(current, next) ==
    \/ current = next \/ next \in {"suppressed", "delivered"}
    \/ current \notin Terminal

MayFollow(current, next) ==
    \/ current = next
    \/ next = "suppressed"
    \/ /\ current \notin Terminal
       /\ \/ next = "accepted" /\ current = "pending"
          \/ next = "sent" /\ current \in {"pending", "accepted"}
          \/ next = "undelivered" /\ current \in {"pending", "accepted", "sent"}
          \/ next \in {"delivered", "failed", "cancelled"}

(* Mutation: a transition without failure metadata keeps what was there.    *)
ApplyKeepingFailure(o) ==
    row' = IF row.state # "absent" /\ MayFollow(row.state, o.state)
           THEN Row(o.state, IF o.kind = "none" THEN row.kind ELSE o.kind) ELSE row

(* transitionDeliveryNow: the UPDATE, whose WHERE is the rule.              *)
Apply(o) == row' = IF row.state # "absent" /\ MayFollow(row.state, o.state) THEN o ELSE row

(* The transition of an acceptance or a DeliveryError, and what             *)
(* normalizeTwilioStatus and normalizeSendGridEvents make of a callback.    *)
Transition(what) ==
    CASE what \in DOMAIN Accepted -> Row(Accepted[what], "none")
      [] what = "unknown" -> Row("pending", "none")
      [] what \in {"accepted", "sent", "delivered"} -> Row(what, "none")
      [] what \in {"transient", "deferred"} -> Row("undelivered", "transient")
      [] what \in {"undelivered", "failed"} -> Row(what, "permanent")
      [] what = "canceled" -> Row("cancelled", "none")
      [] what \in {"suppressed", "unsubscribe"} -> Row("suppressed", "suppressed")
      [] what = "permanent" -> Row("failed", "permanent")
      [] what = "opt-out" -> Row("failed", "opt-out")

-----------------------------------------------------------------------------
(* The application, the queue, the operator.                                *)

(* Mailer.send or Sms.send in an action that commits.                       *)
Stage ==
    /\ row.state = "absent"
    /\ row' = Row("pending", "none")
    /\ job' = [job EXCEPT ![1] = "ready"]
    /\ UNCHANGED <<recorded, used, pc, copies, posted, faults>>

BeginAttempt(j) ==
    /\ job[j] = "ready"
    /\ job' = [job EXCEPT ![j] = "active"]
    /\ used' = [used EXCEPT ![j] = @ + 1]
    /\ pc' = [pc EXCEPT ![<<j, used[j] + 1>>] = "sending"]
    /\ UNCHANGED <<row, recorded, copies, posted, faults>>

(* Mutation: a failed attempt is the end of the job.                        *)
SettledForGood(j, n, outcome) ==
    job' = [job EXCEPT ![j] =
              IF @ # "active" \/ used[j] # n THEN @
              ELSE IF outcome = "succeeded" THEN "completed" ELSE "dead"]

(* The queue hears of an attempt only while it is the job's current one.    *)
Settled(j, n, outcome) ==
    job' = [job EXCEPT ![j] =
              IF @ # "active" \/ used[j] # n THEN @
              ELSE IF outcome = "succeeded" THEN "completed"
              ELSE IF n <= Retries THEN "ready" ELSE "dead"]

(* delivery:retry.                                                          *)
Redrive ==
    \E j \in Jobs :
        /\ row.state \in {"failed", "undelivered"}
        /\ job[j] = "none" /\ \A i \in 1..(j - 1) : job[i] # "none"
        /\ row' = Row("pending", "none")
        /\ job' = [job EXCEPT ![j] = "ready"]
        /\ UNCHANGED <<recorded, used, pc, copies, posted, faults>>

-----------------------------------------------------------------------------
(* invokeCommunication.                                                     *)

(* transport.send answers; the provider may have taken a message whose      *)
(* answer is lost, which the transport reports as a transient failure.      *)
Sent(j, n) ==
    /\ pc[<<j, n>>] = "sending"
    /\ \/ \E o \in Acceptances :
            /\ pc' = [pc EXCEPT ![<<j, n>>] = o]
            /\ copies' = Append(copies, "queued")
            /\ UNCHANGED faults
       \/ \E o \in Refusals :
            /\ pc' = [pc EXCEPT ![<<j, n>>] = o]
            /\ UNCHANGED <<copies, faults>>
       \/ /\ Fault
          /\ pc' = [pc EXCEPT ![<<j, n>>] = "transient"]
          /\ copies' \in {copies, Append(copies, "queued")}
    /\ UNCHANGED <<row, recorded, job, used, posted>>

Learnt(j, n) == pc[<<j, n>>] \in Outcomes

(* Only a transient failure is thrown for the queue to retry.               *)
IsRetried(what) == what = "transient"

(* What is left of an outcome once it is recorded.                          *)
Concluded(what) ==
    IF what = "took_unknown" THEN "untold"
    ELSE IF what \in Acceptances \ {"took_failed", "took_undelivered"} THEN "ended"
    ELSE "failed"

(* The transaction that records it.                                         *)
Record(j, n) ==
    /\ Learnt(j, n)
    /\ Apply(Transition(pc[<<j, n>>]))
    /\ Settled(j, n, IF IsRetried(pc[<<j, n>>]) THEN "failed" ELSE "succeeded")
    /\ pc' = [pc EXCEPT ![<<j, n>>] = Concluded(@)]
    /\ UNCHANGED <<recorded, used, copies, posted, faults>>

RecordFails(j, n) ==
    /\ Learnt(j, n)
    /\ Fault
    /\ Settled(j, n, "failed")
    /\ pc' = [pc EXCEPT ![<<j, n>>] = "ended"]
    /\ UNCHANGED <<row, recorded, used, copies, posted>>

(* The attempt's time is up; its handler may go on, or have crashed.        *)
AttemptLost(j, n) ==
    /\ job[j] = "active" /\ used[j] = n
    /\ Fault
    /\ Settled(j, n, "failed")
    /\ \E to \in {pc[<<j, n>>], "ended"} : pc' = [pc EXCEPT ![<<j, n>>] = to]
    /\ UNCHANGED <<row, recorded, used, copies, posted>>

-----------------------------------------------------------------------------
(* The provider.                                                            *)

(* What becomes of a copy, each status once and some of them never.         *)
After(status) ==
    CASE status = "queued" -> Statuses
      [] status \in {"unknown", "accepted"} -> Statuses \ {"unknown", "accepted"}
      [] status = "sent" -> Statuses \ {"unknown", "accepted", "sent", "canceled"}
      [] status = "deferred" -> Statuses \cap {"delivered", "undelivered", "failed", "opt-out"}
      [] status = "delivered" -> Statuses \cap {"unsubscribe"}
      [] OTHER -> {}

CopyProceeds ==
    \E c \in 1..Len(copies) : \E status \in After(copies[c]) :
        /\ copies' = [copies EXCEPT ![c] = status]
        /\ posted' = posted \cup {<<c, status>>}
        /\ UNCHANGED <<row, recorded, job, used, pc, faults>>

(* Mutation: a callback that comes again is applied again.                  *)
AnyEvent(e) == TRUE

(* The insert into doxa_delivery_events returned a row.                     *)
IsNew(e) == e \notin recorded

(* DeliveryLedger.record, in the action of a webhook: nothing is done for a *)
(* callback that was recorded before.                                       *)
Webhook ==
    \E e \in posted :
        /\ recorded' = recorded \cup {e}
        /\ IF IsNew(e) THEN Apply(Transition(e[2])) ELSE UNCHANGED row
        /\ UNCHANGED <<job, used, pc, copies, posted, faults>>

Next ==
    \/ Stage \/ Redrive
    \/ \E j \in Jobs : BeginAttempt(j)
    \/ \E j \in Jobs, n \in Attempts :
         Sent(j, n) \/ Record(j, n) \/ RecordFails(j, n) \/ AttemptLost(j, n)
    \/ CopyProceeds \/ Webhook

(* Workers take jobs and finish what they began.                            *)
Fairness ==
    \A j \in Jobs :
        /\ WF_vars(BeginAttempt(j))
        /\ \A n \in Attempts : WF_vars(Sent(j, n)) /\ WF_vars(Record(j, n))

Spec == Init /\ [][Next]_vars /\ Fairness

-----------------------------------------------------------------------------
(* Decision 0008: delivered, failed, cancelled and suppressed are terminal. *)
(* Whatever order acceptances, failures and callbacks of several copies     *)
(* come in, a message leaves a terminal state only to be suppressed, or     *)
(* from failed when an operator redrives it with a new job.                 *)
TerminalIsFinal ==
    [][row.state \in Terminal /\ row'.state # row.state =>
         \/ row'.state = "suppressed"
         \/ /\ row.state = "failed" /\ row'.state = "pending"
            /\ \E j \in Jobs : job[j] = "none" /\ job'[j] = "ready"]_vars

(* Successful transitions clear stale failure metadata, so the kind of      *)
(* failure on the row is always one of the state it is in, also after a     *)
(* recovery or a redrive.                                                   *)
FailureFitsState ==
    /\ row.kind = "transient" => row.state = "undelivered"
    /\ row.kind = "permanent" => row.state \in {"undelivered", "failed"}
    /\ row.kind = "opt-out" => row.state = "failed"
    /\ row.kind = "suppressed" => row.state = "suppressed"

(* Duplicate callbacks are harmless: each redrive answers a failure of its  *)
(* own, and no repeated callback makes a redriven message redrivable again. *)
RedrivesAnswerFailures ==
    Cardinality({j \in Jobs \ {1} : job[j] # "none"}) <=
        Cardinality({a \in Jobs \X Attempts : pc[a] = "failed"})
        + Cardinality({e \in recorded :
                         e[2] \in {"deferred", "undelivered", "failed", "opt-out"}})

(* The last job of the message was told nothing of what the provider took. *)
Untold ==
    \E j \in Jobs, n \in Attempts :
        pc[<<j, n>>] = "untold" /\ \A i \in Jobs : i > j => job[i] = "none"

(* A staged or redriven message does not stay pending: fewer faults than    *)
(* attempts leave an attempt that records what became of it, unless the     *)
(* provider took the message with a status the transport does not know,     *)
(* which is recorded as pending and completes the job.                      *)
PendingConcludes ==
    row.state = "pending" ~> row.state # "pending" \/ Untold

=============================================================================
