--------------------------- MODULE UnitOfWorkProofs ---------------------------
(***************************************************************************)
(* Proofs about UnitOfWork, for any transactions, connections and bounds.  *)
(*                                                                         *)
(* A transaction is followed through its client (Tenure), its operations   *)
(* (InOrder) and its decision (Fate).  Once an operation failed the queue  *)
(* stays failed, and a queue that failed before drain() returned never     *)
(* lets COMMIT be sent; late operations are accounted for by Strayed.      *)
(*                                                                         *)
(* Then about ModelSession, for any executions, branches and instances:    *)
(* what an instance or a save under way holds at the version a write would *)
(* match covers the row (VersionInv).                                      *)
(***************************************************************************)
EXTENDS UnitOfWork, ModelSession, TLAPS

Holding == {"working", "draining", "closing", "committing", "rollingback", "releasing"}

(* The client: one holder each, kept until a cancel request has ended.  A  *)
(* client destroyed later was used by those who had given it back.         *)
Tenure(t) ==
    /\ cancel[t] = "sent" => holds[t]
    /\ dead[t] => ~holds[t] /\ (cancel[t] = "done" \/ pc[t] \in {"aftercommit", "reported"})
    /\ cancel[t] # "none" => aborted[t]
    /\ pc[t] \in Holding => holds[t] \/ dead[t]
    /\ pc[t] = "idle" => cancel[t] = "none"

Exclusive == \A s, t \in Txs : holds[s] /\ holds[t] /\ conn[s] = conn[t] => s = t

(* The operations run one at a time and in order, those that are waited    *)
(* for in their own transaction, and a failure of one is kept.             *)
InOrder(t) ==
    /\ \A i, j \in Ops : i < j =>
          /\ op[t][i] = "unused" => op[t][j] = "unused"
          /\ op[t][i] \in {"queued", "running"} => op[t][j] \in {"unused", "queued"}
    /\ \A i \in Ops :
          /\ op[t][i] \in {"unused", "queued"} => ranIn[t][i] = Elsewhere
          /\ op[t][i] = "running" => ~failure[t] /\ ~dead[t]
          /\ op[t][i] \in {"failed", "skipped"} => failure[t]
          /\ i \in late[t] => op[t][i] # "unused" /\ pc[t] \notin {"idle", "working", "draining"}
    /\ \A i \in Ops \ late[t] :
          /\ op[t][i] \in {"running", "ok"} => ranIn[t][i] = t
          /\ op[t][i] \in {"queued", "running"} => pc[t] \in {"working", "draining"}
    /\ active[t] => pc[t] \in {"working", "draining", "closing"}

(* What a spoiled transaction is accounted for by, and what a commit needs.*)
Blamed(t) == Strayed(t) \/ \E i \in Ops \ late[t] : op[t][i] = "failed"
Clean(t) == \A i \in Ops \ late[t] : op[t][i] \in {"unused", "ok"}
Ended(t) == outcome[t] = "committed" \/ (outcome[t] = "rolledback" /\ Strayed(t))

(* The decision, and what the caller is told.                              *)
Fate(t) ==
    /\ spoiled[t] => Blamed(t)
    /\ pc[t] \in {"idle", "working", "draining", "closing", "rollingback"} =>
          outcome[t] = "open" /\ ~commitSent[t]
    /\ commitSent[t] => outcome[t] = "open" /\ (pc[t] = "committing" \/ dead[t])
    /\ commitSent[t] \/ outcome[t] = "committed" => Clean(t)
    /\ pc[t] = "closing" /\ ~doomed[t] => Clean(t)
    /\ pc[t] = "rollingback" => doomed[t]
    /\ pc[t] = "committing" => ~doomed[t] /\ (commitSent[t] \/ Ended(t) \/ dead[t])
    /\ pc[t] = "releasing" => IF doomed[t] THEN outcome[t] = "rolledback" \/ dead[t]
                                           ELSE Ended(t)
    /\ pc[t] = "aftercommit" => Ended(t)
    /\ pc[t] # "reported" => verdict[t] = "none"
    /\ verdict[t] = "failed" => broken[t] \/ aborted[t] \/ outcome[t] = "rolledback"

UInv == TypeOK /\ Exclusive /\ \A t \in Txs : Tenure(t) /\ InOrder(t) /\ Fate(t)

LEMMA UInvInit == Init => UInv
<1> SUFFICES ASSUME Init PROVE UInv
  OBVIOUS
<1>1. TypeOK
  BY BoundsAssumption DEF Init, TypeOK, PC, OpState
<1>2. Exclusive
  BY DEF Init, Exclusive
<1>3. ASSUME NEW t \in Txs PROVE Tenure(t) /\ InOrder(t) /\ Fate(t)
  <2>1. Tenure(t) /\ InOrder(t)
    BY DEF Init, Tenure, InOrder, Holding
  <2>2. Fate(t)
    BY DEF Init, Fate
  <2>3. QED
    BY <2>1, <2>2
<1>4. QED
  BY <1>1, <1>2, <1>3 DEF UInv

-----------------------------------------------------------------------------
(* What a step leaves alone.                                               *)
LEMMA SameOrder ==
    ASSUME NEW s \in Txs, InOrder(s), op'[s] = op[s], ranIn'[s] = ranIn[s],
           late'[s] = late[s], failure'[s] = failure[s], dead'[s] = dead[s],
           active'[s] = active[s], pc'[s] = pc[s]
    PROVE  InOrder(s)'
BY DEF InOrder

LEMMA FateStays ==
    ASSUME NEW s \in Txs, Fate(s), Strayed(s) => Strayed(s)', spoiled'[s] => Blamed(s)',
           Clean(s) => Clean(s)', pc'[s] = pc[s], outcome'[s] = outcome[s],
           commitSent'[s] = commitSent[s], doomed'[s] = doomed[s], dead[s] => dead'[s],
           verdict'[s] = verdict[s], broken'[s] = broken[s], aborted'[s] = aborted[s]
    PROVE  Fate(s)'
BY DEF Fate, Ended

LEMMA SameFate ==
    ASSUME NEW s \in Txs, Fate(s), Strayed(s) => Strayed(s)', op'[s] = op[s],
           late'[s] = late[s], spoiled'[s] = spoiled[s], pc'[s] = pc[s],
           outcome'[s] = outcome[s], commitSent'[s] = commitSent[s],
           doomed'[s] = doomed[s], dead[s] => dead'[s], verdict'[s] = verdict[s],
           broken'[s] = broken[s], aborted'[s] = aborted[s]
    PROVE  Fate(s)'
<1>1. (Blamed(s) => Blamed(s)') /\ (Clean(s) => Clean(s)')
  BY DEF Blamed, Clean
<1>2. spoiled'[s] => Blamed(s)'
  BY <1>1 DEF Fate
<1>3. QED
  BY <1>1, <1>2, FateStays

LEMMA SameOps ==
    ASSUME UNCHANGED opVars, NEW s \in Txs
    PROVE  /\ Strayed(s)' <=> Strayed(s)
           /\ Blamed(s)' <=> Blamed(s)
           /\ Clean(s)' <=> Clean(s)
<1>1. op' = op /\ late' = late /\ ranIn' = ranIn
  BY DEF opVars
<1>2. Strayed(s)' <=> Strayed(s)
  BY <1>1 DEF Strayed
<1>3. QED
  BY <1>1, <1>2 DEF Blamed, Clean

(* An operation that strayed into a transaction stays part of it.          *)
LEMMA StrayedStays ==
    ASSUME UInv, NEW t \in Txs, \A s \in Txs : late[s] \subseteq late'[s],
           \A s \in Txs, i \in Ops : ranIn[s][i] # Elsewhere => ranIn'[s][i] = ranIn[s][i]
    PROVE  Strayed(t) => Strayed(t)'
<1> SUFFICES ASSUME Strayed(t) PROVE Strayed(t)'
  OBVIOUS
<1>1. CASE late[t] # {}
  BY <1>1 DEF Strayed
<1>2. CASE \E s \in Txs : \E i \in late[s] : ranIn[s][i] = t
  <2>0. PICK s \in Txs : \E i \in late[s] : ranIn[s][i] = t
    BY <1>2
  <2>1. PICK i \in late[s] : ranIn[s][i] = t
    BY <2>0
  <2>2. i \in Ops /\ i \in late'[s] /\ t # Elsewhere
    BY <2>1, NullsAssumption DEF UInv, TypeOK
  <2>3. ranIn'[s][i] = t
    BY <2>1, <2>2
  <2>4. QED
    BY <2>2, <2>3 DEF Strayed
<1>3. QED
  BY <1>1, <1>2 DEF Strayed

-----------------------------------------------------------------------------
(* Each step keeps the invariant: the handler's, the manager's, then those *)
(* of cancellation and of the operation queue.                             *)
LEMMA BeginKeeps ==
    ASSUME UInv, NEW t \in Txs, Begin(t)
    PROVE  UInv'
<1> USE DEF Begin, connVars, endVars
<1>0. UNCHANGED opVars
  BY DEF opVars
<1>1. TypeOK'
  BY DEF UInv, TypeOK, PC, opVars
<1>2. Exclusive'
  BY DEF UInv, TypeOK, Exclusive, Tenure, Free
<1>3. ASSUME NEW s \in Txs PROVE Tenure(s)'
  BY DEF UInv, TypeOK, Tenure, Holding
<1>4. ASSUME NEW s \in Txs PROVE InOrder(s)'
  <2>1. CASE s = t
    <3>1. /\ InOrder(t) /\ dead'[t] = dead[t] /\ failure'[t] = failure[t]
          /\ op'[t] = op[t] /\ ranIn'[t] = ranIn[t] /\ late'[t] = late[t]
      BY <1>0 DEF opVars, UInv
    <3>2. pc[t] = "idle" /\ pc'[t] \in {"working", "draining"}
      BY DEF UInv, TypeOK
    <3>3. QED
      BY <2>1, <3>1, <3>2 DEF InOrder
  <2>2. CASE s # t
    BY <1>0, <2>2, SameOrder DEF UInv, TypeOK, opVars
  <2>3. QED
    BY <2>1, <2>2
<1>5. ASSUME NEW s \in Txs PROVE Fate(s)'
  <2>1. CASE s = t
    <3>1. /\ Fate(t) /\ Tenure(t) /\ (Strayed(t)' <=> Strayed(t))
          /\ (Blamed(t)' <=> Blamed(t)) /\ (Clean(t)' <=> Clean(t)) /\ spoiled'[t] = spoiled[t]
      BY <1>0, SameOps DEF UInv, opVars
    <3>2. QED
      BY <2>1, <3>1 DEF UInv, TypeOK, Fate, Ended, Tenure, Holding
  <2>2. CASE s # t
    BY <1>0, <2>2, SameOps, SameFate DEF UInv, TypeOK, opVars
  <2>3. QED
    BY <2>1, <2>2
<1>6. QED
  BY <1>1, <1>2, <1>3, <1>4, <1>5 DEF UInv

LEMMA IssueKeeps ==
    ASSUME UInv, NEW t \in Txs, Issue(t)
    PROVE  UInv'
<1> USE DEF connVars, endVars
<1>1. PICK i \in Ops : /\ NextOp(t, i)
                       /\ op' = [op EXCEPT ![t] = [@ EXCEPT ![i] = "queued"]]
                       /\ late' = [late EXCEPT ![t] = IF pc[t] = "closing" THEN @ \cup {i} ELSE @]
  BY DEF Issue
<1>2. /\ UNCHANGED <<pc, connVars, active, ranIn, failure, doomed, spoiled, aborted, endVars>>
      /\ active[t]
  BY DEF Issue
<1>3. \A j \in Ops : op'[t][j] = IF j = i THEN "queued" ELSE op[t][j]
  BY <1>1 DEF UInv, TypeOK
<1>4. late'[t] = (IF pc[t] = "closing" THEN late[t] \cup {i} ELSE late[t])
  BY <1>1 DEF UInv, TypeOK
<1>5. \A s \in Txs : s # t => op'[s] = op[s] /\ late'[s] = late[s]
  BY <1>1 DEF UInv, TypeOK
<1>6. /\ op[t][i] = "unused" /\ i \notin late[t] /\ InOrder(t) /\ Fate(t)
      /\ pc[t] \in {"working", "draining", "closing"}
  BY <1>1, <1>2 DEF NextOp, UInv, InOrder
<1>7. TypeOK'
  BY <1>1, <1>2 DEF UInv, TypeOK, OpState
<1>8. Exclusive' /\ \A s \in Txs : Tenure(s)'
  BY <1>2 DEF UInv, Exclusive, Tenure
<1>9. ASSUME NEW s \in Txs PROVE Strayed(s) => Strayed(s)'
  BY <1>2, <1>4, <1>5, StrayedStays
<1>10. InOrder(t)'
  <2>1. \A j, k \in Ops : j < k =>
           /\ op'[t][j] = "unused" => op'[t][k] = "unused"
           /\ op'[t][j] \in {"queued", "running"} => op'[t][k] \in {"unused", "queued"}
    BY <1>1, <1>3, <1>6 DEF NextOp, InOrder, Ops
  <2>2. \A j \in Ops :
           /\ op'[t][j] \in {"unused", "queued"} => ranIn'[t][j] = Elsewhere
           /\ op'[t][j] = "running" => ~failure'[t] /\ ~dead'[t]
           /\ op'[t][j] \in {"failed", "skipped"} => failure'[t]
    BY <1>2, <1>3, <1>6 DEF InOrder
  <2>3. \A j \in Ops : j \in late'[t] =>
           op'[t][j] # "unused" /\ pc'[t] \notin {"idle", "working", "draining"}
    BY <1>2, <1>3, <1>4, <1>6 DEF InOrder
  <2>4. \A j \in Ops \ late'[t] :
           /\ op'[t][j] \in {"running", "ok"} => ranIn'[t][j] = t
           /\ op'[t][j] \in {"queued", "running"} => pc'[t] \in {"working", "draining"}
    BY <1>2, <1>3, <1>4, <1>6 DEF InOrder
  <2>5. QED
    BY <1>2, <1>6, <2>1, <2>2, <2>3, <2>4 DEF InOrder
<1>11. Fate(t)'
  <2>1. Blamed(t) => Blamed(t)'
    BY <1>3, <1>4, <1>6, <1>9 DEF Blamed
  <2>2. pc[t] = "closing" /\ Clean(t) => Clean(t)'
    BY <1>3, <1>4 DEF Clean
  <2>3. outcome[t] = "open" /\ ~commitSent[t]
    BY <1>6 DEF Fate
  <2>4. QED
    BY <1>2, <1>6, <2>1, <2>2, <2>3 DEF Fate
<1>12. ASSUME NEW s \in Txs, s # t PROVE InOrder(s)' /\ Fate(s)'
  BY <1>2, <1>5, <1>9, <1>12, SameOrder, SameFate DEF UInv
<1>13. QED
  BY <1>7, <1>8, <1>10, <1>11, <1>12 DEF UInv

LEMMA AfterCommitKeeps ==
    ASSUME UInv, NEW t \in Txs, AfterCommit(t)
    PROVE  UInv'
<1> USE DEF AfterCommit, connVars, endVars
<1>0. UNCHANGED opVars
  BY DEF opVars
<1>1. TypeOK'
  BY BoundsAssumption DEF UInv, TypeOK, PC, opVars
<1>2. Exclusive'
  BY DEF UInv, TypeOK, Exclusive
<1>3. ASSUME NEW s \in Txs PROVE Tenure(s)'
  BY DEF UInv, TypeOK, Tenure, Holding
<1>4. ASSUME NEW s \in Txs PROVE InOrder(s)'
  BY <1>0, SameOrder DEF UInv, TypeOK, opVars
<1>5. ASSUME NEW s \in Txs PROVE Fate(s)'
  <2>1. CASE s = t
    <3>1. /\ Fate(t) /\ Tenure(t) /\ (Strayed(t)' <=> Strayed(t))
          /\ (Blamed(t)' <=> Blamed(t)) /\ (Clean(t)' <=> Clean(t)) /\ spoiled'[t] = spoiled[t]
      BY <1>0, SameOps DEF UInv, opVars
    <3>2. QED
      BY <2>1, <3>1 DEF UInv, TypeOK, Fate, Ended, Tenure, Holding
  <2>2. CASE s # t
    BY <1>0, <2>2, SameOps, SameFate DEF UInv, TypeOK, opVars
  <2>3. QED
    BY <2>1, <2>2
<1>6. QED
  BY <1>1, <1>2, <1>3, <1>4, <1>5 DEF UInv

LEMMA HandlerSettlesKeeps ==
    ASSUME UInv, NEW t \in Txs, HandlerSettles(t)
    PROVE  UInv'
<1> USE DEF HandlerSettles, connVars, endVars
<1>0. UNCHANGED opVars
  BY DEF opVars
<1>1. TypeOK'
  BY DEF UInv, TypeOK, PC, opVars
<1>2. Exclusive'
  BY DEF UInv, TypeOK, Exclusive
<1>3. ASSUME NEW s \in Txs PROVE Tenure(s)'
  BY DEF UInv, TypeOK, Tenure, Holding
<1>4. ASSUME NEW s \in Txs PROVE InOrder(s)'
  <2>1. CASE s = t
    <3>1. /\ InOrder(t) /\ dead'[t] = dead[t] /\ failure'[t] = failure[t]
          /\ op'[t] = op[t] /\ ranIn'[t] = ranIn[t] /\ late'[t] = late[t]
      BY <1>0 DEF opVars, UInv
    <3>2. pc[t] = "working" /\ pc'[t] = "draining" /\ active'[t] = active[t]
      BY DEF UInv, TypeOK
    <3>3. QED
      BY <2>1, <3>1, <3>2 DEF InOrder
  <2>2. CASE s # t
    BY <1>0, <2>2, SameOrder DEF UInv, TypeOK, opVars
  <2>3. QED
    BY <2>1, <2>2
<1>5. ASSUME NEW s \in Txs PROVE Fate(s)'
  <2>1. CASE s = t
    <3>1. /\ Fate(t) /\ Tenure(t) /\ (Strayed(t)' <=> Strayed(t))
          /\ (Blamed(t)' <=> Blamed(t)) /\ (Clean(t)' <=> Clean(t)) /\ spoiled'[t] = spoiled[t]
      BY <1>0, SameOps DEF UInv, opVars
    <3>2. QED
      BY <2>1, <3>1 DEF UInv, TypeOK, Fate, Ended, Tenure, Holding
  <2>2. CASE s # t
    BY <1>0, <2>2, SameOps, SameFate DEF UInv, TypeOK, opVars
  <2>3. QED
    BY <2>1, <2>2
<1>6. QED
  BY <1>1, <1>2, <1>3, <1>4, <1>5 DEF UInv

LEMMA DrainKeeps ==
    ASSUME UInv, NEW t \in Txs, Drain(t)
    PROVE  UInv'
<1> USE DEF Drain, connVars, endVars
<1>0. UNCHANGED opVars
  BY DEF opVars
<1>1. TypeOK'
  BY DEF UInv, TypeOK, PC, opVars
<1>2. Exclusive'
  BY DEF UInv, TypeOK, Exclusive
<1>3. ASSUME NEW s \in Txs PROVE Tenure(s)'
  BY DEF UInv, TypeOK, Tenure, Holding
<1>4. ASSUME NEW s \in Txs PROVE InOrder(s)'
  <2>1. CASE s = t
    <3>1. \A i \in Ops : op[t][i] \notin {"queued", "running"} /\ i \notin late[t]
      BY DEF Quiet, UInv, InOrder
    <3>2. /\ op'[t] = op[t] /\ ranIn'[t] = ranIn[t] /\ late'[t] = late[t]
          /\ failure'[t] = failure[t] /\ pc'[t] = "closing" /\ InOrder(t)
      BY <1>0 DEF opVars, UInv, TypeOK
    <3>3. QED
      BY <2>1, <3>1, <3>2 DEF InOrder
  <2>2. CASE s # t
    BY <1>0, <2>2, SameOrder DEF UInv, TypeOK, opVars
  <2>3. QED
    BY <2>1, <2>2
<1>5. ASSUME NEW s \in Txs PROVE Fate(s)'
  <2>1. CASE s = t
    <3>1. ~failure[t] => Clean(t)
      <4> SUFFICES ASSUME ~failure[t], NEW i \in Ops PROVE op[t][i] \in {"unused", "ok"}
        BY DEF Clean
      <4>1. op[t][i] \in OpState /\ InOrder(t)
        BY DEF UInv, TypeOK
      <4>2. QED
        BY <4>1 DEF OpState, Quiet, InOrder
    <3>2. /\ pc[t] = "draining" /\ pc'[t] = "closing" /\ Fate(t)
          /\ doomed'[t] = (doomed[t] \/ failure[t])
      BY DEF UInv, TypeOK
    <3>3. (Blamed(t)' <=> Blamed(t)) /\ (Clean(t)' <=> Clean(t))
      BY <1>0, SameOps
    <3>4. UNCHANGED <<outcome, commitSent, spoiled, verdict, broken, aborted>>
      BY <1>0 DEF opVars
    <3>5. QED
      BY <2>1, <3>1, <3>2, <3>3, <3>4 DEF Fate
  <2>2. CASE s # t
    BY <1>0, <2>2, SameOps, SameFate DEF UInv, TypeOK, opVars
  <2>3. QED
    BY <2>1, <2>2
<1>6. QED
  BY <1>1, <1>2, <1>3, <1>4, <1>5 DEF UInv

LEMMA CloseKeeps ==
    ASSUME UInv, NEW t \in Txs, Close(t)
    PROVE  UInv'
<1> USE DEF Close, connVars, endVars
<1>0. UNCHANGED opVars
  BY DEF opVars
<1>1. TypeOK'
  BY DEF UInv, TypeOK, PC, opVars
<1>2. Exclusive'
  BY DEF UInv, TypeOK, Exclusive
<1>3. ASSUME NEW s \in Txs PROVE Tenure(s)'
  BY DEF UInv, TypeOK, Tenure, Holding
<1>4. ASSUME NEW s \in Txs PROVE InOrder(s)'
  <2>1. CASE s = t
    <3>1. /\ InOrder(t) /\ dead'[t] = dead[t] /\ failure'[t] = failure[t]
          /\ op'[t] = op[t] /\ ranIn'[t] = ranIn[t] /\ late'[t] = late[t]
      BY <1>0 DEF opVars, UInv
    <3>2. pc[t] = "closing" /\ pc'[t] \in {"committing", "rollingback"} /\ ~active'[t]
      BY DEF UInv, TypeOK
    <3>3. QED
      BY <2>1, <3>1, <3>2 DEF InOrder
  <2>2. CASE s # t
    BY <1>0, <2>2, SameOrder DEF UInv, TypeOK, opVars
  <2>3. QED
    BY <2>1, <2>2
<1>5. ASSUME NEW s \in Txs PROVE Fate(s)'
  <2>1. CASE s = t
    <3>1. /\ Fate(t) /\ Tenure(t) /\ (Strayed(t)' <=> Strayed(t))
          /\ (Blamed(t)' <=> Blamed(t)) /\ (Clean(t)' <=> Clean(t)) /\ spoiled'[t] = spoiled[t]
      BY <1>0, SameOps DEF UInv, opVars
    <3>2. QED
      BY <2>1, <3>1 DEF UInv, TypeOK, Fate, Ended, Tenure, Holding
  <2>2. CASE s # t
    BY <1>0, <2>2, SameOps, SameFate DEF UInv, TypeOK, opVars
  <2>3. QED
    BY <2>1, <2>2
<1>6. QED
  BY <1>1, <1>2, <1>3, <1>4, <1>5 DEF UInv

LEMMA CommitExecutesKeeps ==
    ASSUME UInv, NEW t \in Txs, CommitExecutes(t)
    PROVE  UInv'
<1> USE DEF CommitExecutes, connVars, endVars
<1>0. UNCHANGED opVars
  BY DEF opVars
<1>1. TypeOK'
  BY DEF UInv, TypeOK, opVars
<1>2. Exclusive'
  BY DEF UInv, TypeOK, Exclusive
<1>3. ASSUME NEW s \in Txs PROVE Tenure(s)'
  BY DEF UInv, TypeOK, Tenure, Holding
<1>4. ASSUME NEW s \in Txs PROVE InOrder(s)'
  BY <1>0, SameOrder DEF UInv, TypeOK, opVars
<1>5. ASSUME NEW s \in Txs PROVE Fate(s)'
  <2>1. CASE s = t
    <3>1. PICK o \in {"committed", "rolledback"} :
             /\ o = "committed" => ~spoiled[t]
             /\ o = "rolledback" => spoiled[t] \/ dead[t]
             /\ outcome' = [outcome EXCEPT ![t] = o]
      OBVIOUS
    <3>2. outcome'[t] = o /\ ~commitSent'[t]
      BY <3>1 DEF UInv, TypeOK
    <3>3. Fate(t) /\ Clean(t) /\ outcome[t] = "open" /\ (pc[t] = "committing" \/ dead[t])
      BY DEF UInv, Fate
    <3>4. spoiled[t] => Strayed(t)
      BY <3>3 DEF Fate, Blamed, Clean
    <3>5. pc[t] \notin {"idle", "working", "draining", "closing", "rollingback"}
      BY <3>3 DEF Fate
    <3>6. Ended(t)' \/ dead'[t]
      BY <1>0, <3>1, <3>2, <3>4, SameOps DEF Ended
    <3>7. Clean(t)' /\ (Blamed(t)' <=> Blamed(t)) /\ (Strayed(t)' <=> Strayed(t))
      BY <1>0, <3>3, SameOps
    <3>8. ~Ended(t)
      BY <3>3 DEF Ended
    <3>9. (pc[t] = "releasing" /\ doomed[t] => dead[t]) /\ pc[t] # "aftercommit"
      BY <3>3, <3>8 DEF Fate
    <3>10. pc[t] = "releasing" => doomed[t]
      BY <3>3, <3>8 DEF Fate
    <3>11. UNCHANGED <<pc, doomed, dead, spoiled, verdict, broken, aborted>>
      BY <1>0 DEF opVars
    <3>12. QED
      BY <2>1, <3>2, <3>3, <3>5, <3>6, <3>7, <3>9, <3>10, <3>11 DEF Fate
  <2>2. CASE s # t
    BY <1>0, <2>2, SameOps, SameFate DEF UInv, TypeOK, opVars
  <2>3. QED
    BY <2>1, <2>2
<1>6. QED
  BY <1>1, <1>2, <1>3, <1>4, <1>5 DEF UInv

LEMMA CommitAnswersKeeps ==
    ASSUME UInv, NEW t \in Txs, CommitAnswers(t)
    PROVE  UInv'
<1> USE DEF CommitAnswers, connVars, endVars
<1>0. UNCHANGED opVars
  BY DEF opVars
<1>1. TypeOK'
  BY DEF UInv, TypeOK, PC, opVars
<1>2. Exclusive'
  BY DEF UInv, TypeOK, Exclusive
<1>3. ASSUME NEW s \in Txs PROVE Tenure(s)'
  BY DEF UInv, TypeOK, Tenure, Holding
<1>4. ASSUME NEW s \in Txs PROVE InOrder(s)'
  <2>1. CASE s = t
    <3>1. /\ InOrder(t) /\ dead'[t] = dead[t] /\ failure'[t] = failure[t]
          /\ op'[t] = op[t] /\ ranIn'[t] = ranIn[t] /\ late'[t] = late[t]
      BY <1>0 DEF opVars, UInv
    <3>2. pc[t] = "committing" /\ pc'[t] = "releasing" /\ active'[t] = active[t]
      BY DEF UInv, TypeOK
    <3>3. QED
      BY <2>1, <3>1, <3>2 DEF InOrder
  <2>2. CASE s # t
    BY <1>0, <2>2, SameOrder DEF UInv, TypeOK, opVars
  <2>3. QED
    BY <2>1, <2>2
<1>5. ASSUME NEW s \in Txs PROVE Fate(s)'
  <2>1. CASE s = t
    <3>1. /\ Fate(t) /\ Tenure(t) /\ (Strayed(t)' <=> Strayed(t))
          /\ (Blamed(t)' <=> Blamed(t)) /\ (Clean(t)' <=> Clean(t)) /\ spoiled'[t] = spoiled[t]
      BY <1>0, SameOps DEF UInv, opVars
    <3>2. QED
      BY <2>1, <3>1 DEF UInv, TypeOK, Fate, Ended, Tenure, Holding
  <2>2. CASE s # t
    BY <1>0, <2>2, SameOps, SameFate DEF UInv, TypeOK, opVars
  <2>3. QED
    BY <2>1, <2>2
<1>6. QED
  BY <1>1, <1>2, <1>3, <1>4, <1>5 DEF UInv

LEMMA RollbackKeeps ==
    ASSUME UInv, NEW t \in Txs, Rollback(t)
    PROVE  UInv'
<1> USE DEF Rollback, connVars, endVars
<1>0. UNCHANGED opVars
  BY DEF opVars
<1>1. TypeOK'
  BY DEF UInv, TypeOK, PC, opVars
<1>2. Exclusive'
  BY DEF UInv, TypeOK, Exclusive
<1>3. ASSUME NEW s \in Txs PROVE Tenure(s)'
  BY DEF UInv, TypeOK, Tenure, Holding
<1>4. ASSUME NEW s \in Txs PROVE InOrder(s)'
  <2>1. CASE s = t
    <3>1. /\ InOrder(t) /\ dead'[t] = dead[t] /\ failure'[t] = failure[t]
          /\ op'[t] = op[t] /\ ranIn'[t] = ranIn[t] /\ late'[t] = late[t]
      BY <1>0 DEF opVars, UInv
    <3>2. pc[t] = "rollingback" /\ pc'[t] = "releasing" /\ active'[t] = active[t]
      BY DEF UInv, TypeOK
    <3>3. QED
      BY <2>1, <3>1, <3>2 DEF InOrder
  <2>2. CASE s # t
    BY <1>0, <2>2, SameOrder DEF UInv, TypeOK, opVars
  <2>3. QED
    BY <2>1, <2>2
<1>5. ASSUME NEW s \in Txs PROVE Fate(s)'
  <2>1. CASE s = t
    <3>1. /\ Fate(t) /\ Tenure(t) /\ (Strayed(t)' <=> Strayed(t))
          /\ (Blamed(t)' <=> Blamed(t)) /\ (Clean(t)' <=> Clean(t)) /\ spoiled'[t] = spoiled[t]
      BY <1>0, SameOps DEF UInv, opVars
    <3>2. QED
      BY <2>1, <3>1 DEF UInv, TypeOK, Fate, Ended, Tenure, Holding
  <2>2. CASE s # t
    BY <1>0, <2>2, SameOps, SameFate DEF UInv, TypeOK, opVars
  <2>3. QED
    BY <2>1, <2>2
<1>6. QED
  BY <1>1, <1>2, <1>3, <1>4, <1>5 DEF UInv

LEMMA ReleaseClientKeeps ==
    ASSUME UInv, NEW t \in Txs, ReleaseClient(t)
    PROVE  UInv'
<1> USE DEF ReleaseClient, connVars, endVars
<1>0. UNCHANGED opVars
  BY DEF opVars
<1>1. TypeOK'
  BY DEF UInv, TypeOK, PC, opVars
<1>2. Exclusive'
  BY DEF UInv, TypeOK, Exclusive
<1>3. ASSUME NEW s \in Txs PROVE Tenure(s)'
  BY DEF UInv, TypeOK, Tenure, Holding
<1>4. ASSUME NEW s \in Txs PROVE InOrder(s)'
  <2>1. CASE s = t
    <3>1. /\ InOrder(t) /\ dead'[t] = dead[t] /\ failure'[t] = failure[t]
          /\ op'[t] = op[t] /\ ranIn'[t] = ranIn[t] /\ late'[t] = late[t]
      BY <1>0 DEF opVars, UInv
    <3>2. pc[t] = "releasing" /\ pc'[t] \in {"reported", "aftercommit"} /\ active'[t] = active[t]
      BY DEF UInv, TypeOK
    <3>3. QED
      BY <2>1, <3>1, <3>2 DEF InOrder
  <2>2. CASE s # t
    BY <1>0, <2>2, SameOrder DEF UInv, TypeOK, opVars
  <2>3. QED
    BY <2>1, <2>2
<1>5. ASSUME NEW s \in Txs PROVE Fate(s)'
  <2>1. CASE s = t
    <3>1. /\ Fate(t) /\ Tenure(t) /\ (Strayed(t)' <=> Strayed(t))
          /\ (Blamed(t)' <=> Blamed(t)) /\ (Clean(t)' <=> Clean(t)) /\ spoiled'[t] = spoiled[t]
      BY <1>0, SameOps DEF UInv, opVars
    <3>2. QED
      BY <2>1, <3>1 DEF UInv, TypeOK, Fate, Ended, Tenure, Holding
  <2>2. CASE s # t
    BY <1>0, <2>2, SameOps, SameFate DEF UInv, TypeOK, opVars
  <2>3. QED
    BY <2>1, <2>2
<1>6. QED
  BY <1>1, <1>2, <1>3, <1>4, <1>5 DEF UInv

LEMMA RunCallbackKeeps ==
    ASSUME UInv, NEW t \in Txs, RunCallback(t)
    PROVE  UInv'
<1> USE DEF RunCallback, connVars, endVars
<1>0. UNCHANGED opVars
  BY DEF opVars
<1>1. TypeOK'
  BY BoundsAssumption DEF UInv, TypeOK, PC, opVars
<1>2. Exclusive'
  BY DEF UInv, TypeOK, Exclusive
<1>3. ASSUME NEW s \in Txs PROVE Tenure(s)'
  BY DEF UInv, TypeOK, Tenure, Holding
<1>4. ASSUME NEW s \in Txs PROVE InOrder(s)'
  BY <1>0, SameOrder DEF UInv, TypeOK, opVars
<1>5. ASSUME NEW s \in Txs PROVE Fate(s)'
  <2>1. CASE s = t
    <3>1. /\ Fate(t) /\ Tenure(t) /\ (Strayed(t)' <=> Strayed(t))
          /\ (Blamed(t)' <=> Blamed(t)) /\ (Clean(t)' <=> Clean(t)) /\ spoiled'[t] = spoiled[t]
      BY <1>0, SameOps DEF UInv, opVars
    <3>2. QED
      BY <2>1, <3>1 DEF UInv, TypeOK, Fate, Ended, Tenure, Holding
  <2>2. CASE s # t
    BY <1>0, <2>2, SameOps, SameFate DEF UInv, TypeOK, opVars
  <2>3. QED
    BY <2>1, <2>2
<1>6. QED
  BY <1>1, <1>2, <1>3, <1>4, <1>5 DEF UInv

LEMMA ReportKeeps ==
    ASSUME UInv, NEW t \in Txs, Report(t)
    PROVE  UInv'
<1> USE DEF Report, connVars, endVars
<1>0. UNCHANGED opVars
  BY DEF opVars
<1>1. TypeOK'
  BY DEF UInv, TypeOK, PC, opVars
<1>2. Exclusive'
  BY DEF UInv, TypeOK, Exclusive
<1>3. ASSUME NEW s \in Txs PROVE Tenure(s)'
  BY DEF UInv, TypeOK, Tenure, Holding
<1>4. ASSUME NEW s \in Txs PROVE InOrder(s)'
  <2>1. CASE s = t
    <3>1. /\ InOrder(t) /\ dead'[t] = dead[t] /\ failure'[t] = failure[t]
          /\ op'[t] = op[t] /\ ranIn'[t] = ranIn[t] /\ late'[t] = late[t]
      BY <1>0 DEF opVars, UInv
    <3>2. pc[t] = "aftercommit" /\ pc'[t] = "reported" /\ active'[t] = active[t]
      BY DEF UInv, TypeOK
    <3>3. QED
      BY <2>1, <3>1, <3>2 DEF InOrder
  <2>2. CASE s # t
    BY <1>0, <2>2, SameOrder DEF UInv, TypeOK, opVars
  <2>3. QED
    BY <2>1, <2>2
<1>5. ASSUME NEW s \in Txs PROVE Fate(s)'
  <2>1. CASE s = t
    <3>1. /\ Fate(t) /\ Tenure(t) /\ (Strayed(t)' <=> Strayed(t))
          /\ (Blamed(t)' <=> Blamed(t)) /\ (Clean(t)' <=> Clean(t)) /\ spoiled'[t] = spoiled[t]
      BY <1>0, SameOps DEF UInv, opVars
    <3>2. QED
      BY <2>1, <3>1 DEF UInv, TypeOK, Fate, Ended, Tenure, Holding
  <2>2. CASE s # t
    BY <1>0, <2>2, SameOps, SameFate DEF UInv, TypeOK, opVars
  <2>3. QED
    BY <2>1, <2>2
<1>6. QED
  BY <1>1, <1>2, <1>3, <1>4, <1>5 DEF UInv

LEMMA AbortKeeps ==
    ASSUME UInv, NEW t \in Txs, Abort(t)
    PROVE  UInv'
<1> USE DEF Abort, connVars, endVars
<1>0. UNCHANGED opVars
  BY DEF opVars
<1>1. TypeOK'
  BY DEF UInv, TypeOK, PC, opVars
<1>2. Exclusive'
  BY DEF UInv, TypeOK, Exclusive
<1>3. ASSUME NEW s \in Txs PROVE Tenure(s)'
  BY DEF UInv, TypeOK, Tenure, Holding, Listening
<1>4. ASSUME NEW s \in Txs PROVE InOrder(s)'
  <2>1. CASE s = t
    <3>1. /\ InOrder(t) /\ dead'[t] = dead[t] /\ failure'[t] = failure[t]
          /\ op'[t] = op[t] /\ ranIn'[t] = ranIn[t] /\ late'[t] = late[t]
      BY <1>0 DEF opVars, UInv
    <3>2. /\ \/ pc'[t] = pc[t]
             \/ pc[t] = "working" /\ pc'[t] = "draining"
          /\ active'[t] => active[t]
      BY DEF UInv, TypeOK
    <3>3. QED
      BY <2>1, <3>1, <3>2 DEF InOrder
  <2>2. CASE s # t
    BY <1>0, <2>2, SameOrder DEF UInv, TypeOK, opVars
  <2>3. QED
    BY <2>1, <2>2
<1>5. ASSUME NEW s \in Txs PROVE Fate(s)'
  <2>1. CASE s = t
    <3>1. /\ Fate(t) /\ Tenure(t) /\ (Strayed(t)' <=> Strayed(t))
          /\ (Blamed(t)' <=> Blamed(t)) /\ (Clean(t)' <=> Clean(t)) /\ spoiled'[t] = spoiled[t]
      BY <1>0, SameOps DEF UInv, opVars
    <3>2. QED
      BY <2>1, <3>1 DEF UInv, TypeOK, Fate, Ended, Tenure, Holding
  <2>2. CASE s # t
    BY <1>0, <2>2, SameOps, SameFate DEF UInv, TypeOK, opVars
  <2>3. QED
    BY <2>1, <2>2
<1>6. QED
  BY <1>1, <1>2, <1>3, <1>4, <1>5 DEF UInv

-----------------------------------------------------------------------------
(* A statement that runs answers or is cancelled.                          *)
LEMMA OpEnds ==
    ASSUME UInv, NEW s \in Txs, NEW i \in Ops, op[s][i] = "running",
           NEW result \in {"ok", "failed"},
           op' = [op EXCEPT ![s] = [@ EXCEPT ![i] = result]],
           failure' = [failure EXCEPT ![s] = (result = "failed")],
           spoiled' = spoiled \/ (result = "failed" /\ Spoils(ranIn[s][i])),
           UNCHANGED <<pc, connVars, active, ranIn, late, commitSent, outcome, doomed,
                       aborted, broken, verdict>>
    PROVE  /\ op' \in [Txs -> [Ops -> OpState]]
           /\ failure' \in [Txs -> BOOLEAN]
           /\ spoiled' \in [Txs -> BOOLEAN]
           /\ \A r \in Txs : InOrder(r)' /\ Fate(r)'
<1>1. \A j \in Ops : op'[s][j] = IF j = i THEN result ELSE op[s][j]
  BY DEF UInv, TypeOK
<1>2. \A r \in Txs : r # s => op'[r] = op[r] /\ failure'[r] = failure[r]
  BY DEF UInv, TypeOK
<1>3. failure'[s] <=> result = "failed"
  BY DEF UInv, TypeOK
<1>4. op' \in [Txs -> [Ops -> OpState]] /\ failure' \in [Txs -> BOOLEAN]
  BY DEF UInv, TypeOK, OpState
<1>5. spoiled' \in [Txs -> BOOLEAN]
  BY DEF Spoils, UInv, TypeOK
<1>6. ASSUME NEW r \in Txs PROVE Strayed(r)' <=> Strayed(r)
  BY DEF Strayed
<1>7. ASSUME NEW r \in Txs PROVE Blamed(r) => Blamed(r)'
  BY <1>1, <1>2, <1>6 DEF Blamed
<1>8. ASSUME NEW r \in Txs PROVE Clean(r) => Clean(r)'
  BY <1>1, <1>2 DEF Clean
<1>9. ASSUME NEW r \in Txs, spoiled'[r] PROVE Blamed(r)'
  <2>1. CASE spoiled[r]
    BY <1>7, <2>1 DEF UInv, Fate
  <2>2. CASE ~spoiled[r]
    <3>1. result = "failed" /\ r = ranIn[s][i]
      BY <1>9, <2>2 DEF Spoils, UInv, TypeOK
    <3>2. CASE i \in late[s]
      <4>1. Strayed(r)
        BY <3>1, <3>2 DEF Strayed
      <4>2. QED
        BY <1>6, <4>1 DEF Blamed
    <3>3. CASE i \notin late[s]
      <4>1. r = s
        BY <3>1, <3>3 DEF UInv, InOrder
      <4>2. op'[s][i] = "failed" /\ i \in Ops \ late'[s]
        BY <1>1, <3>1, <3>3
      <4>3. QED
        BY <4>1, <4>2 DEF Blamed
    <3>4. QED
      BY <3>2, <3>3
  <2>3. QED
    BY <2>1, <2>2
<1>10. InOrder(s)'
  <2>1. InOrder(s)
    BY DEF UInv
  <2>2. \A j, k \in Ops : j < k =>
           /\ op'[s][j] = "unused" => op'[s][k] = "unused"
           /\ op'[s][j] \in {"queued", "running"} => op'[s][k] \in {"unused", "queued"}
    BY <1>1, <2>1 DEF InOrder, Ops
  <2>3. \A j \in Ops : j # i => op[s][j] \notin {"running", "failed", "skipped"}
    BY <2>1 DEF InOrder, Ops
  <2>4. \A j \in Ops :
           /\ op'[s][j] \in {"unused", "queued"} => ranIn[s][j] = Elsewhere
           /\ op'[s][j] # "running"
           /\ op'[s][j] \in {"failed", "skipped"} => failure'[s]
           /\ j \in late[s] => op'[s][j] # "unused" /\ pc[s] \notin {"idle", "working", "draining"}
    BY <1>1, <1>3, <2>1, <2>3 DEF InOrder
  <2>5. \A j \in Ops \ late[s] :
           /\ op'[s][j] = "ok" => ranIn[s][j] = s
           /\ op'[s][j] = "queued" => pc[s] \in {"working", "draining"}
    BY <1>1, <2>1 DEF InOrder
  <2>6. QED
    BY <2>1, <2>2, <2>4, <2>5 DEF InOrder
<1>11. ASSUME NEW r \in Txs PROVE InOrder(r)' /\ Fate(r)'
  <2>1. Fate(r)'
    BY <1>6, <1>8, <1>9, FateStays DEF UInv, connVars
  <2>2. InOrder(r)'
    BY <1>2, <1>10, SameOrder DEF UInv, connVars
  <2>3. QED
    BY <2>1, <2>2
<1>12. QED
  BY <1>4, <1>5, <1>11

LEMMA FinishKeeps ==
    ASSUME UInv, NEW t \in Txs, NEW i \in Ops, Finish(t, i)
    PROVE  UInv'
<1>1. PICK result \in {"ok", "failed"} :
         /\ op' = [op EXCEPT ![t] = [@ EXCEPT ![i] = result]]
         /\ failure' = [failure EXCEPT ![t] = (result = "failed")]
         /\ \/ result = "failed" /\ Spoils(ranIn[t][i])
            \/ UNCHANGED spoiled
  BY DEF Finish
<1>2. /\ UNCHANGED <<pc, connVars, active, ranIn, late, doomed, aborted, endVars>>
      /\ op[t][i] = "running"
  BY DEF Finish
<1>3. /\ op' \in [Txs -> [Ops -> OpState]]
      /\ failure' \in [Txs -> BOOLEAN]
      /\ spoiled' \in [Txs -> BOOLEAN]
      /\ \A r \in Txs : InOrder(r)' /\ Fate(r)'
  BY <1>1, <1>2, OpEnds DEF endVars
<1>4. TypeOK'
  BY <1>2, <1>3 DEF UInv, TypeOK, connVars, endVars
<1>5. Exclusive' /\ \A s \in Txs : Tenure(s)'
  BY <1>2 DEF UInv, Exclusive, Tenure, connVars
<1>6. QED
  BY <1>3, <1>4, <1>5 DEF UInv

(* The backend a cancel request names still serves its own transaction.    *)
LEMMA CancelHitsOwn ==
    ASSUME UInv, NEW t \in Txs, NEW s \in Txs, cancel[t] = "sent", holds[s], conn[s] = conn[t]
    PROVE  s = t
BY DEF UInv, Exclusive, Tenure

LEMMA CancelHitsKeeps ==
    ASSUME UInv, NEW t \in Txs, CancelHits(t)
    PROVE  UInv'
<1>1. UNCHANGED <<connVars, active, ranIn, late, aborted, outcome, left, broken, verdict>>
  BY DEF CancelHits
<1>2. Exclusive'
  BY <1>1 DEF UInv, Exclusive, connVars
<1>3. ASSUME NEW s \in Txs, NEW i \in Ops, op[s][i] = "running",
             op' = [op EXCEPT ![s] = [@ EXCEPT ![i] = "failed"]],
             failure' = [failure EXCEPT ![s] = TRUE],
             Spoils(ranIn[s][i]),
             UNCHANGED <<pc, commitSent, doomed>>
      PROVE  UInv'
  <2>1. failure' = [failure EXCEPT ![s] = ("failed" = "failed")]
    BY <1>3
  <2>2. /\ op' \in [Txs -> [Ops -> OpState]]
        /\ failure' \in [Txs -> BOOLEAN]
        /\ spoiled' \in [Txs -> BOOLEAN]
        /\ \A r \in Txs : InOrder(r)' /\ Fate(r)'
    BY <1>1, <1>3, <2>1, OpEnds
  <2>3. TypeOK'
    BY <1>1, <1>3, <2>2 DEF UInv, TypeOK, connVars
  <2>4. \A r \in Txs : Tenure(r)'
    BY <1>1, <1>3 DEF UInv, Tenure, connVars
  <2>5. QED
    BY <1>2, <2>2, <2>3, <2>4 DEF UInv
<1>4. ASSUME commitSent[t], holds[t],
             commitSent' = [commitSent EXCEPT ![t] = FALSE],
             pc' = [pc EXCEPT ![t] = "rollingback"],
             doomed' = [doomed EXCEPT ![t] = TRUE],
             UNCHANGED <<op, failure, spoiled>>
      PROVE  UInv'
  <2>1. pc[t] = "committing" /\ outcome[t] = "open"
    BY <1>4 DEF UInv, Fate, Tenure
  <2>2. pc'[t] = "rollingback" /\ ~commitSent'[t] /\ doomed'[t]
    BY <1>4 DEF UInv, TypeOK
  <2>3. UNCHANGED opVars
    BY <1>1, <1>4 DEF opVars
  <2>4. TypeOK'
    BY <1>1, <1>4 DEF UInv, TypeOK, PC, connVars
  <2>5. Tenure(t)'
    BY <1>1, <1>4, <2>2 DEF UInv, Tenure, Holding, connVars
  <2>6. InOrder(t)'
    <3>1. InOrder(t)
      BY DEF UInv
    <3>2. QED
      BY <1>1, <1>4, <2>1, <2>2, <3>1 DEF InOrder, connVars
  <2>7. Fate(t)'
    <3>1. Fate(t) /\ (Blamed(t)' <=> Blamed(t))
      BY <2>3, SameOps DEF UInv
    <3>2. QED
      BY <1>1, <1>4, <2>1, <2>2, <3>1 DEF Fate
  <2>8. ASSUME NEW s \in Txs, s # t PROVE Tenure(s)' /\ InOrder(s)' /\ Fate(s)'
    <3>1. pc'[s] = pc[s] /\ commitSent'[s] = commitSent[s] /\ doomed'[s] = doomed[s]
      BY <1>4, <2>8 DEF UInv, TypeOK
    <3>2. Tenure(s)'
      BY <1>1, <3>1 DEF UInv, Tenure, connVars
    <3>3. InOrder(s)' /\ Fate(s)'
      BY <1>1, <2>3, <3>1, SameOps, SameOrder, SameFate DEF UInv, connVars, opVars
    <3>4. QED
      BY <3>2, <3>3
  <2>9. QED
    BY <1>2, <2>4, <2>5, <2>6, <2>7, <2>8 DEF UInv
<1>5. QED
  BY <1>3, <1>4, CancelHitsOwn DEF CancelHits

LEMMA CancelEndsKeeps ==
    ASSUME UInv, NEW t \in Txs, CancelEnds(t)
    PROVE  UInv'
<1>1. /\ cancel[t] = "sent" /\ holds[t]
      /\ cancel' = [cancel EXCEPT ![t] = "done"]
      /\ holds' = [holds EXCEPT ![t] = FALSE]
      /\ UNCHANGED <<pc, conn, active, ranIn, late, doomed, spoiled, aborted, endVars>>
  BY DEF CancelEnds, UInv, Tenure
<1>2. /\ dead' \in [Txs -> BOOLEAN]
      /\ \A s \in Txs : dead'[s] <=> dead[s] \/ s \in Clients(t)
  BY DEF CancelEnds, UInv, TypeOK
<1>3. /\ op' \in [Txs -> [Ops -> OpState]]
      /\ \A s \in Txs : \A i \in Ops :
            op'[s][i] = IF op[s][i] = "running" /\ s \in Clients(t) THEN "failed" ELSE op[s][i]
  BY DEF CancelEnds, UInv, TypeOK, OpState
<1>4. /\ failure' \in [Txs -> BOOLEAN]
      /\ \A s \in Txs : failure'[s] <=>
            failure[s] \/ (s \in Clients(t) /\ \E i \in Ops : op[s][i] = "running")
  BY DEF CancelEnds, UInv, TypeOK
<1>5. TypeOK'
  BY <1>1, <1>2, <1>3, <1>4 DEF UInv, TypeOK, endVars
<1>6. Exclusive'
  BY <1>1 DEF UInv, TypeOK, Exclusive
<1>7. ASSUME NEW s \in Txs PROVE Tenure(s)'
  <2>1. CASE s = t
    <3>1. Tenure(t) /\ pc'[t] = pc[t] /\ aborted'[t] = aborted[t]
      BY <1>1 DEF UInv
    <3>2. ~holds'[t] /\ cancel'[t] = "done"
      BY <1>1 DEF UInv, TypeOK
    <3>3. pc[t] # "idle" /\ dead'[t]
      BY <1>1, <1>2, <3>1 DEF Tenure, Clients
    <3>4. QED
      BY <1>1, <2>1, <3>1, <3>2, <3>3 DEF Tenure
  <2>2. CASE s # t
    <3>1. holds'[s] = holds[s] /\ cancel'[s] = cancel[s]
      BY <1>1, <2>2 DEF UInv, TypeOK
    <3>2. s \in Clients(t) =>
             ~holds[s] /\ (dead[s] \/ pc[s] \in {"aftercommit", "reported"})
      BY <1>1, <2>2, CancelHitsOwn DEF Clients, UInv, TypeOK, PC, Tenure, Holding
    <3>3. QED
      BY <1>1, <1>2, <3>1, <3>2 DEF UInv, Tenure
  <2>3. QED
    BY <2>1, <2>2
<1>8. ASSUME NEW s \in Txs PROVE InOrder(s)'
  <2>1. InOrder(s)
    BY DEF UInv
  <2>2. \A i, j \in Ops : i < j =>
           /\ op'[s][i] = "unused" => op'[s][j] = "unused"
           /\ op'[s][i] \in {"queued", "running"} => op'[s][j] \in {"unused", "queued"}
    BY <1>3, <2>1 DEF InOrder
  <2>3. ASSUME NEW i \in Ops
        PROVE  /\ op'[s][i] \in {"unused", "queued"} => ranIn[s][i] = Elsewhere
               /\ op'[s][i] = "running" => ~failure'[s] /\ ~dead'[s]
               /\ op'[s][i] \in {"failed", "skipped"} => failure'[s]
               /\ i \in late[s] => op'[s][i] # "unused"
                                   /\ pc[s] \notin {"idle", "working", "draining"}
    <3>1. CASE op[s][i] = "running" /\ s \in Clients(t)
      <4>1. op'[s][i] = "failed"
        BY <1>3, <3>1
      <4>2. failure'[s]
        BY <1>4, <3>1, Zenon
      <4>3. QED
        BY <2>1, <4>1, <4>2 DEF InOrder
    <3>2. CASE ~(op[s][i] = "running" /\ s \in Clients(t))
      <4>1. op'[s][i] = op[s][i]
        BY <1>3, <3>2
      <4>2. failure[s] => failure'[s]
        BY <1>4, Zenon
      <4>3. s \notin Clients(t) => (failure'[s] <=> failure[s]) /\ (dead'[s] <=> dead[s])
        BY <1>2, <1>4, Zenon
      <4>4. QED
        BY <2>1, <3>2, <4>1, <4>2, <4>3 DEF InOrder
    <3>3. QED
      BY <3>1, <3>2
  <2>4. \A i \in Ops \ late[s] :
           /\ op'[s][i] \in {"running", "ok"} => ranIn[s][i] = s
           /\ op'[s][i] \in {"queued", "running"} => pc[s] \in {"working", "draining"}
    BY <1>3, <2>1 DEF InOrder
  <2>5. QED
    BY <1>1, <2>1, <2>2, <2>3, <2>4 DEF InOrder
<1>9. ASSUME NEW s \in Txs PROVE Fate(s)'
  <2>1. Strayed(s)' <=> Strayed(s)
    BY <1>1 DEF Strayed
  <2>2. (Blamed(s) => Blamed(s)') /\ (Clean(s) => Clean(s)')
    BY <1>1, <1>3, <2>1 DEF Blamed, Clean
  <2>3. spoiled'[s] => Blamed(s)'
    BY <1>1, <2>2 DEF UInv, Fate
  <2>4. dead[s] => dead'[s]
    BY <1>2
  <2>5. QED
    BY <1>1, <2>1, <2>2, <2>3, <2>4, FateStays DEF UInv, endVars
<1>10. QED
  BY <1>5, <1>6, <1>7, <1>8, <1>9 DEF UInv

(* Until its queue is drained a statement runs in its own transaction.     *)
LEMMA HostIsOwn ==
    ASSUME UInv, NEW t \in Txs, pc[t] \in {"working", "draining"}, ~dead[t]
    PROVE  Host(t) = t
<1>1. holds[t] /\ Serves(t, t)
  BY DEF Serves, UInv, Tenure, Holding
<1>2. PICK s \in Txs : Serves(s, t) /\ Host(t) = s
  <2>1. Host(t) = CHOOSE s \in Txs : Serves(s, t)
    BY <1>1, Zenon DEF Host
  <2>2. (CHOOSE s \in Txs : Serves(s, t)) \in Txs /\ Serves(CHOOSE s \in Txs : Serves(s, t), t)
    BY <1>1, Zenon
  <2>3. QED
    BY <2>1, <2>2
<1>3. QED
  BY <1>1, <1>2 DEF Serves, UInv, Exclusive

LEMMA HostTyped ==
    ASSUME NEW t \in Txs
    PROVE  Host(t) \in Txs \cup {Elsewhere}
<1>1. CASE \E s \in Txs : Serves(s, t)
  <2>1. (CHOOSE s \in Txs : Serves(s, t)) \in Txs
    BY <1>1, Zenon
  <2>2. QED
    BY <1>1, <2>1, Zenon DEF Host
<1>2. CASE ~\E s \in Txs : Serves(s, t)
  BY <1>2, Zenon DEF Host
<1>3. QED
  BY <1>1, <1>2

LEMMA StartKeeps ==
    ASSUME UInv, NEW t \in Txs, NEW i \in Ops, Start(t, i)
    PROVE  UInv'
<1> DEFINE new == IF failure[t] THEN "skipped" ELSE IF dead[t] THEN "failed" ELSE "running"
           host == IF failure[t] \/ dead[t] THEN Elsewhere ELSE Host(t)
<1>1. new \in OpState /\ host \in Txs \cup {Elsewhere}
  BY HostTyped DEF OpState
<1>2. /\ op' = [op EXCEPT ![t] = [@ EXCEPT ![i] = new]]
      /\ ranIn' = [ranIn EXCEPT ![t] = [@ EXCEPT ![i] = host]]
      /\ failure' = [failure EXCEPT ![t] = failure[t] \/ dead[t]]
      /\ UNCHANGED <<pc, connVars, active, late, doomed, spoiled, aborted, endVars>>
  BY DEF Start
<1>3. i \notin late[t] /\ new = "running" => host = t
  BY HostIsOwn DEF Start, AtHead, UInv, InOrder
<1>4. /\ new = "running" => ~failure[t] /\ ~dead[t]
      /\ new \in {"running", "failed", "skipped"}
      /\ new \in {"failed", "skipped"} => failure[t] \/ dead[t]
  OBVIOUS
<1> HIDE DEF new, host
<1>5. \A j \in Ops : /\ op'[t][j] = IF j = i THEN new ELSE op[t][j]
                     /\ ranIn'[t][j] = IF j = i THEN host ELSE ranIn[t][j]
  BY <1>2 DEF UInv, TypeOK
<1>6. \A s \in Txs : s # t => op'[s] = op[s] /\ ranIn'[s] = ranIn[s] /\ failure'[s] = failure[s]
  BY <1>2 DEF UInv, TypeOK
<1>7. failure'[t] <=> failure[t] \/ dead[t]
  BY <1>2 DEF UInv, TypeOK
<1>8. /\ op[t][i] = "queued" /\ ranIn[t][i] = Elsewhere
      /\ \A j \in Ops : j < i => op[t][j] \notin {"queued", "running"}
  BY DEF Start, AtHead, UInv, InOrder, Ops
<1>9. TypeOK'
  BY <1>1, <1>2 DEF UInv, TypeOK, connVars, endVars
<1>10. Exclusive' /\ \A s \in Txs : Tenure(s)'
  BY <1>2 DEF UInv, Exclusive, Tenure, connVars
<1>11. InOrder(t)'
  <2>1. InOrder(t)
    BY DEF UInv
  <2>2. \A j, k \in Ops : j < k =>
           /\ op'[t][j] = "unused" => op'[t][k] = "unused"
           /\ op'[t][j] \in {"queued", "running"} => op'[t][k] \in {"unused", "queued"}
    BY <1>4, <1>5, <1>8, <2>1 DEF InOrder, Ops
  <2>3. \A j \in Ops : op[t][j] # "running"
    BY <1>8, <2>1 DEF InOrder, Ops
  <2>4. \A j \in Ops :
           /\ op'[t][j] \in {"unused", "queued"} => ranIn'[t][j] = Elsewhere
           /\ op'[t][j] = "running" => ~failure'[t] /\ ~dead[t]
           /\ op'[t][j] \in {"failed", "skipped"} => failure'[t]
           /\ j \in late[t] => op'[t][j] # "unused" /\ pc[t] \notin {"idle", "working", "draining"}
    BY <1>4, <1>5, <1>7, <1>8, <2>1, <2>3 DEF InOrder
  <2>5. \A j \in Ops \ late[t] :
           /\ op'[t][j] \in {"running", "ok"} => ranIn'[t][j] = t
           /\ op'[t][j] \in {"queued", "running"} => pc[t] \in {"working", "draining"}
    BY <1>3, <1>4, <1>5, <1>8, <2>1, <2>3 DEF InOrder
  <2>6. QED
    BY <1>2, <2>1, <2>2, <2>4, <2>5 DEF InOrder, connVars
<1>12. ASSUME NEW s \in Txs PROVE Strayed(s) => Strayed(s)'
  BY <1>2, <1>5, <1>6, <1>8, StrayedStays
<1>13. Fate(t)'
  <2>1. Blamed(t) => Blamed(t)'
    BY <1>2, <1>5, <1>8, <1>12 DEF Blamed
  <2>2. Clean(t) => Clean(t)'
    BY <1>2, <1>5, <1>8 DEF Clean
  <2>3. QED
    BY <1>2, <1>12, <2>1, <2>2, FateStays DEF UInv, Fate, connVars, endVars
<1>14. ASSUME NEW s \in Txs, s # t PROVE InOrder(s)' /\ Fate(s)'
  BY <1>2, <1>6, <1>12, <1>14, SameOrder, SameFate DEF UInv, connVars, endVars
<1>15. QED
  BY <1>9, <1>10, <1>11, <1>13, <1>14 DEF UInv

-----------------------------------------------------------------------------
LEMMA UInvNext == UInv /\ [Next]_vars => UInv'
<1> SUFFICES ASSUME UInv, [Next]_vars PROVE UInv'
  OBVIOUS
<1>1. CASE UNCHANGED vars
  <2>1. /\ UNCHANGED <<pc, connVars, active, doomed, aborted, endVars>>
        /\ UNCHANGED opVars
    BY <1>1 DEF vars
  <2>2. TypeOK'
    BY <2>1 DEF UInv, TypeOK, connVars, opVars, endVars
  <2>3. Exclusive' /\ \A s \in Txs : Tenure(s)'
    BY <2>1 DEF UInv, Exclusive, Tenure, connVars
  <2>4. ASSUME NEW s \in Txs PROVE InOrder(s)' /\ Fate(s)'
    BY <2>1, SameOps, SameOrder, SameFate DEF UInv, connVars, opVars, endVars
  <2>5. QED
    BY <2>2, <2>3, <2>4 DEF UInv
<1>2. ASSUME NEW t \in Txs, Settle(t) PROVE UInv'
  BY <1>2, StartKeeps, DrainKeeps, CloseKeeps, CommitExecutesKeeps, CommitAnswersKeeps,
     RollbackKeeps, ReleaseClientKeeps, CancelEndsKeeps DEF Settle
<1>3. CASE Next
  BY <1>2, <1>3, BeginKeeps, IssueKeeps, AfterCommitKeeps, HandlerSettlesKeeps, FinishKeeps,
     RunCallbackKeeps, ReportKeeps, AbortKeeps, CancelHitsKeeps DEF Next
<1>4. QED
  BY <1>1, <1>3

LEMMA UInvHolds == Spec => []UInv
BY UInvInit, UInvNext, PTL DEF Spec

(* The operations a transaction waits for share its fate, whatever the     *)
(* handler swallows and whoever is cancelled (PostgresOperationQueue).     *)
THEOREM FateIsShared == Spec => []OperationsShareFate
<1>1. UInv => OperationsShareFate
  <2> SUFFICES ASSUME UInv, NEW t \in Txs, NEW i \in Ops \ late[t]
               PROVE  /\ op[t][i] = "ok" => ranIn[t][i] = t
                      /\ outcome[t] = "committed" => op[t][i] \in {"unused", "ok"}
    BY DEF OperationsShareFate
  <2>1. InOrder(t) /\ Fate(t)
    BY DEF UInv
  <2>2. QED
    BY <2>1 DEF InOrder, Fate, Clean
<1>2. QED
  BY <1>1, UInvHolds, PTL

(* A cancel request finds its own transaction, or none: the client is kept *)
(* out of the pool until cancellationWork has ended.                       *)
THEOREM CancelsAreOwn == Spec => []NoForeignCancel
<1>1. UInv => NoForeignCancel
  BY CancelHitsOwn DEF NoForeignCancel
<1>2. QED
  BY <1>1, UInvHolds, PTL

(* A failure means a rollback, but for a callback that threw and for an    *)
(* attempt that was aborted (transactionFailure, releaseAfterCommit).      *)
THEOREM FailuresRollBack == Spec => []FailureMeansRollback
<1>1. UInv => FailureMeansRollback
  BY DEF UInv, Fate, FailureMeansRollback
<1>2. QED
  BY <1>1, UInvHolds, PTL

-----------------------------------------------------------------------------
(* The refinement: which step of AtomicWork each step is.                  *)

Strays == [t \in Txs |-> Strayed(t)]

LEMMA InitRefines == Init => Promise!AbstractInit
<1> SUFFICES ASSUME Init PROVE Promise!AbstractInit
  OBVIOUS
<1>1. ASSUME NEW t \in Txs PROVE Strayed(t) = FALSE
  BY DEF Init, Strayed
<1>2. [t \in Txs |-> Strayed(t)] = [t \in Txs |-> FALSE]
  BY <1>1
<1>3. QED
  BY <1>2 DEF Init, Promise!AbstractInit

(* Who is strayed into changes with a late operation only.                 *)
LEMMA OpsKeepStrays ==
    ASSUME UNCHANGED opVars
    PROVE  Strays' = Strays
<1>1. \A t \in Txs : Strayed(t)' = Strayed(t)
  BY DEF Strayed, opVars
<1>2. QED
  BY <1>1 DEF Strays

LEMMA StepRefines == UInv /\ [Next]_vars => [Promise!AbstractNext]_Promise!abstractVars
<1> SUFFICES ASSUME UInv, [Next]_vars
             PROVE  Promise!AbstractNext \/ UNCHANGED <<outcome, left, Strays, verdict>>
  BY DEF Promise!abstractVars, Strays
<1>1. CASE UNCHANGED vars
  BY <1>1, OpsKeepStrays DEF vars, endVars
<1>2. ASSUME NEW t \in Txs, AfterCommit(t) PROVE Promise!Register(t)
  <2>1. outcome[t] = "open" /\ Strays' = Strays
    BY <1>2, OpsKeepStrays DEF AfterCommit, UInv, InOrder, Fate
  <2>2. QED
    BY <1>2, <2>1 DEF AfterCommit, Promise!Register, Strays
<1>3. ASSUME NEW t \in Txs, CommitExecutes(t) \/ Rollback(t) PROVE Promise!Decide(t)
  <2>1. outcome[t] = "open"
    BY <1>3 DEF CommitExecutes, Rollback, UInv, Fate
  <2>2. Strays' = Strays
    BY <1>3, OpsKeepStrays DEF CommitExecutes, Rollback
  <2>3. QED
    BY <1>3, <2>1, <2>2 DEF CommitExecutes, Rollback, Promise!Decide, Strays
<1>4. ASSUME NEW t \in Txs, pc[t] = "aftercommit" PROVE Promise!Done(t) /\ verdict[t] = "none"
  BY <1>4 DEF UInv, Fate, Ended, Promise!Done
<1>5. ASSUME NEW t \in Txs, RunCallback(t) PROVE Promise!Release(t)
  <2>1. Strays' = Strays
    BY <1>5, OpsKeepStrays DEF RunCallback
  <2>2. QED
    BY <1>4, <1>5, <2>1 DEF RunCallback, Promise!Release, Strays
<1>6. ASSUME NEW t \in Txs, Report(t) PROVE Promise!Succeed(t) \/ Promise!Fail(t)
  <2>1. Strays' = Strays
    BY <1>6, OpsKeepStrays DEF Report
  <2>2. QED
    BY <1>4, <1>6, <2>1 DEF Report, Promise!Succeed, Promise!Fail, Strays
<1>7. ASSUME NEW t \in Txs, ReleaseClient(t)
      PROVE  Promise!Fail(t) \/ UNCHANGED <<outcome, left, Strays, verdict>>
  <2>1. verdict[t] = "none" /\ Strays' = Strays
    BY <1>7, OpsKeepStrays DEF ReleaseClient, UInv, Fate
  <2>2. CASE doomed[t]
    BY <1>7, <2>1, <2>2 DEF ReleaseClient, Promise!Fail, Strays
  <2>3. CASE ~doomed[t]
    <3>1. verdict' = [verdict EXCEPT ![t] = verdict[t]]
      BY <1>7, <2>1, <2>3 DEF ReleaseClient
    <3>2. verdict' = verdict
      BY <3>1 DEF UInv, TypeOK
    <3>3. QED
      BY <1>7, <2>1, <3>2 DEF ReleaseClient
  <2>4. QED
    BY <2>2, <2>3
<1>8. ASSUME NEW t \in Txs, Issue(t)
      PROVE  Promise!Stray(t) \/ UNCHANGED <<outcome, left, Strays, verdict>>
  <2>1. PICK i \in Ops : /\ op[t][i] = "unused"
                         /\ late' = [late EXCEPT ![t] = IF pc[t] = "closing" THEN @ \cup {i} ELSE @]
    BY <1>8 DEF Issue, NextOp
  <2>2. UNCHANGED <<outcome, left, verdict, ranIn>>
    BY <1>8 DEF Issue, endVars
  <2>3. CASE pc[t] = "closing"
    <3>1. \A s \in Txs : late'[s] = IF s = t THEN late[t] \cup {i} ELSE late[s]
      BY <2>1, <2>3 DEF UInv, TypeOK
    <3>2. ranIn[t][i] = Elsewhere
      BY <2>1 DEF UInv, InOrder
    <3>3. ASSUME NEW s \in Txs PROVE Strayed(s)' = IF s = t THEN TRUE ELSE Strayed(s)
      <4>1. CASE s = t
        BY <3>1, <4>1 DEF Strayed
      <4>2. CASE s # t
        BY <2>2, <3>1, <3>2, <4>2, NullsAssumption DEF Strayed
      <4>3. QED
        BY <4>1, <4>2
    <3>4. Strays' = [s \in Txs |-> IF s = t THEN TRUE ELSE Strays[s]]
      BY <3>3, Zenon DEF Strays
    <3>5. QED
      BY <2>2, <3>4 DEF Promise!Stray, Strays
  <2>4. CASE pc[t] # "closing"
    <3>1. late' = late
      BY <2>1, <2>4 DEF UInv, TypeOK
    <3>2. Strays' = Strays
      BY <2>2, <3>1 DEF Strays, Strayed
    <3>3. QED
      BY <2>2, <3>2
  <2>5. QED
    BY <2>3, <2>4
<1>9. ASSUME NEW t \in Txs, NEW i \in Ops, Start(t, i)
      PROVE  (\E s \in Txs : Promise!Stray(s)) \/ UNCHANGED <<outcome, left, Strays, verdict>>
  <2> DEFINE host == IF failure[t] \/ dead[t] THEN Elsewhere ELSE Host(t)
  <2>1. /\ ranIn' = [ranIn EXCEPT ![t] = [@ EXCEPT ![i] = host]]
        /\ UNCHANGED <<outcome, left, verdict, late>>
    BY <1>9 DEF Start, endVars
  <2>2. host \in Txs \cup {Elsewhere}
    BY HostTyped
  <2>3. ranIn[t][i] = Elsewhere
    BY <1>9 DEF Start, AtHead, UInv, InOrder
  <2> HIDE DEF host
  <2>4. \A s \in Txs : \A j \in Ops :
           ranIn'[s][j] = IF s = t /\ j = i THEN host ELSE ranIn[s][j]
    BY <2>1 DEF UInv, TypeOK
  <2>5. \A s \in Txs : late[s] \subseteq Ops
    BY DEF UInv, TypeOK
  <2>6. CASE host \in Txs /\ i \in late[t]
    <3>1. ASSUME NEW s \in Txs PROVE Strayed(s)' = IF s = host THEN TRUE ELSE Strayed(s)
      <4>1. CASE s = host
        BY <2>1, <2>4, <2>5, <2>6, <4>1 DEF Strayed
      <4>2. CASE s # host
        BY <2>1, <2>3, <2>4, <2>5, <4>2, NullsAssumption DEF Strayed
      <4>3. QED
        BY <4>1, <4>2
    <3>2. Strays' = [s \in Txs |-> IF s = host THEN TRUE ELSE Strays[s]]
      BY <3>1, Zenon DEF Strays
    <3>3. Promise!Stray(host)
      BY <2>1, <3>2 DEF Promise!Stray, Strays
    <3>4. QED
      BY <2>6, <3>3
  <2>7. CASE host \notin Txs \/ i \notin late[t]
    <3>1. ASSUME NEW s \in Txs PROVE Strayed(s)' = Strayed(s)
      <4>1. ASSUME NEW r \in Txs, NEW j \in late[r]
            PROVE  ranIn'[r][j] = s <=> ranIn[r][j] = s
        BY <2>2, <2>3, <2>4, <2>5, <2>7, NullsAssumption
      <4>2. QED
        BY <2>1, <4>1 DEF Strayed
    <3>2. Strays' = Strays
      BY <3>1 DEF Strays
    <3>3. QED
      BY <2>1, <3>2
  <2>8. QED
    BY <2>6, <2>7
<1>10. ASSUME NEW t \in Txs,
              \/ Begin(t) \/ HandlerSettles(t) \/ Drain(t) \/ Close(t) \/ CommitAnswers(t)
              \/ Abort(t)
       PROVE  UNCHANGED <<outcome, left, Strays, verdict>>
  BY <1>10, OpsKeepStrays DEF Begin, HandlerSettles, Drain, Close, CommitAnswers, Abort, endVars
<1>11. ASSUME NEW t \in Txs, (\E i \in Ops : Finish(t, i)) \/ CancelHits(t) \/ CancelEnds(t)
       PROVE  UNCHANGED <<outcome, left, Strays, verdict>>
  <2>1. UNCHANGED <<outcome, left, verdict, late, ranIn>>
    BY <1>11 DEF Finish, CancelHits, CancelEnds, endVars
  <2>2. QED
    BY <2>1 DEF Strays, Strayed
<1>12. CASE Next
  <2>1. PICK t \in Txs :
           \/ Begin(t) \/ Issue(t) \/ AfterCommit(t) \/ HandlerSettles(t)
           \/ \E i \in Ops : Finish(t, i)
           \/ Settle(t) \/ RunCallback(t) \/ Report(t) \/ Abort(t) \/ CancelHits(t)
    BY <1>12 DEF Next
  <2>2. CASE Settle(t)
    BY <1>3, <1>7, <1>9, <1>10, <1>11, <2>2 DEF Settle, Promise!AbstractNext
  <2>3. QED
    BY <1>2, <1>5, <1>6, <1>8, <1>10, <1>11, <2>1, <2>2 DEF Promise!AbstractNext
<1>13. QED
  BY <1>1, <1>12

(* transaction() keeps what TransactionManager promises its caller: it is  *)
(* decided once, callbacks run only after a commit, and success is told    *)
(* only when nothing is left (transaction and releaseAfterCommit); but for *)
(* a transaction that a late operation strayed into.                       *)
THEOREM TransactionsKeepPromise == Spec => KeepsItsPromise
<1>1. Spec => Promise!AbstractInit /\ [][Promise!AbstractNext]_Promise!abstractVars
  BY InitRefines, StepRefines, UInvHolds, PTL DEF Spec
<1>2. QED
  BY <1>1, PTL DEF KeepsItsPromise, Promise!AbstractSpec

-----------------------------------------------------------------------------
(* MODEL SESSIONS                                                          *)

(* The memory of an execution, its counters unbounded.                     *)
AnyRow == [v : Nat, edits : SUBSET Nat, life : Nat, torn : BOOLEAN]
AnyInstance == [attrs : SUBSET Nat, orig : SUBSET Nat, v : Nat, exists : BOOLEAN,
                life : Nat, gone : BOOLEAN, torn : BOOLEAN]
Kinds == {"idle", "finding", "joining", "hydrating", "announcing", "overtaken", "writing",
          "recording", "deleting", "forgetting", "refreshing"}
AnyTask == [kind : Kinds, h : Handles \cup {None}, edits : SUBSET Nat, v : Nat, life : Nat,
            created : BOOLEAN]

MemoryShape ==
    /\ row \in AnyRow /\ draft \in AnyRow
    /\ edits \in Nat
    /\ map \in [Sessions -> Handles \cup {None}]
    /\ hydrating \in [Sessions -> Handles \cup {None}]
    /\ inst \in [Sessions -> [Handles -> AnyInstance]]
    /\ held \in [Sessions -> [Branches -> Handles \cup {None}]]
    /\ task \in [Sessions -> [Branches -> AnyTask]]

(* The instance being hydrated is the mapped one until a delete() lets the *)
(* identity go, no branch has it yet, and a find that waits waits for it.  *)
Hydration(s) ==
    hydrating[s] # None =>
        /\ ~inst[s][hydrating[s]].gone => map[s] = hydrating[s]
        /\ \A b \in Branches : held[s][b] # hydrating[s]

Waiting(s) ==
    \A b \in Branches :
        /\ task[s][b].kind \in {"joining", "hydrating"} =>
              hydrating[s] # None /\ task[s][b].h = hydrating[s]
        /\ task[s][b].kind \notin {"idle", "finding"} => task[s][b].h \in Handles

Shared(s) ==
    \A b \in Branches : held[s][b] # None /\ ~Mine(s, b).gone => map[s] = held[s][b]

IdentityInv ==
    MemoryShape /\ \A s \in Sessions : Hydration(s) /\ Waiting(s) /\ Shared(s)

LEMMA NoneIsNoHandle == None \notin Handles
  BY NamesAssumption

LEMMA SetsTask ==
    ASSUME MemoryShape, NEW s \in Sessions, NEW b \in Branches, NEW t \in AnyTask, Sets(s, b, t)
    PROVE  /\ task' \in [Sessions -> [Branches -> AnyTask]]
           /\ \A z \in Sessions : \A c \in Branches :
                 task'[z][c] = IF z = s /\ c = b THEN t ELSE task[z][c]
           /\ \A z \in Sessions \ {s} : task'[z] = task[z]
  BY DEF MemoryShape, Sets

LEMMA HoldsHandle ==
    ASSUME MemoryShape, NEW s \in Sessions, NEW b \in Branches, NEW h \in Handles \cup {None},
           Holds(s, b, h)
    PROVE  /\ held' \in [Sessions -> [Branches -> Handles \cup {None}]]
           /\ \A z \in Sessions : \A c \in Branches :
                 held'[z][c] = IF z = s /\ c = b THEN h ELSE held[z][c]
           /\ \A z \in Sessions \ {s} : held'[z] = held[z]
  BY DEF MemoryShape, Holds

LEMMA BecomesInstance ==
    ASSUME MemoryShape, NEW s \in Sessions, NEW h \in Handles, NEW i \in AnyInstance,
           Becomes(s, h, i)
    PROVE  /\ inst' \in [Sessions -> [Handles -> AnyInstance]]
           /\ \A z \in Sessions : \A k \in Handles :
                 inst'[z][k] = IF z = s /\ k = h THEN i ELSE inst[z][k]
           /\ \A z \in Sessions \ {s} : inst'[z] = inst[z]
  BY DEF MemoryShape, Becomes

LEMMA SeenIsARow == ASSUME MemoryShape, NEW s \in Sessions PROVE Seen(s) \in AnyRow
  BY DEF MemoryShape, Seen

LEMMA ReadIsAnInstance == ASSUME NEW r \in AnyRow PROVE Read(r) \in AnyInstance
  BY DEF AnyRow, AnyInstance, Read

LEMMA IdleIsATask == Idle \in AnyTask
  BY DEF AnyTask, Kinds, Idle

LEMMA LetGoLets ==
    ASSUME MemoryShape, NEW s \in Sessions, NEW h \in Handles, LetGo(s, h)
    PROVE  /\ inst' \in [Sessions -> [Handles -> AnyInstance]]
           /\ \A z \in Sessions : \A k \in Handles :
                /\ inst'[z][k].attrs = inst[z][k].attrs
                /\ inst'[z][k].v = inst[z][k].v
                /\ inst'[z][k].life = inst[z][k].life
                /\ inst'[z][k].torn = inst[z][k].torn
                /\ inst'[z][k].gone <=> inst[z][k].gone \/ (z = s /\ k \in {h, map[s]})
           /\ map' = [z \in Sessions |-> IF z = s THEN None ELSE map[z]]
           /\ \A z \in Sessions \ {s} : inst'[z] = inst[z]
<1> DEFINE freed == [k \in Handles |->
                  LET i == IF k = h THEN [inst[s][k] EXCEPT !.exists = FALSE]
                                    ELSE inst[s][k]
                  IN IF k \in {h, map[s]} THEN [i EXCEPT !.gone = TRUE] ELSE i]
<1>1. inst' = [inst EXCEPT ![s] = freed]
  BY DEF LetGo
<1>2. \A k \in Handles :
        /\ freed[k] \in AnyInstance
        /\ freed[k].attrs = inst[s][k].attrs
        /\ freed[k].v = inst[s][k].v
        /\ freed[k].life = inst[s][k].life
        /\ freed[k].torn = inst[s][k].torn
        /\ freed[k].gone <=> inst[s][k].gone \/ k \in {h, map[s]}
  <2> TAKE k \in Handles
  <2> DEFINE i == IF k = h THEN [inst[s][k] EXCEPT !.exists = FALSE]
                           ELSE inst[s][k]
             j == IF k \in {h, map[s]} THEN [i EXCEPT !.gone = TRUE] ELSE i
  <2>1. freed[k] = j
    OBVIOUS
  <2>2. inst[s][k] \in AnyInstance
    BY DEF MemoryShape
  <2>3. /\ i \in AnyInstance
        /\ i.attrs = inst[s][k].attrs /\ i.v = inst[s][k].v /\ i.life = inst[s][k].life
        /\ i.torn = inst[s][k].torn /\ i.gone = inst[s][k].gone
    BY <2>2 DEF AnyInstance
  <2> HIDE DEF i
  <2>4. /\ j \in AnyInstance
        /\ j.attrs = i.attrs /\ j.v = i.v /\ j.life = i.life /\ j.torn = i.torn
        /\ j.gone <=> i.gone \/ k \in {h, map[s]}
    BY <2>3 DEF AnyInstance
  <2> HIDE DEF j, freed
  <2> QED
    BY <2>1, <2>3, <2>4
<1>3. freed \in [Handles -> AnyInstance]
  BY <1>2
<1>4. map' = [z \in Sessions |-> IF z = s THEN None ELSE map[z]]
  BY DEF LetGo, MemoryShape
<1>5. \A z \in Sessions : inst'[z] = IF z = s THEN freed ELSE inst[z]
  BY <1>1 DEF MemoryShape
<1> HIDE DEF freed
<1>6. inst' \in [Sessions -> [Handles -> AnyInstance]]
  BY <1>1, <1>3 DEF MemoryShape
<1> QED
  BY <1>2, <1>4, <1>5, <1>6 DEF MemoryShape


(* What a step of s leaves to the other executions.                        *)
OthersKeep(s) ==
    \A z \in Sessions \ {s} :
        /\ map'[z] = map[z] /\ hydrating'[z] = hydrating[z] /\ inst'[z] = inst[z]
        /\ held'[z] = held[z] /\ task'[z] = task[z]

LEMMA IdentityFrame ==
    ASSUME IdentityInv, MemoryShape', NEW s \in Sessions, OthersKeep(s),
           Hydration(s)', Waiting(s)', Shared(s)'
    PROVE  IdentityInv'
<1>1. ASSUME NEW z \in Sessions, z # s PROVE Hydration(z)' /\ Waiting(z)' /\ Shared(z)'
  <2>1. /\ map'[z] = map[z] /\ hydrating'[z] = hydrating[z] /\ inst'[z] = inst[z]
        /\ held'[z] = held[z] /\ task'[z] = task[z]
    BY <1>1 DEF OthersKeep
  <2>2. Hydration(z) /\ Waiting(z) /\ Shared(z)
    BY DEF IdentityInv
  <2> QED
    BY <2>1, <2>2 DEF Hydration, Waiting, Shared, Mine
<1> QED
  BY <1>1 DEF IdentityInv

(* A step that captures nothing: an instance keeps what it holds, or takes *)
(* a name no capture uses and is new or just read.                         *)
Kept(s, h) ==
    /\ inst'[s][h].v = inst[s][h].v
    /\ inst'[s][h].life = inst[s][h].life
    /\ inst'[s][h].torn = inst[s][h].torn
    /\ inst[s][h].attrs \subseteq inst'[s][h].attrs

Reborn(s, h) ==
    /\ \A b \in Branches : task[s][b].h # h
    /\ inst'[s][h].v = 0 \/ inst'[s][h] = Read(Seen(s))

CapturesNone(s) ==
    /\ \A b \in Branches : task'[s][b] = task[s][b] \/ task'[s][b].kind \notin Captures
    /\ \A h \in Handles : Kept(s, h) \/ Reborn(s, h)

(* A call goes on, or ends, and attaches and detaches nothing.             *)
LEMMA CallMoves ==
    ASSUME IdentityInv, NEW s \in Sessions, NEW b \in Branches, NEW t \in AnyTask, Sets(s, b, t),
           t.kind \in {"joining", "hydrating"} => hydrating[s] # None /\ t.h = hydrating[s],
           t.kind \notin {"idle", "finding"} => t.h \in Handles,
           row' \in AnyRow, draft' \in AnyRow, edits' \in Nat, UNCHANGED <<map, hydrating, held>>,
           inst' \in [Sessions -> [Handles -> AnyInstance]],
           \A z \in Sessions \ {s} : inst'[z] = inst[z],
           \A h \in Handles : inst'[s][h].gone = inst[s][h].gone
    PROVE  /\ IdentityInv' /\ OthersKeep(s)
           /\ \A c \in Branches : task'[s][c] = IF c = b THEN t ELSE task[s][c]
<1>1. /\ task' \in [Sessions -> [Branches -> AnyTask]]
      /\ \A z \in Sessions : \A c \in Branches :
               task'[z][c] = IF z = s /\ c = b THEN t ELSE task[z][c]
      /\ \A z \in Sessions \ {s} : task'[z] = task[z]
  BY SetsTask DEF IdentityInv
<1>2. MemoryShape' /\ OthersKeep(s)
  BY <1>1 DEF IdentityInv, MemoryShape, OthersKeep
<1>3. Hydration(s)' /\ Shared(s)'
  <2>1. /\ hydrating[s] \in Handles \cup {None}
        /\ \A c \in Branches : held[s][c] \in Handles \cup {None}
    BY DEF IdentityInv, MemoryShape
  <2>2. Hydration(s) /\ Shared(s)
    BY DEF IdentityInv
  <2> QED
    BY <2>1, <2>2 DEF Hydration, Shared, Mine
<1>4. Waiting(s)'
  BY <1>1 DEF IdentityInv, Waiting
<1> QED
  BY <1>1, <1>2, <1>3, <1>4, IdentityFrame

LEMMA CallAsks ==
    ASSUME IdentityInv, NEW s \in Sessions, NEW b \in Branches, NEW t \in AnyTask, Sets(s, b, t),
           t.kind \in {"joining", "hydrating"} => hydrating[s] # None /\ t.h = hydrating[s],
           t.kind \notin {"idle", "finding"} => t.h \in Handles,
           t.kind \notin Captures,
           UNCHANGED <<row, draft, edits, map, hydrating, held, inst>>
    PROVE  IdentityInv' /\ OthersKeep(s) /\ CapturesNone(s)
<1>1. /\ row' \in AnyRow /\ draft' \in AnyRow /\ edits' \in Nat
      /\ UNCHANGED <<map, hydrating, held>>
      /\ inst' \in [Sessions -> [Handles -> AnyInstance]]
      /\ \A z \in Sessions \ {s} : inst'[z] = inst[z]
      /\ \A h \in Handles : inst'[s][h].gone = inst[s][h].gone
  BY DEF IdentityInv, MemoryShape
<1>2. /\ IdentityInv' /\ OthersKeep(s)
      /\ \A c \in Branches : task'[s][c] = IF c = b THEN t ELSE task[s][c]
  BY <1>1, CallMoves
<1>3. \A h \in Handles : Kept(s, h)
  BY DEF Kept
<1> QED
  BY <1>2, <1>3 DEF CapturesNone

LEMMA FindShares ==
    ASSUME IdentityInv, NEW s \in Sessions, NEW b \in Branches, Find(s, b)
    PROVE  IdentityInv' /\ OthersKeep(s) /\ CapturesNone(s)
<1> USE NoneIsNoHandle DEF IdentityInv
<1>0. UNCHANGED <<row, draft, edits, map, hydrating, inst>>
  BY DEF Find, Calling, dbVars
<1>1. CASE /\ hydrating[s] # None
           /\ Sets(s, b, [Idle EXCEPT !.kind = "joining", !.h = hydrating[s]])
           /\ UNCHANGED <<held, queue>>
  <2> DEFINE t == [Idle EXCEPT !.kind = "joining", !.h = hydrating[s]]
  <2>1. t \in AnyTask /\ t.kind = "joining" /\ t.h = hydrating[s] /\ hydrating[s] \in Handles
    BY <1>1 DEF AnyTask, Idle, Kinds, MemoryShape
  <2>2. Sets(s, b, t)
    BY <1>1
  <2> HIDE DEF t
  <2> QED
    BY <1>0, <1>1, <2>1, <2>2, CallAsks DEF Captures
<1>2. CASE hydrating[s] = None /\ map[s] # None /\ Holds(s, b, map[s]) /\ UNCHANGED <<task, queue>>
  <2>1. /\ held' \in [Sessions -> [Branches -> Handles \cup {None}]]
        /\ \A z \in Sessions : \A c \in Branches :
              held'[z][c] = IF z = s /\ c = b THEN map[s] ELSE held[z][c]
        /\ \A z \in Sessions \ {s} : held'[z] = held[z]
    <3>1. map[s] \in Handles \cup {None}
      BY DEF MemoryShape
    <3> QED
      BY <1>2, <3>1, HoldsHandle
  <2>2. MemoryShape' /\ OthersKeep(s)
    BY <1>0, <1>2, <2>1 DEF MemoryShape, OthersKeep
  <2>3. Hydration(s)' /\ Waiting(s)' /\ Shared(s)'
    BY <1>0, <1>2, <2>1 DEF Hydration, Waiting, Shared, Mine
  <2>4. CapturesNone(s)
    BY <1>0, <1>2 DEF CapturesNone, Kept
  <2> QED
    BY <2>2, <2>3, <2>4, IdentityFrame
<1>3. CASE hydrating[s] = None /\ map[s] = None /\ Asks(s, b, [Idle EXCEPT !.kind = "finding"])
           /\ UNCHANGED held
  <2> DEFINE t == [Idle EXCEPT !.kind = "finding"]
  <2>1. t \in AnyTask /\ t.kind = "finding"
    BY DEF AnyTask, Idle, Kinds
  <2>2. Sets(s, b, t)
    BY <1>3 DEF Asks
  <2> HIDE DEF t
  <2> QED
    BY <1>0, <1>3, <2>1, <2>2, CallAsks DEF Captures
<1> QED
  BY <1>1, <1>2, <1>3 DEF Find

LEMMA MakeShares ==
    ASSUME IdentityInv, NEW s \in Sessions, NEW b \in Branches, Make(s, b)
    PROVE  IdentityInv' /\ OthersKeep(s) /\ CapturesNone(s)
<1> USE NoneIsNoHandle DEF IdentityInv
<1>1. PICK h \in Unused(s) :
         /\ Becomes(s, h, [Blank EXCEPT !.attrs = {edits + 1}])
         /\ map' = [map EXCEPT ![s] = h]
         /\ Holds(s, b, h)
  BY DEF Make
<1>2. UNCHANGED <<row, draft, hydrating, task>> /\ edits' = edits + 1 /\ map[s] = None
  BY DEF Make, Calling, dbVars
<1>3. /\ h \in Handles /\ h # hydrating[s]
      /\ \A c \in Branches : h # held[s][c] /\ h # task[s][c].h
  BY DEF Unused
<1> DEFINE i == [Blank EXCEPT !.attrs = {edits + 1}]
<1>4. i \in AnyInstance /\ ~i.gone /\ i.v = 0
  <2>1. {edits + 1} \in SUBSET Nat
    BY DEF MemoryShape
  <2> QED
    BY <2>1 DEF AnyInstance, Blank
<1>5. /\ inst' \in [Sessions -> [Handles -> AnyInstance]]
      /\ \A z \in Sessions : \A k \in Handles :
               inst'[z][k] = IF z = s /\ k = h THEN i ELSE inst[z][k]
      /\ \A z \in Sessions \ {s} : inst'[z] = inst[z]
  BY <1>1, <1>3, <1>4, BecomesInstance
<1> HIDE DEF i
<1>6. /\ held' \in [Sessions -> [Branches -> Handles \cup {None}]]
      /\ \A z \in Sessions : \A c \in Branches :
               held'[z][c] = IF z = s /\ c = b THEN h ELSE held[z][c]
      /\ \A z \in Sessions \ {s} : held'[z] = held[z]
  BY <1>1, <1>3, HoldsHandle
<1>7. /\ map' \in [Sessions -> Handles \cup {None}] /\ edits' \in Nat
      /\ map'[s] = h /\ \A z \in Sessions \ {s} : map'[z] = map[z]
  BY <1>1, <1>2, <1>3 DEF MemoryShape
<1>8. MemoryShape' /\ OthersKeep(s)
  BY <1>2, <1>5, <1>6, <1>7 DEF MemoryShape, OthersKeep
<1>9. Hydration(s)'
  BY <1>2, <1>3, <1>5, <1>6 DEF Hydration, MemoryShape
<1>10. Waiting(s)'
  BY <1>2 DEF Waiting
<1>11. Shared(s)'
  BY <1>2, <1>3, <1>5, <1>6, <1>7 DEF Shared, Mine, MemoryShape
<1>12. CapturesNone(s)
  BY <1>2, <1>3, <1>4, <1>5 DEF CapturesNone, Kept, Reborn
<1> QED
  BY <1>8, <1>9, <1>10, <1>11, <1>12, IdentityFrame

LEMMA CallShares ==
    ASSUME IdentityInv, NEW s \in Sessions, NEW b \in Branches,
           Delete(s, b) \/ Refresh(s, b)
    PROVE  IdentityInv' /\ OthersKeep(s) /\ CapturesNone(s)
<1> USE NoneIsNoHandle DEF IdentityInv
<1>1. /\ UNCHANGED <<row, draft, edits, map, hydrating, inst, held>>
      /\ held[s][b] \in Handles
  BY DEF Delete, Refresh, Calling, dbVars, MemoryShape
<1>2. \E t \in AnyTask : /\ t.kind \in {"deleting", "refreshing"}
                         /\ t.h = held[s][b]
                         /\ Sets(s, b, t)
  <2>2. CASE Delete(s, b)
    <3> DEFINE t == [Idle EXCEPT !.kind = "deleting", !.h = held[s][b], !.v = Mine(s, b).v]
    <3>1. t \in AnyTask /\ t.kind = "deleting" /\ t.h = held[s][b]
      <4>1. Mine(s, b) \in AnyInstance
        BY <1>1 DEF Mine, MemoryShape
      <4>2. Mine(s, b).v \in Nat
        BY <4>1 DEF AnyInstance
      <4> QED
        BY <1>1, <4>2 DEF AnyTask, Idle, Kinds
    <3> QED
      BY <2>2, <3>1 DEF Delete, Asks
  <2>3. CASE Refresh(s, b)
    <3> DEFINE t == [Idle EXCEPT !.kind = "refreshing", !.h = held[s][b]]
    <3>1. t \in AnyTask /\ t.kind = "refreshing" /\ t.h = held[s][b]
      BY <1>1 DEF AnyTask, Idle, Kinds
    <3> QED
      BY <2>3, <3>1 DEF Refresh, Asks
  <2> QED
    BY <2>2, <2>3
<1>3. PICK t \in AnyTask : /\ t.kind \in {"deleting", "refreshing"}
                           /\ t.h = held[s][b]
                           /\ Sets(s, b, t)
  BY <1>2
<1> QED
  BY <1>1, <1>3, CallAsks DEF Captures

LEMMA EditShares ==
    ASSUME IdentityInv, NEW s \in Sessions, NEW b \in Branches, Edit(s, b)
    PROVE  IdentityInv' /\ OthersKeep(s) /\ CapturesNone(s)
<1> USE NoneIsNoHandle DEF IdentityInv
<1>1. UNCHANGED <<row, draft, map, hydrating, held, task>> /\ held[s][b] \in Handles
  BY DEF Edit, dbVars, MemoryShape
<1> DEFINE Edited(i) == /\ i.gone = Mine(s, b).gone /\ i.v = Mine(s, b).v
                        /\ i.life = Mine(s, b).life /\ i.torn = Mine(s, b).torn
                        /\ Mine(s, b).attrs \subseteq i.attrs
<1>2. \E i \in AnyInstance : Edited(i) /\ Becomes(s, held[s][b], i) /\ edits' \in Nat
  <2>1. Mine(s, b) \in AnyInstance
    BY <1>1 DEF Mine, MemoryShape
  <2> DEFINE i == [Mine(s, b) EXCEPT !.attrs = @ \cup {edits + 1}]
  <2>2. Mine(s, b).attrs \cup {edits + 1} \in SUBSET Nat /\ edits + 1 \in Nat
    BY <2>1 DEF AnyInstance, MemoryShape
  <2>3. i \in AnyInstance /\ Edited(i)
    BY <2>1, <2>2 DEF AnyInstance
  <2> QED
    BY <2>2, <2>3 DEF Edit
<1>3. PICK i \in AnyInstance : Edited(i) /\ Becomes(s, held[s][b], i) /\ edits' \in Nat
  BY <1>2
<1>4. /\ inst' \in [Sessions -> [Handles -> AnyInstance]]
      /\ \A z \in Sessions : \A k \in Handles :
               inst'[z][k] = IF z = s /\ k = held[s][b] THEN i ELSE inst[z][k]
      /\ \A z \in Sessions \ {s} : inst'[z] = inst[z]
  BY <1>1, <1>3, BecomesInstance
<1>5. \A h \in Handles : inst'[s][h].gone = inst[s][h].gone
  BY <1>3, <1>4 DEF Mine
<1>6. MemoryShape' /\ OthersKeep(s)
  BY <1>1, <1>3, <1>4 DEF MemoryShape, OthersKeep
<1>7. Hydration(s)' /\ Waiting(s)' /\ Shared(s)'
  <2>1. /\ hydrating[s] \in Handles \cup {None}
        /\ \A c \in Branches : held[s][c] \in Handles \cup {None}
    BY DEF MemoryShape
  <2>2. Hydration(s) /\ Waiting(s) /\ Shared(s)
    OBVIOUS
  <2> QED
    BY <1>1, <1>5, <2>1, <2>2 DEF Hydration, Waiting, Shared, Mine
<1>8. CapturesNone(s)
  BY <1>1, <1>3, <1>4 DEF CapturesNone, Kept, Mine
<1> QED
  BY <1>6, <1>7, <1>8, IdentityFrame

LEMMA FoundShares ==
    ASSUME IdentityInv, NEW s \in Sessions, NEW b \in Branches, Found(s, b)
    PROVE  IdentityInv' /\ OthersKeep(s) /\ CapturesNone(s)
<1> USE NoneIsNoHandle DEF IdentityInv
<1>0. UNCHANGED <<row, draft, edits>>
  BY DEF Found, dbVars
<1> DEFINE r == Seen(s)
<1>1. r \in AnyRow
  BY SeenIsARow
<1>2. ASSUME NEW h \in {None, map[s]}, h = None \/ hydrating[s] = None, Holds(s, b, h), Sets(s, b, Idle),
             UNCHANGED <<map, hydrating, inst>>
      PROVE  IdentityInv' /\ OthersKeep(s) /\ CapturesNone(s)
  <2>1. /\ held' \in [Sessions -> [Branches -> Handles \cup {None}]]
        /\ \A z \in Sessions : \A c \in Branches :
              held'[z][c] = IF z = s /\ c = b THEN h ELSE held[z][c]
        /\ \A z \in Sessions \ {s} : held'[z] = held[z]
    <3>1. h \in Handles \cup {None}
      BY DEF MemoryShape
    <3> QED
      BY <1>2, <3>1, HoldsHandle
  <2>2. /\ task' \in [Sessions -> [Branches -> AnyTask]]
        /\ \A z \in Sessions : \A c \in Branches :
                 task'[z][c] = IF z = s /\ c = b THEN Idle ELSE task[z][c]
        /\ \A z \in Sessions \ {s} : task'[z] = task[z]
    BY <1>2, IdleIsATask, SetsTask
  <2>3. MemoryShape' /\ OthersKeep(s)
    BY <1>0, <1>2, <2>1, <2>2 DEF MemoryShape, OthersKeep
  <2>4. Hydration(s)' /\ Shared(s)'
    BY <1>2, <2>1 DEF Hydration, Shared, Mine
  <2>5. Waiting(s)'
    BY <1>2, <2>2 DEF Waiting, Idle
  <2>6. CapturesNone(s)
    BY <1>2, <2>2 DEF CapturesNone, Kept, Idle, Captures
  <2> QED
    BY <2>3, <2>4, <2>5, <2>6, IdentityFrame
<1>3. CASE /\ hydrating[s] # None
           /\ Sets(s, b, [Idle EXCEPT !.kind = "joining", !.h = hydrating[s]])
           /\ UNCHANGED <<map, hydrating, inst, held>>
  <2> DEFINE t == [Idle EXCEPT !.kind = "joining", !.h = hydrating[s]]
  <2>1. t \in AnyTask /\ t.kind = "joining" /\ t.h = hydrating[s] /\ hydrating[s] \in Handles
    BY <1>3 DEF AnyTask, Idle, Kinds, MemoryShape
  <2>2. Sets(s, b, t)
    BY <1>3
  <2> HIDE DEF t
  <2> QED
    BY <1>0, <1>3, <2>1, <2>2, CallAsks DEF Captures
<1>4. ASSUME NEW h \in Unused(s), hydrating[s] = None, map[s] = None,
             Becomes(s, h, Read(r)),
             map' = [map EXCEPT ![s] = h],
             hydrating' = [hydrating EXCEPT ![s] = h],
             Sets(s, b, [Idle EXCEPT !.kind = "hydrating", !.h = h]),
             UNCHANGED held
      PROVE  IdentityInv' /\ OthersKeep(s) /\ CapturesNone(s)
  <2>1. h \in Handles /\ \A c \in Branches : h # held[s][c] /\ h # task[s][c].h
    BY DEF Unused
  <2> DEFINE t == [Idle EXCEPT !.kind = "hydrating", !.h = h]
  <2>2. t \in AnyTask /\ t.kind = "hydrating" /\ t.h = h
    BY <2>1 DEF AnyTask, Idle, Kinds
  <2>3. Sets(s, b, t)
    BY <1>4
  <2> HIDE DEF t
  <2>4. /\ task' \in [Sessions -> [Branches -> AnyTask]]
        /\ \A z \in Sessions : \A c \in Branches :
                 task'[z][c] = IF z = s /\ c = b THEN t ELSE task[z][c]
        /\ \A z \in Sessions \ {s} : task'[z] = task[z]
    BY <2>2, <2>3, SetsTask
  <2>5. Read(r) \in AnyInstance /\ ~Read(r).gone
    BY <1>1, ReadIsAnInstance DEF Read
  <2>6. /\ inst' \in [Sessions -> [Handles -> AnyInstance]]
        /\ \A z \in Sessions : \A k \in Handles :
                 inst'[z][k] = IF z = s /\ k = h THEN Read(r) ELSE inst[z][k]
        /\ \A z \in Sessions \ {s} : inst'[z] = inst[z]
    BY <1>4, <2>1, <2>5, BecomesInstance
  <2>7. /\ map' \in [Sessions -> Handles \cup {None}]
        /\ map'[s] = h /\ \A z \in Sessions \ {s} : map'[z] = map[z]
        /\ hydrating' \in [Sessions -> Handles \cup {None}]
        /\ hydrating'[s] = h /\ \A z \in Sessions \ {s} : hydrating'[z] = hydrating[z]
    BY <1>4, <2>1 DEF MemoryShape
  <2>8. MemoryShape' /\ OthersKeep(s)
    BY <1>0, <1>4, <2>4, <2>6, <2>7 DEF MemoryShape, OthersKeep
  <2>9. Hydration(s)'
    BY <1>4, <2>1, <2>7 DEF Hydration
  <2>10. Waiting(s)'
    BY <1>4, <2>1, <2>2, <2>4, <2>7 DEF Waiting
  <2>11. Shared(s)'
    BY <1>4, <2>1, <2>6, <2>7 DEF Shared, Mine, MemoryShape
  <2>12. CapturesNone(s)
    BY <2>1, <2>2, <2>4, <2>6 DEF CapturesNone, Kept, Reborn, Captures
  <2> QED
    BY <2>8, <2>9, <2>10, <2>11, <2>12, IdentityFrame
<1>5. CASE Seen(s).v = 0 /\ Sets(s, b, Idle) /\ Holds(s, b, None) /\ UNCHANGED <<map, hydrating, inst>>
  BY <1>2, <1>5
<1>6. CASE Hydrate(s, b, r)
  BY <1>2, <1>3, <1>4, <1>6 DEF Hydrate
<1> QED
  BY <1>5, <1>6 DEF Found

LEMMA HydratedShares ==
    ASSUME IdentityInv, NEW s \in Sessions, NEW b \in Branches, Hydrated(s, b)
    PROVE  IdentityInv' /\ OthersKeep(s) /\ CapturesNone(s)
<1> USE NoneIsNoHandle DEF IdentityInv
<1> DEFINE h == task[s][b].h
           waiting == {c \in Branches : task[s][c].kind \in {"hydrating", "joining"}}
<1>1. /\ hydrating[s] = h /\ h \in Handles /\ b \in waiting
      /\ ~inst[s][h].gone => map[s] = h
      /\ \A c \in Branches : held[s][c] # h
      /\ \A c \in waiting : task[s][c].h = h
  BY DEF Hydrated, Waiting, Hydration, MemoryShape
<1>2. /\ UNCHANGED <<row, draft, edits, inst>>
      /\ hydrating' = [hydrating EXCEPT ![s] = None]
      /\ task' = [task EXCEPT ![s] = [c \in Branches |-> IF c \in waiting THEN Idle ELSE @[c]]]
      /\ \/ /\ held' = [held EXCEPT ![s] = [c \in Branches |-> IF c \in waiting THEN h ELSE @[c]]]
            /\ UNCHANGED map
         \/ /\ map' = [map EXCEPT ![s] = IF @ = h THEN None ELSE @]
            /\ UNCHANGED held
  BY DEF Hydrated, dbVars
<1> HIDE DEF h, waiting
<1>3. /\ task' \in [Sessions -> [Branches -> AnyTask]]
      /\ \A c \in Branches : task'[s][c] = IF c \in waiting THEN Idle ELSE task[s][c]
      /\ \A z \in Sessions \ {s} : task'[z] = task[z]
  BY <1>2, IdleIsATask DEF MemoryShape
<1>4. /\ hydrating' \in [Sessions -> Handles \cup {None}]
      /\ hydrating'[s] = None /\ \A z \in Sessions \ {s} : hydrating'[z] = hydrating[z]
  BY <1>2 DEF MemoryShape
<1>5. \/ /\ held' \in [Sessions -> [Branches -> Handles \cup {None}]]
         /\ \A c \in Branches : held'[s][c] = IF c \in waiting THEN h ELSE held[s][c]
         /\ \A z \in Sessions \ {s} : held'[z] = held[z]
         /\ UNCHANGED map
      \/ /\ map' \in [Sessions -> Handles \cup {None}]
         /\ map'[s] = IF map[s] = h THEN None ELSE map[s]
         /\ \A z \in Sessions \ {s} : map'[z] = map[z]
         /\ UNCHANGED held
  <2>1. CASE /\ held' = [held EXCEPT ![s] = [c \in Branches |-> IF c \in waiting THEN h ELSE @[c]]]
             /\ UNCHANGED map
    <3> DEFINE all == [c \in Branches |-> IF c \in waiting THEN h ELSE held[s][c]]
    <3>1. all \in [Branches -> Handles \cup {None}] /\ held' = [held EXCEPT ![s] = all]
      BY <1>1, <2>1 DEF MemoryShape
    <3>2. held'[s] = all /\ \A z \in Sessions \ {s} : held'[z] = held[z]
      BY <3>1 DEF MemoryShape
    <3>3. held' \in [Sessions -> [Branches -> Handles \cup {None}]]
      BY <3>1 DEF MemoryShape
    <3> QED
      BY <2>1, <3>2, <3>3
  <2>2. CASE map' = [map EXCEPT ![s] = IF @ = h THEN None ELSE @] /\ UNCHANGED held
    BY <2>2 DEF MemoryShape
  <2> QED
    BY <1>2, <2>1, <2>2
<1>6. MemoryShape' /\ OthersKeep(s)
  BY <1>2, <1>3, <1>4, <1>5 DEF MemoryShape, OthersKeep
<1>7. Hydration(s)'
  BY <1>4 DEF Hydration
<1>8. Waiting(s)'
  BY <1>3 DEF Waiting, waiting, Idle
<1>9. Shared(s)'
  BY <1>1, <1>2, <1>5 DEF Shared, Mine
<1>10. CapturesNone(s)
  BY <1>2, <1>3 DEF CapturesNone, Kept, Idle, Captures
<1> QED
  BY <1>6, <1>7, <1>8, <1>9, <1>10, IdentityFrame

(* The call of b is a save that holds what its instance now does, or what   *)
(* it held before: of the attributes and of the version it had captured.   *)
Capturing(s, b) ==
    /\ UNCHANGED inst
    /\ \E t \in AnyTask :
         /\ t.h \in Handles
         /\ \A c \in Branches : task'[s][c] = IF c = b THEN t ELSE task[s][c]
         /\ LET u == task[s][b]
                i == inst[s][t.h]
            IN \/ t.edits = i.attrs /\ t.v = i.v /\ t.life = i.life
               \/ /\ u.kind \in Captures /\ t.h = u.h /\ t.v = u.v /\ t.life = u.life
                  /\ t.edits \in {u.edits, i.attrs}

LEMMA SaveShares ==
    ASSUME IdentityInv, NEW s \in Sessions, NEW b \in Branches, Save(s, b)
    PROVE  IdentityInv' /\ OthersKeep(s) /\ Capturing(s, b)
<1> DEFINE i == Mine(s, b)
           t == [kind |-> "announcing", h |-> held[s][b], edits |-> i.attrs,
                 v |-> i.v, life |-> i.life, created |-> ~i.exists]
<1>1. /\ UNCHANGED <<row, draft, edits, map, hydrating, inst, held>>
      /\ held[s][b] \in Handles
  BY DEF Save, Calling, dbVars, IdentityInv, MemoryShape
<1>2. i \in AnyInstance /\ i = inst[s][held[s][b]]
  BY <1>1 DEF Mine, IdentityInv, MemoryShape
<1>3. (~i.exists) \in BOOLEAN
  OBVIOUS
<1>4. Sets(s, b, t)
  BY DEF Save
<1> HIDE DEF i
<1>5. /\ t \in AnyTask /\ t.kind = "announcing" /\ t.h = held[s][b]
      /\ t.edits = inst[s][t.h].attrs /\ t.v = inst[s][t.h].v /\ t.life = inst[s][t.h].life
  BY <1>1, <1>2, <1>3 DEF AnyTask, AnyInstance, Kinds
<1> HIDE DEF t
<1>6. /\ row' \in AnyRow /\ draft' \in AnyRow /\ edits' \in Nat
      /\ inst' \in [Sessions -> [Handles -> AnyInstance]]
  BY <1>1 DEF IdentityInv, MemoryShape
<1>7. /\ IdentityInv' /\ OthersKeep(s)
      /\ \A c \in Branches : task'[s][c] = IF c = b THEN t ELSE task[s][c]
  BY <1>1, <1>4, <1>5, <1>6, CallMoves
<1> QED
  BY <1>1, <1>5, <1>7 DEF Capturing

(* The instance of a capture becomes the saved one.                        *)
Marking(s, h, v, life) ==
    /\ \A k \in Handles \ {h} : inst'[s][k] = inst[s][k]
    /\ inst'[s][h].v = v
    /\ inst'[s][h].life = life
    /\ inst'[s][h].attrs = inst[s][h].attrs
    /\ inst'[s][h].torn = inst[s][h].torn

Returned(s, b) == \A c \in Branches : task'[s][c] = IF c = b THEN Idle ELSE task[s][c]

LEMMA MarkShares ==
    ASSUME IdentityInv, NEW s \in Sessions, NEW b \in Branches, NEW h \in Handles,
           NEW v \in Nat, NEW life \in Nat, Sets(s, b, Idle),
           Becomes(s, h, MarkSaved(inst[s][h], v, life)),
           row' \in AnyRow, draft' \in AnyRow, UNCHANGED <<edits, map, hydrating, held>>
    PROVE  IdentityInv' /\ OthersKeep(s) /\ Returned(s, b) /\ Marking(s, h, v, life)
<1> DEFINE i == inst[s][h]
           j == MarkSaved(i, v, life)
<1>1. i \in AnyInstance
  BY DEF IdentityInv, MemoryShape
<1>2. /\ j \in AnyInstance /\ j.gone = i.gone
      /\ j.v = v /\ j.life = life /\ j.attrs = i.attrs /\ j.torn = i.torn
  BY <1>1 DEF AnyInstance, MarkSaved
<1>3. Becomes(s, h, j)
  OBVIOUS
<1> HIDE DEF j
<1>4. /\ inst' \in [Sessions -> [Handles -> AnyInstance]]
      /\ \A z \in Sessions : \A k \in Handles :
               inst'[z][k] = IF z = s /\ k = h THEN j ELSE inst[z][k]
      /\ \A z \in Sessions \ {s} : inst'[z] = inst[z]
  BY <1>2, <1>3, BecomesInstance DEF IdentityInv
<1>5. /\ Idle \in AnyTask /\ Idle.kind = "idle" /\ edits' \in Nat
      /\ \A k \in Handles : inst'[s][k].gone = inst[s][k].gone
  BY <1>2, <1>4, IdleIsATask DEF Idle, IdentityInv, MemoryShape
<1>6. IdentityInv' /\ OthersKeep(s) /\ Returned(s, b)
  BY <1>4, <1>5, CallMoves DEF Returned
<1>7. Marking(s, h, v, life)
  BY <1>2, <1>4 DEF Marking
<1> QED
  BY <1>6, <1>7

LEMMA SaveSendsShares ==
    ASSUME IdentityInv, NEW s \in Sessions, NEW b \in Branches, SaveSends(s, b)
    PROVE  /\ IdentityInv' /\ OthersKeep(s)
           /\ \/ CapturesNone(s)
              \/ Capturing(s, b)
              \/ /\ Returned(s, b)
                 /\ Marking(s, task[s][b].h, task[s][b].v, task[s][b].life)
<1> DEFINE u == task[s][b]
           i == inst[s][u.h]
           x == Referred(u, i)
           t(kind) == [u EXCEPT !.kind = kind, !.edits = Referred(u, i)]
<1>1. UNCHANGED <<row, draft, edits, map, hydrating, held>>
  BY DEF SaveSends, dbVars
<1>2. u.h \in Handles /\ u.kind \in Captures
  BY DEF SaveSends, IdentityInv, Waiting, Captures
<1>3. i \in AnyInstance /\ u \in AnyTask
  BY <1>2 DEF IdentityInv, MemoryShape
<1>4. /\ x \in SUBSET Nat /\ x \in {u.edits, i.attrs}
      /\ u.v \in Nat /\ u.life \in Nat
  BY <1>3 DEF AnyInstance, AnyTask, Referred
<1>5. row' \in AnyRow /\ draft' \in AnyRow /\ edits' \in Nat
  BY <1>1 DEF IdentityInv, MemoryShape
<1>6. ASSUME NEW kind \in {"writing", "recording"}, Asks(s, b, t(kind)), UNCHANGED inst
      PROVE  IdentityInv' /\ OthersKeep(s) /\ Capturing(s, b)
  <2>1. Sets(s, b, t(kind))
    BY <1>6 DEF Asks
  <2>2. /\ t(kind) \in AnyTask /\ t(kind).kind = kind /\ t(kind).h = u.h
        /\ t(kind).v = u.v /\ t(kind).life = u.life /\ t(kind).edits = x
    BY <1>3, <1>4 DEF AnyTask, Kinds
  <2>3. inst' \in [Sessions -> [Handles -> AnyInstance]]
    BY <1>6 DEF IdentityInv, MemoryShape
  <2> HIDE DEF t, x
  <2>4. /\ IdentityInv' /\ OthersKeep(s)
        /\ \A c \in Branches : task'[s][c] = IF c = b THEN t(kind) ELSE task[s][c]
    BY <1>1, <1>2, <1>5, <1>6, <2>1, <2>2, <2>3, CallMoves
  <2> QED
    BY <1>2, <1>4, <1>6, <2>2, <2>4 DEF Capturing
<1>7. CASE Sets(s, b, Idle) /\ UNCHANGED inst
  <2>1. Idle.kind = "idle" /\ Idle \in AnyTask
    BY IdleIsATask DEF Idle
  <2> QED
    BY <1>1, <1>7, <2>1, CallAsks DEF Captures
<1>8. CASE Becomes(s, u.h, MarkSaved(i, u.v, u.life)) /\ Sets(s, b, Idle)
  BY <1>1, <1>2, <1>4, <1>5, <1>8, MarkShares
<1> QED
  BY <1>6, <1>7, <1>8 DEF SaveSends

LEMMA LetGoShares ==
    ASSUME IdentityInv, NEW s \in Sessions, NEW b \in Branches, NEW h \in Handles,
           LetGo(s, h), Sets(s, b, Idle),
           row' \in AnyRow, draft' \in AnyRow, UNCHANGED <<edits, hydrating, held>>
    PROVE  IdentityInv' /\ OthersKeep(s) /\ CapturesNone(s)
<1> USE NoneIsNoHandle DEF IdentityInv
<1>1. /\ inst' \in [Sessions -> [Handles -> AnyInstance]]
      /\ \A k \in Handles : Kept(s, k)
      /\ \A k \in Handles : inst'[s][k].gone <=> inst[s][k].gone \/ k \in {h, map[s]}
      /\ \A z \in Sessions \ {s} : inst'[z] = inst[z]
      /\ map' \in [Sessions -> Handles \cup {None}]
      /\ \A z \in Sessions \ {s} : map'[z] = map[z]
  BY LetGoLets DEF Kept, MemoryShape
<1>2. /\ task' \in [Sessions -> [Branches -> AnyTask]]
      /\ \A c \in Branches : task'[s][c] = IF c = b THEN Idle ELSE task[s][c]
      /\ \A z \in Sessions \ {s} : task'[z] = task[z]
  BY IdleIsATask, SetsTask
<1>3. MemoryShape' /\ OthersKeep(s)
  BY <1>1, <1>2 DEF MemoryShape, OthersKeep
<1>4. /\ hydrating[s] \in Handles \cup {None}
      /\ \A c \in Branches : held[s][c] \in Handles \cup {None}
      /\ Hydration(s) /\ Waiting(s) /\ Shared(s)
  BY DEF MemoryShape
<1>5. Hydration(s)' /\ Shared(s)'
  BY <1>1, <1>4 DEF Hydration, Shared, Mine
<1>6. Waiting(s)'
  BY <1>2, <1>4 DEF Waiting, Idle
<1>7. CapturesNone(s)
  BY <1>1, <1>2 DEF CapturesNone, Idle, Captures
<1> QED
  BY <1>3, <1>5, <1>6, <1>7, IdentityFrame

(* The memory of an execution that ended.                                  *)
Emptied(s) ==
    /\ \A h \in Handles : inst'[s][h] = Blank
    /\ \A b \in Branches : task'[s][b] = Idle

LEMMA EndsShares ==
    ASSUME IdentityInv, NEW s \in Sessions, Ends(s), row' \in AnyRow, draft' \in AnyRow
    PROVE  IdentityInv' /\ OthersKeep(s) /\ Emptied(s)
<1> USE NoneIsNoHandle DEF IdentityInv
<1> DEFINE blanks == [h \in Handles |-> Blank]
           nones == [b \in Branches |-> None]
           idles == [b \in Branches |-> Idle]
<1>1. /\ map' = [map EXCEPT ![s] = None] /\ hydrating' = [hydrating EXCEPT ![s] = None]
      /\ inst' = [inst EXCEPT ![s] = blanks] /\ held' = [held EXCEPT ![s] = nones]
      /\ task' = [task EXCEPT ![s] = idles] /\ UNCHANGED edits
  BY DEF Ends
<1>2. blanks \in [Handles -> AnyInstance] /\ \A h \in Handles : blanks[h] = Blank
  BY DEF AnyInstance, Blank
<1>3. nones \in [Branches -> Handles \cup {None}] /\ \A b \in Branches : nones[b] = None
  OBVIOUS
<1>4. idles \in [Branches -> AnyTask] /\ \A b \in Branches : idles[b] = Idle
  BY IdleIsATask
<1> HIDE DEF blanks, nones, idles
<1>5. /\ map' \in [Sessions -> Handles \cup {None}] /\ hydrating' \in [Sessions -> Handles \cup {None}]
      /\ map'[s] = None /\ hydrating'[s] = None
      /\ \A z \in Sessions \ {s} : map'[z] = map[z] /\ hydrating'[z] = hydrating[z]
  BY <1>1 DEF MemoryShape
<1>6. inst' \in [Sessions -> [Handles -> AnyInstance]] /\ inst'[s] = blanks
      /\ \A z \in Sessions \ {s} : inst'[z] = inst[z]
  BY <1>1, <1>2 DEF MemoryShape
<1>7. held' \in [Sessions -> [Branches -> Handles \cup {None}]] /\ held'[s] = nones
      /\ \A z \in Sessions \ {s} : held'[z] = held[z]
  BY <1>1, <1>3 DEF MemoryShape
<1>8. task' \in [Sessions -> [Branches -> AnyTask]] /\ task'[s] = idles
      /\ \A z \in Sessions \ {s} : task'[z] = task[z]
  BY <1>1, <1>4 DEF MemoryShape
<1>9. MemoryShape' /\ OthersKeep(s)
  BY <1>1, <1>5, <1>6, <1>7, <1>8 DEF MemoryShape, OthersKeep
<1>10. Hydration(s)' /\ Shared(s)'
  BY <1>3, <1>5, <1>7 DEF Hydration, Shared
<1>11. Waiting(s)'
  BY <1>4, <1>8 DEF Waiting, Idle
<1>12. Emptied(s)
  BY <1>2, <1>4, <1>6, <1>8 DEF Emptied
<1> QED
  BY <1>9, <1>10, <1>11, <1>12, IdentityFrame

LEMMA SavedIsARow ==
    ASSUME IdentityInv, NEW s \in Sessions, NEW b \in Branches, task[s][b].h \in Handles
    PROVE  LET t == task[s][b]
               r == Saved(s, t)
           IN /\ t \in AnyTask
              /\ r \in AnyRow
              /\ r.v = t.v + 1
              /\ r.edits = t.edits
              /\ r.life = Seen(s).life + (IF t.v > 0 /\ t.life = Seen(s).life THEN 0 ELSE 1)
              /\ r.torn = inst[s][t.h].torn
<1> DEFINE t == task[s][b]
<1>1. t \in AnyTask /\ inst[s][t.h] \in AnyInstance /\ Seen(s) \in AnyRow
  BY SeenIsARow DEF IdentityInv, MemoryShape
<1>2. /\ t.v \in Nat /\ t.v + 1 \in Nat /\ t.edits \in SUBSET Nat /\ inst[s][t.h].torn \in BOOLEAN
      /\ Seen(s).life + (IF t.v > 0 /\ t.life = Seen(s).life THEN 0 ELSE 1) \in Nat
  BY <1>1 DEF AnyTask, AnyInstance, AnyRow
<1> QED
  BY <1>1, <1>2 DEF Saved, AnyRow

(* What an UPDATE or INSERT that matched does to the execution.            *)
SaveAnswers(s, b) ==
    LET t == task[s][b]
        new == Saved(s, t)
    IN \/ /\ UNCHANGED inst
          /\ task'[s][b].h = t.h /\ task'[s][b].edits = t.edits
          /\ task'[s][b].v = new.v /\ task'[s][b].life = new.life
          /\ \A c \in Branches \ {b} : task'[s][c] = task[s][c]
       \/ Returned(s, b) /\ Marking(s, t.h, new.v, new.life)

LEMMA SaveWritesShares ==
    ASSUME IdentityInv, NEW s \in Sessions, NEW b \in Branches, SaveWrites(s, b)
    PROVE  IdentityInv' /\ OthersKeep(s) /\ SaveAnswers(s, b)
<1> DEFINE t == task[s][b]
           new == Saved(s, t)
<1>1. t.kind = "writing" /\ t.h \in Handles
  BY DEF SaveWrites, Asked, IdentityInv, Waiting
<1>2. t \in AnyTask /\ new \in AnyRow
  BY <1>1, SavedIsARow
<1>3. /\ UNCHANGED <<row, edits, map, hydrating, held>> /\ draft' = new
      /\ \/ /\ Sets(s, b, [t EXCEPT !.kind = "recording", !.v = new.v, !.life = new.life])
            /\ UNCHANGED inst
         \/ Returns(s, b) /\ Becomes(s, t.h, MarkSaved(inst[s][t.h], new.v, new.life))
  BY DEF SaveWrites, Wrote
<1>4. row' \in AnyRow /\ draft' \in AnyRow /\ edits' \in Nat /\ new.v \in Nat /\ new.life \in Nat
  BY <1>2, <1>3 DEF IdentityInv, MemoryShape, AnyRow
<1> HIDE DEF new
<1>5. CASE /\ Sets(s, b, [t EXCEPT !.kind = "recording", !.v = new.v, !.life = new.life])
           /\ UNCHANGED inst
  <2> DEFINE u == [t EXCEPT !.kind = "recording", !.v = new.v, !.life = new.life]
  <2>1. /\ u \in AnyTask /\ u.kind = "recording" /\ u.h = t.h /\ u.edits = t.edits
        /\ u.v = new.v /\ u.life = new.life
    BY <1>2, <1>4 DEF AnyTask, Kinds
  <2>2. Sets(s, b, u)
    BY <1>5
  <2>3. inst' \in [Sessions -> [Handles -> AnyInstance]]
    BY <1>5 DEF IdentityInv, MemoryShape
  <2> HIDE DEF u, t
  <2>4. /\ IdentityInv' /\ OthersKeep(s)
        /\ \A c \in Branches : task'[s][c] = IF c = b THEN u ELSE task[s][c]
    BY <1>1, <1>3, <1>4, <1>5, <2>1, <2>2, <2>3, CallMoves
  <2> QED
    BY <1>5, <2>1, <2>4 DEF SaveAnswers, new, t
<1>6. CASE Returns(s, b) /\ Becomes(s, t.h, MarkSaved(inst[s][t.h], new.v, new.life))
  <2>1. Sets(s, b, Idle)
    BY <1>6 DEF Returns
  <2> HIDE DEF t
  <2>2. IdentityInv' /\ OthersKeep(s) /\ Returned(s, b) /\ Marking(s, t.h, new.v, new.life)
    BY <1>1, <1>3, <1>4, <1>6, <2>1, MarkShares
  <2> QED
    BY <2>2 DEF SaveAnswers, new, t
<1> QED
  BY <1>3, <1>5, <1>6

LEMMA SaveRecordsShares ==
    ASSUME IdentityInv, NEW s \in Sessions, NEW b \in Branches, SaveRecords(s, b)
    PROVE  /\ IdentityInv' /\ OthersKeep(s) /\ Returned(s, b)
           /\ Marking(s, task[s][b].h, task[s][b].v, task[s][b].life)
<1>1. task[s][b].h \in Handles /\ task[s][b].v \in Nat /\ task[s][b].life \in Nat
  <2>1. task[s][b].h \in Handles
    BY DEF SaveRecords, Asked, IdentityInv, Waiting
  <2>2. task[s][b] \in AnyTask
    BY DEF IdentityInv, MemoryShape
  <2> QED
    BY <2>1, <2>2 DEF AnyTask
<1>2. /\ row' \in AnyRow /\ draft' \in AnyRow /\ UNCHANGED <<edits, map, hydrating, held>>
      /\ Sets(s, b, Idle)
      /\ Becomes(s, task[s][b].h, MarkSaved(inst[s][task[s][b].h], task[s][b].v, task[s][b].life))
  BY DEF SaveRecords, Returns, dbVars, IdentityInv, MemoryShape
<1> QED
  BY <1>1, <1>2, MarkShares

LEMMA DeleteShares ==
    ASSUME IdentityInv, NEW s \in Sessions, NEW b \in Branches,
           DeleteWrites(s, b) \/ DeleteRecords(s, b)
    PROVE  IdentityInv' /\ OthersKeep(s) /\ CapturesNone(s)
<1> DEFINE t == task[s][b]
<1>1. t.kind \in {"deleting", "forgetting"} /\ t.h \in Handles /\ t \in AnyTask
  BY DEF DeleteWrites, DeleteRecords, Asked, IdentityInv, Waiting, MemoryShape
<1>2. UNCHANGED <<edits, hydrating, held>> /\ row' \in AnyRow /\ draft' \in AnyRow
  <2>1. Seen(s) \in AnyRow
    BY SeenIsARow DEF IdentityInv
  <2>2. [NoRow EXCEPT !.life = Seen(s).life] \in AnyRow
    BY <2>1 DEF AnyRow, NoRow
  <2> QED
    BY <2>2 DEF DeleteWrites, DeleteRecords, Wrote, dbVars, IdentityInv, MemoryShape
<1>3. CASE LetGo(s, t.h) /\ Returns(s, b)
  <2>1. Sets(s, b, Idle)
    BY <1>3 DEF Returns
  <2> HIDE DEF t
  <2> QED
    BY <1>1, <1>2, <1>3, <2>1, LetGoShares
<1>4. CASE Sets(s, b, [t EXCEPT !.kind = "forgetting"]) /\ UNCHANGED <<inst, map>>
  <2> DEFINE u == [t EXCEPT !.kind = "forgetting"]
  <2>1. u \in AnyTask /\ u.kind = "forgetting" /\ u.h = t.h
    BY <1>1 DEF AnyTask, Kinds
  <2>2. Sets(s, b, u)
    BY <1>4
  <2>3. edits' \in Nat /\ inst' \in [Sessions -> [Handles -> AnyInstance]]
    BY <1>2, <1>4 DEF IdentityInv, MemoryShape
  <2> HIDE DEF u, t
  <2>4. /\ IdentityInv' /\ OthersKeep(s)
        /\ \A c \in Branches : task'[s][c] = IF c = b THEN u ELSE task[s][c]
    BY <1>1, <1>2, <1>4, <2>1, <2>2, <2>3, CallMoves
  <2> QED
    BY <1>4, <2>1, <2>4 DEF CapturesNone, Kept, Captures
<1> QED
  BY <1>3, <1>4 DEF DeleteWrites, DeleteRecords

(* What refresh() does with the row it read.                               *)
Refreshed(s, b) ==
    LET h == task[s][b].h
    IN /\ \A k \in Handles \ {h} : inst'[s][k] = inst[s][k]
       /\ inst'[s][h].v = Seen(s).v
       /\ inst'[s][h].life = Seen(s).life
       /\ inst'[s][h].attrs = Seen(s).edits
       /\ inst'[s][h].torn = Captured(s, h)
       /\ \A c \in Branches :
             task'[s][c] = IF c = b THEN Idle ELSE Overtaken(task[s][c], h, inst[s][h].attrs)

LEMMA OvertakenIsATask ==
    ASSUME NEW t \in AnyTask, NEW h, NEW x \in SUBSET Nat
    PROVE  LET u == Overtaken(t, h, x)
           IN /\ u \in AnyTask /\ u.h = t.h /\ u.v = t.v /\ u.life = t.life
              /\ u.kind = t.kind \/ (t.kind = "announcing" /\ u.kind = "overtaken" /\ t.h = h)
              /\ u = t \/ u.edits = x
  BY DEF Overtaken, AnyTask, Kinds

LEMMA RefreshesShares ==
    ASSUME IdentityInv, NEW s \in Sessions, NEW b \in Branches, Refreshes(s, b)
    PROVE  IdentityInv' /\ OthersKeep(s) /\ (CapturesNone(s) \/ Refreshed(s, b))
<1> DEFINE h == task[s][b].h
           x == inst[s][h].attrs
           i == [Read(Seen(s)) EXCEPT !.gone = inst[s][h].gone, !.torn = Captured(s, h)]
           after == [c \in Branches |-> IF c = b THEN Idle ELSE Overtaken(task[s][c], h, x)]
<1>1. h \in Handles
  BY DEF Refreshes, Asked, IdentityInv, Waiting
<1>2. /\ UNCHANGED <<row, draft, edits, map, hydrating, held>>
      /\ \/ Sets(s, b, Idle) /\ UNCHANGED inst
         \/ Becomes(s, h, i) /\ task' = [task EXCEPT ![s] = after]
  BY DEF Refreshes, dbVars
<1>3. Idle \in AnyTask /\ Idle.kind = "idle"
  BY IdleIsATask DEF Idle
<1>4. CASE Sets(s, b, Idle) /\ UNCHANGED inst
  BY <1>2, <1>3, <1>4, CallAsks DEF Captures
<1>5. CASE Becomes(s, h, i) /\ task' = [task EXCEPT ![s] = after]
  <2>1. Seen(s) \in AnyRow /\ Read(Seen(s)) \in AnyInstance /\ inst[s][h] \in AnyInstance
    BY <1>1, SeenIsARow, ReadIsAnInstance DEF IdentityInv, MemoryShape
  <2>2. Captured(s, h) \in BOOLEAN
    BY DEF Captured
  <2>3. i \in AnyInstance
    BY <2>1, <2>2 DEF AnyInstance
  <2>4. /\ i.gone = inst[s][h].gone /\ i.torn = Captured(s, h)
        /\ i.v = Seen(s).v /\ i.life = Seen(s).life /\ i.attrs = Seen(s).edits
    BY <2>1 DEF AnyInstance, Read
  <2>5. x \in SUBSET Nat /\ \A c \in Branches : task[s][c] \in AnyTask
    BY <2>1 DEF AnyInstance, IdentityInv, MemoryShape
  <2>6. ASSUME NEW c \in Branches, c # b
        PROVE  LET t == task[s][c]
                   u == after[c]
               IN /\ u = Overtaken(t, h, x) /\ u \in AnyTask /\ u.h = t.h
                  /\ u.kind = t.kind \/ (t.kind = "announcing" /\ u.kind = "overtaken")
    <3>1. after[c] = Overtaken(task[s][c], h, x)
      BY <2>6
    <3> HIDE DEF after, h, x
    <3> QED
      BY <2>5, <3>1, OvertakenIsATask
  <2>7. after[b] = Idle
    OBVIOUS
  <2>8. after \in [Branches -> AnyTask]
    <3>1. DOMAIN after = Branches /\ after = [c \in Branches |-> after[c]]
      OBVIOUS
    <3>2. \A c \in Branches : after[c] \in AnyTask
      BY <1>3, <2>6, <2>7
    <3> HIDE DEF after
    <3> QED
      BY <3>1, <3>2
  <2> HIDE DEF i, h, x, after
  <2>9. /\ inst' \in [Sessions -> [Handles -> AnyInstance]]
        /\ \A z \in Sessions : \A k \in Handles :
                 inst'[z][k] = IF z = s /\ k = h THEN i ELSE inst[z][k]
        /\ \A z \in Sessions \ {s} : inst'[z] = inst[z]
    BY <1>1, <1>5, <2>3, BecomesInstance DEF IdentityInv
  <2>10. /\ task' \in [Sessions -> [Branches -> AnyTask]] /\ task'[s] = after
         /\ \A z \in Sessions \ {s} : task'[z] = task[z]
    BY <1>5, <2>8 DEF IdentityInv, MemoryShape
  <2>11. MemoryShape' /\ OthersKeep(s)
    BY <1>2, <2>9, <2>10 DEF IdentityInv, MemoryShape, OthersKeep
  <2>12. Hydration(s)' /\ Shared(s)'
    <3>1. \A k \in Handles : inst'[s][k].gone = inst[s][k].gone
      BY <2>4, <2>9
    <3>2. /\ hydrating[s] \in Handles \cup {None}
          /\ \A c \in Branches : held[s][c] \in Handles \cup {None}
          /\ Hydration(s) /\ Shared(s)
      BY DEF IdentityInv, MemoryShape
    <3> QED
      BY <1>2, <3>1, <3>2 DEF Hydration, Shared, Mine
  <2>13. Waiting(s)'
    <3>1. Waiting(s)
      BY DEF IdentityInv
    <3> QED
      BY <1>2, <1>3, <2>6, <2>7, <2>10, <3>1 DEF Waiting
  <2>14. Refreshed(s, b)
    BY <1>1, <2>4, <2>6, <2>7, <2>9, <2>10 DEF Refreshed, h, x
  <2> QED
    BY <2>11, <2>12, <2>13, <2>14, IdentityFrame
<1> QED
  BY <1>2, <1>4, <1>5

(* A transaction ends: its handler returned, threw, or lost a conflict.    *)
Ending(s) == Commit(s) \/ Throw(s) \/ \E b \in Branches : Conflicts(s, b)

LEMMA EndingShares ==
    ASSUME IdentityInv, NEW s \in Sessions, Ending(s)
    PROVE  IdentityInv' /\ OthersKeep(s) /\ Emptied(s)
<1>1. Ends(s)
  BY DEF Ending, Commit, Throw, Conflicts, Abandon
<1>2. row \in AnyRow /\ draft \in AnyRow /\ NoRow \in AnyRow /\ Seen(s) \in AnyRow
  BY SeenIsARow DEF IdentityInv, MemoryShape, AnyRow, NoRow
<1>3. row' \in AnyRow /\ draft' \in AnyRow
  BY <1>2 DEF Ending, Commit, Throw, Conflicts, Abandon
<1> QED
  BY <1>1, <1>3, EndsShares

LEMMA ModelStepKinds ==
    ASSUME [ModelNext]_modelVars
    PROVE  \/ \E s \in Sessions, b \in Branches :
                 \/ Find(s, b) \/ Make(s, b) \/ Save(s, b) \/ Delete(s, b) \/ Refresh(s, b)
                 \/ Edit(s, b) \/ Found(s, b) \/ Hydrated(s, b) \/ SaveSends(s, b)
                 \/ SaveWrites(s, b) \/ SaveRecords(s, b) \/ DeleteWrites(s, b)
                 \/ DeleteRecords(s, b) \/ Refreshes(s, b)
           \/ \E s \in Sessions : Ending(s)
           \/ UNCHANGED modelVars
  BY DEF ModelNext, BranchStep, Ending

LEMMA IdentityStep == ASSUME IdentityInv, [ModelNext]_modelVars PROVE IdentityInv'
<1>1. CASE UNCHANGED modelVars
  BY <1>1 DEF modelVars, memory, dbVars, IdentityInv, MemoryShape, Hydration, Waiting, Shared, Mine
<1> QED
  BY <1>1, ModelStepKinds, FindShares, MakeShares, CallShares, EditShares, FoundShares,
     HydratedShares, SaveShares, SaveSendsShares, SaveWritesShares, SaveRecordsShares, DeleteShares,
     RefreshesShares, EndingShares

LEMMA IdentityInit == ModelInit => IdentityInv
<1> SUFFICES ASSUME ModelInit PROVE IdentityInv
  OBVIOUS
<1>1. /\ NoRow \in AnyRow /\ [NoRow EXCEPT !.v = 1, !.life = 1] \in AnyRow
      /\ Blank \in AnyInstance /\ Idle \in AnyTask /\ Idle.kind = "idle"
  BY IdleIsATask DEF AnyRow, NoRow, AnyInstance, Blank, Idle
<1>2. MemoryShape
  BY <1>1 DEF ModelInit, MemoryShape
<1>3. ASSUME NEW s \in Sessions PROVE Hydration(s) /\ Waiting(s) /\ Shared(s)
  BY <1>1, <1>3 DEF ModelInit, Hydration, Waiting, Shared
<1> QED
  BY <1>2, <1>3 DEF IdentityInv

(* The branches of an execution never work with two instances of one       *)
(* entity: a find that overlaps a hydration waits for it, and a second     *)
(* make() is refused (ModelSession.find, hydrate and make).                *)
THEOREM BranchesShareAnInstance == ModelSpec => []OneInstance
<1>1. ModelInit => IdentityInv
  BY IdentityInit
<1>2. IdentityInv /\ [ModelNext]_modelVars => IdentityInv'
  BY IdentityStep
<1>3. IdentityInv => OneInstance
  BY DEF IdentityInv, Shared, OneInstance
<1> QED
  BY <1>1, <1>2, <1>3, PTL DEF ModelSpec

-----------------------------------------------------------------------------
(* The versions.                                                           *)

(* What an execution read at version v of creation `life' is not ahead of  *)
(* the row r it sees.                                                      *)
Behind(v, life, r) == life < r.life \/ (life = r.life /\ (r.v = 0 \/ v <= r.v))

(* When a write at that version would match r, the edits x it carries lack *)
(* none of r's, unless torn, and none of the committed row's (q) in any    *)
(* case.                                                                   *)
Covers(r, q, v, life, x, unsafe) ==
    v > 0 =>
        /\ Behind(v, life, r)
        /\ v = r.v /\ life = r.life =>
              /\ q.v > 0 /\ life = q.life => q.edits \subseteq x
              /\ ~unsafe => r.edits \subseteq x

InstanceCovers(s, h) ==
    LET i == inst[s][h] IN Covers(Seen(s), row, i.v, i.life, i.attrs, i.torn)

CaptureCovers(s, b) ==
    LET t == task[s][b]
        i == inst[s][t.h]
    IN t.kind \in Captures =>
         /\ ~i.torn => t.edits \subseteq i.attrs
         /\ Covers(Seen(s), row, t.v, t.life, t.edits, i.torn)
         /\ Covers(Seen(s), row, t.v, t.life, i.attrs, TRUE)

(* r is replaced by a later version, by a deletion or by another creation. *)
Supersedes(q, r) ==
    \/ q.life > r.life
    \/ q.life = r.life /\ q.v = 0
    \/ q.life = r.life /\ r.v > 0 /\ q.v > r.v

(* The uncommitted row follows the committed one and kept its edits.       *)
DraftFollows ==
    owner # None =>
        /\ Supersedes(draft, row)
        /\ row.v > 0 /\ draft.v > 0 /\ draft.life = row.life => row.edits \subseteq draft.edits

VersionInv ==
    /\ IdentityInv
    /\ DraftFollows
    /\ \A s \in Sessions : /\ \A h \in Handles : InstanceCovers(s, h)
                           /\ \A b \in Branches : CaptureCovers(s, b)

LEMMA CoversLater ==
    ASSUME NEW r \in AnyRow, NEW q, NEW p \in AnyRow, NEW o, NEW v \in Nat, NEW life \in Nat,
           NEW x, NEW unsafe, Covers(r, q, v, life, x, unsafe),
           (p = r /\ o = q) \/ Supersedes(p, r)
    PROVE  Covers(p, o, v, life, x, unsafe)
<1>1. CASE p = r /\ o = q
  BY <1>1
<1>2. CASE Supersedes(p, r)
  <2>1. p.v \in Nat /\ p.life \in Nat /\ r.v \in Nat /\ r.life \in Nat
    BY DEF AnyRow
  <2>2. v > 0 => Behind(v, life, p) /\ ~(v = p.v /\ life = p.life)
    BY <1>2, <2>1 DEF Covers, Supersedes, Behind
  <2> QED
    BY <2>2 DEF Covers
<1> QED
  BY <1>1, <1>2

LEMMA CoversWider ==
    ASSUME NEW r, NEW q, NEW v, NEW life, NEW x, NEW y, NEW unsafe \in BOOLEAN, NEW torn \in BOOLEAN,
           Covers(r, q, v, life, x, unsafe), x \subseteq y, unsafe => torn
    PROVE  Covers(r, q, v, life, y, torn)
  BY DEF Covers

LEMMA SeenCarries ==
    ASSUME VersionInv, NEW s \in Sessions, row.v > 0, Seen(s).v > 0,
           Seen(s).life = row.life
    PROVE  row.edits \subseteq Seen(s).edits
  BY NamesAssumption DEF VersionInv, DraftFollows, Seen

(* Where the row an execution sees stands after a step.                    *)
Advances(s) == (Seen(s)' = Seen(s) /\ row' = row) \/ Supersedes(Seen(s)', Seen(s))

LEMMA OthersCover ==
    ASSUME VersionInv, IdentityInv', NEW s \in Sessions, OthersKeep(s),
           NEW z \in Sessions \ {s}, Advances(z)
    PROVE  /\ \A h \in Handles : InstanceCovers(z, h)'
           /\ \A b \in Branches : CaptureCovers(z, b)'
<1>1. inst'[z] = inst[z] /\ task'[z] = task[z]
  BY DEF OthersKeep
<1>2. Seen(z) \in AnyRow /\ Seen(z)' \in AnyRow
  BY SeenIsARow DEF VersionInv, IdentityInv, MemoryShape, Seen
<1>3. ASSUME NEW h \in Handles PROVE InstanceCovers(z, h)'
  <2> DEFINE i == inst[z][h]
  <2>1. i.v \in Nat /\ i.life \in Nat
    BY DEF VersionInv, IdentityInv, MemoryShape, AnyInstance
  <2>2. Covers(Seen(z), row, i.v, i.life, i.attrs, i.torn)
    BY DEF VersionInv, InstanceCovers
  <2>3. Covers(Seen(z)', row', i.v, i.life, i.attrs, i.torn)
    BY <1>2, <2>1, <2>2, CoversLater DEF Advances
  <2> QED
    BY <1>1, <2>3 DEF InstanceCovers
<1>4. ASSUME NEW b \in Branches PROVE CaptureCovers(z, b)'
  <2> DEFINE t == task[z][b]
             i == inst[z][t.h]
  <2>1. t.v \in Nat /\ t.life \in Nat
    BY DEF VersionInv, IdentityInv, MemoryShape, AnyTask
  <2>2. t.kind \in Captures =>
           /\ ~i.torn => t.edits \subseteq i.attrs
           /\ Covers(Seen(z), row, t.v, t.life, t.edits, i.torn)
           /\ Covers(Seen(z), row, t.v, t.life, i.attrs, TRUE)
    BY DEF VersionInv, CaptureCovers
  <2>3. ASSUME NEW x, NEW unsafe, Covers(Seen(z), row, t.v, t.life, x, unsafe)
        PROVE  Covers(Seen(z)', row', t.v, t.life, x, unsafe)
    BY <1>2, <2>1, <2>3, CoversLater DEF Advances
  <2>4. t.kind \in Captures => Covers(Seen(z)', row', t.v, t.life, t.edits, i.torn)
    BY <2>2, <2>3
  <2>5. t.kind \in Captures => Covers(Seen(z)', row', t.v, t.life, i.attrs, TRUE)
    BY <2>2, <2>3
  <2> QED
    BY <1>1, <2>2, <2>4, <2>5 DEF CaptureCovers
<1> QED
  BY <1>3, <1>4

LEMMA VersionFrame ==
    ASSUME VersionInv, IdentityInv', NEW s \in Sessions, OthersKeep(s), DraftFollows',
           \A z \in Sessions \ {s} : Advances(z),
           \A h \in Handles : InstanceCovers(s, h)',
           \A b \in Branches : CaptureCovers(s, b)'
    PROVE  VersionInv'
<1>1. ASSUME NEW z \in Sessions \ {s}
      PROVE /\ \A h \in Handles : InstanceCovers(z, h)'
            /\ \A b \in Branches : CaptureCovers(z, b)'
  BY OthersCover
<1> QED
  BY <1>1 DEF VersionInv

(* What every execution sees stays as it was.                              *)
LEMMA RowStays ==
    ASSUME UNCHANGED dbVars
    PROVE  /\ \A z \in Sessions : Seen(z)' = Seen(z) /\ Advances(z)
           /\ DraftFollows => DraftFollows'
  BY DEF dbVars, Seen, Advances, DraftFollows

LEMMA QuietCovers ==
    ASSUME VersionInv, IdentityInv', NEW s \in Sessions, CapturesNone(s), Advances(s)
    PROVE  /\ \A h \in Handles : InstanceCovers(s, h)'
           /\ \A b \in Branches : CaptureCovers(s, b)'
<1>1. Seen(s) \in AnyRow /\ Seen(s)' \in AnyRow
  BY SeenIsARow DEF VersionInv, IdentityInv, MemoryShape, Seen
<1>2. \A h \in Handles : inst[s][h] \in AnyInstance /\ inst'[s][h] \in AnyInstance
  BY DEF VersionInv, IdentityInv, MemoryShape
<1>3. ASSUME NEW h \in Handles PROVE InstanceCovers(s, h)'
  <2> DEFINE i == inst[s][h]
             j == inst'[s][h]
  <2>0. /\ i.v \in Nat /\ i.life \in Nat /\ i.torn \in BOOLEAN
        /\ j.v \in Nat /\ j.life \in Nat /\ j.torn \in BOOLEAN
    BY <1>2 DEF AnyInstance
  <2>1. Covers(Seen(s), row, j.v, j.life, j.attrs, j.torn)
    <3>1. CASE Kept(s, h)
      <4>1. Covers(Seen(s), row, i.v, i.life, i.attrs, i.torn)
        BY DEF VersionInv, InstanceCovers
      <4>2. Covers(Seen(s), row, i.v, i.life, j.attrs, i.torn)
        BY <2>0, <3>1, <4>1, CoversWider DEF Kept
      <4> QED
        BY <3>1, <4>2 DEF Kept
    <3>2. CASE j.v = 0
      BY <3>2 DEF Covers
    <3>3. CASE j = Read(Seen(s))
      <4>1. Seen(s).v \in Nat /\ Seen(s).life \in Nat
        BY <1>1 DEF AnyRow
      <4>2. j.v = Seen(s).v /\ j.life = Seen(s).life /\ j.attrs = Seen(s).edits
        BY <3>3 DEF Read
      <4> HIDE DEF j
      <4> QED
        BY <4>1, <4>2, SeenCarries DEF Covers, Behind
    <3> QED
      BY <3>1, <3>2, <3>3 DEF CapturesNone, Reborn
  <2> HIDE DEF j
  <2>2. Covers(Seen(s)', row', j.v, j.life, j.attrs, j.torn)
    BY <1>1, <2>0, <2>1, CoversLater DEF Advances
  <2> QED
    BY <2>2 DEF InstanceCovers, j
<1>4. ASSUME NEW b \in Branches PROVE CaptureCovers(s, b)'
  <2> DEFINE t == task[s][b]
             i == inst[s][t.h]
             j == inst'[s][t.h]
  <2>1. CASE task'[s][b].kind \notin Captures
    BY <2>1 DEF CaptureCovers
  <2>2. CASE task'[s][b] = t /\ t.kind \in Captures
    <3>1. t.h \in Handles /\ t.v \in Nat /\ t.life \in Nat
      <4>1. t.h \in Handles
        BY <2>2 DEF VersionInv, IdentityInv, Waiting, Captures
      <4>2. t \in AnyTask
        BY DEF VersionInv, IdentityInv, MemoryShape
      <4> QED
        BY <4>1, <4>2 DEF AnyTask
    <3>2. Kept(s, t.h)
      BY <3>1 DEF CapturesNone, Reborn
    <3>3. i.torn \in BOOLEAN /\ j.torn = i.torn /\ i.attrs \subseteq j.attrs
      BY <1>2, <3>1, <3>2 DEF Kept, AnyInstance
    <3>4. /\ ~i.torn => t.edits \subseteq i.attrs
          /\ Covers(Seen(s), row, t.v, t.life, t.edits, i.torn)
          /\ Covers(Seen(s), row, t.v, t.life, i.attrs, TRUE)
      BY <2>2 DEF VersionInv, CaptureCovers
    <3> HIDE DEF i, j
    <3>5. /\ ~j.torn => t.edits \subseteq j.attrs
          /\ Covers(Seen(s), row, t.v, t.life, t.edits, j.torn)
          /\ Covers(Seen(s), row, t.v, t.life, j.attrs, TRUE)
      BY <3>3, <3>4, CoversWider
    <3>6. ASSUME NEW x, NEW unsafe, Covers(Seen(s), row, t.v, t.life, x, unsafe)
          PROVE  Covers(Seen(s)', row', t.v, t.life, x, unsafe)
      BY <1>1, <3>1, <3>6, CoversLater DEF Advances
    <3>7. Covers(Seen(s)', row', t.v, t.life, t.edits, j.torn)
      BY <3>5, <3>6
    <3>8. Covers(Seen(s)', row', t.v, t.life, j.attrs, TRUE)
      BY <3>5, <3>6
    <3> QED
      BY <2>2, <3>5, <3>7, <3>8 DEF CaptureCovers, j
  <2> QED
    BY <2>1, <2>2 DEF CapturesNone
<1> QED
  BY <1>3, <1>4

(* A step that writes nothing keeps every edit.                            *)
StepKeeps ==
    /\ Keeps(row, row')
    /\ \A s \in Sessions : open'[s] => Keeps(Seen(s), Seen(s)')

LEMMA QuietVersions ==
    ASSUME VersionInv, IdentityInv', NEW s \in Sessions, OthersKeep(s), CapturesNone(s), UNCHANGED dbVars
    PROVE  VersionInv' /\ StepKeeps
<1>1. /\ \A z \in Sessions : Seen(z)' = Seen(z) /\ Advances(z)
      /\ DraftFollows'
  BY RowStays DEF VersionInv
<1>2. VersionInv'
  BY <1>1, QuietCovers, VersionFrame
<1>3. StepKeeps
  BY <1>1 DEF StepKeeps, Keeps, dbVars
<1> QED
  BY <1>2, <1>3

LEMMA CapturingVersions ==
    ASSUME VersionInv, IdentityInv', NEW s \in Sessions, NEW b \in Branches, OthersKeep(s),
           Capturing(s, b), UNCHANGED dbVars
    PROVE  VersionInv' /\ StepKeeps
<1>1. /\ \A z \in Sessions : Seen(z)' = Seen(z) /\ Advances(z)
      /\ DraftFollows' /\ row' = row /\ inst' = inst
  BY RowStays DEF VersionInv, dbVars, Capturing
<1>2. \A h \in Handles : InstanceCovers(s, h)'
  BY <1>1 DEF VersionInv, InstanceCovers
<1>3. ASSUME NEW c \in Branches PROVE CaptureCovers(s, c)'
  <2>1. CASE c # b
    <3>1. task'[s][c] = task[s][c]
      BY <2>1 DEF Capturing
    <3> QED
      BY <1>1, <3>1 DEF VersionInv, CaptureCovers
  <2>2. CASE c = b
    <3> DEFINE u == task[s][b]
    <3>1. PICK t \in AnyTask :
             /\ t.h \in Handles
             /\ task'[s][b] = t
             /\ \/ t.edits = inst[s][t.h].attrs /\ t.v = inst[s][t.h].v /\ t.life = inst[s][t.h].life
                \/ /\ u.kind \in Captures /\ t.h = u.h /\ t.v = u.v /\ t.life = u.life
                   /\ t.edits \in {u.edits, inst[s][t.h].attrs}
      BY DEF Capturing
    <3> DEFINE i == inst[s][t.h]
    <3>2. i.torn \in BOOLEAN
      BY <3>1 DEF VersionInv, IdentityInv, MemoryShape, AnyInstance
    <3>3. CASE t.edits = i.attrs /\ t.v = i.v /\ t.life = i.life
      <4>1. Covers(Seen(s), row, i.v, i.life, i.attrs, i.torn)
        BY <3>1 DEF VersionInv, InstanceCovers
      <4>2. Covers(Seen(s), row, i.v, i.life, i.attrs, TRUE)
        BY <4>1 DEF Covers
      <4> QED
        BY <1>1, <2>2, <3>1, <3>3, <4>1, <4>2 DEF CaptureCovers
    <3>4. CASE /\ u.kind \in Captures /\ t.h = u.h /\ t.v = u.v /\ t.life = u.life
               /\ t.edits \in {u.edits, i.attrs}
      <4>1. /\ ~i.torn => u.edits \subseteq i.attrs
            /\ Covers(Seen(s), row, t.v, t.life, u.edits, i.torn)
            /\ Covers(Seen(s), row, t.v, t.life, i.attrs, TRUE)
        BY <3>4 DEF VersionInv, CaptureCovers
      <4>2. Covers(Seen(s), row, t.v, t.life, i.attrs, i.torn)
        BY <4>1 DEF Covers
      <4>3. /\ ~i.torn => t.edits \subseteq i.attrs
            /\ Covers(Seen(s), row, t.v, t.life, t.edits, i.torn)
        BY <3>4, <4>1, <4>2
      <4> QED
        BY <1>1, <2>2, <3>1, <4>1, <4>3 DEF CaptureCovers
    <3> QED
      BY <3>1, <3>3, <3>4
  <2> QED
    BY <2>1, <2>2
<1>4. VersionInv'
  BY <1>1, <1>2, <1>3, VersionFrame
<1>5. StepKeeps
  BY <1>1 DEF StepKeeps, Keeps
<1> QED
  BY <1>4, <1>5

(* A save ends with no statement, or with the last of them, and the        *)
(* instance is marked.                                                     *)
LEMMA MarkingVersions ==
    ASSUME VersionInv, IdentityInv', NEW s \in Sessions, NEW b \in Branches, OthersKeep(s),
           task[s][b].kind \in Captures, Returned(s, b),
           Marking(s, task[s][b].h, task[s][b].v, task[s][b].life), UNCHANGED dbVars
    PROVE  VersionInv' /\ StepKeeps
<1> DEFINE t == task[s][b]
           i == inst[s][t.h]
<1>1. /\ IdentityInv' /\ OthersKeep(s) /\ Returned(s, b)
      /\ Marking(s, t.h, t.v, t.life)
  OBVIOUS
<1>2. t.kind \in Captures /\ t.h \in Handles
  BY DEF VersionInv, IdentityInv, Waiting, Captures
<1>3. /\ \A z \in Sessions : Seen(z)' = Seen(z) /\ Advances(z)
      /\ DraftFollows' /\ row' = row
  BY RowStays DEF VersionInv, dbVars
<1>4. /\ ~i.torn => t.edits \subseteq i.attrs
      /\ Covers(Seen(s), row, t.v, t.life, t.edits, i.torn)
      /\ Covers(Seen(s), row, t.v, t.life, i.attrs, TRUE)
  BY <1>2 DEF VersionInv, CaptureCovers
<1>5. Covers(Seen(s), row, t.v, t.life, i.attrs, i.torn)
  BY <1>4 DEF Covers
<1>6. ASSUME NEW h \in Handles PROVE InstanceCovers(s, h)'
  <2>1. CASE h = t.h
    BY <1>1, <1>3, <1>5, <2>1 DEF Marking, InstanceCovers
  <2>2. CASE h # t.h
    <3>1. inst'[s][h] = inst[s][h] /\ InstanceCovers(s, h)
      BY <1>1, <2>2 DEF Marking, VersionInv
    <3> QED
      BY <1>3, <3>1 DEF InstanceCovers
  <2> QED
    BY <2>1, <2>2
<1>7. ASSUME NEW c \in Branches PROVE CaptureCovers(s, c)'
  <2>1. CASE c = b
    BY <1>1, <2>1 DEF Returned, Idle, CaptureCovers, Captures
  <2>2. CASE c # b /\ task[s][c].kind \in Captures
    <3> DEFINE u == task[s][c]
    <3>1. task'[s][c] = u /\ CaptureCovers(s, c)
      BY <1>1, <2>2 DEF Returned, VersionInv
    <3>2. u.h \in Handles
      BY <2>2 DEF VersionInv, IdentityInv, Waiting, Captures
    <3>3. inst'[s][u.h].attrs = inst[s][u.h].attrs /\ inst'[s][u.h].torn = inst[s][u.h].torn
      BY <1>1, <3>2 DEF Marking
    <3> QED
      BY <1>3, <3>1, <3>3 DEF CaptureCovers
  <2>3. CASE c # b /\ task[s][c].kind \notin Captures
    BY <1>1, <2>3 DEF Returned, CaptureCovers
  <2> QED
    BY <2>1, <2>2, <2>3
<1>8. VersionInv'
  BY <1>1, <1>3, <1>6, <1>7, VersionFrame
<1>9. StepKeeps
  BY <1>3 DEF StepKeeps, Keeps
<1> QED
  BY <1>8, <1>9

(* A refresh() in the middle of a save tears the instance.                 *)
LEMMA RefreshedVersions ==
    ASSUME VersionInv, IdentityInv', NEW s \in Sessions, NEW b \in Branches, OthersKeep(s),
           Refreshed(s, b), task[s][b].kind = "refreshing", UNCHANGED dbVars
    PROVE  VersionInv' /\ StepKeeps
<1> DEFINE h == task[s][b].h
           r == Seen(s)
<1>1. /\ \A z \in Sessions : Seen(z)' = Seen(z) /\ Advances(z)
      /\ DraftFollows' /\ row' = row
  BY RowStays DEF VersionInv, dbVars
<1>2. h \in Handles /\ r.v \in Nat /\ r.life \in Nat
  <2>1. r \in AnyRow
    BY SeenIsARow DEF VersionInv, IdentityInv
  <2> QED
    BY <2>1 DEF VersionInv, IdentityInv, Waiting, AnyRow
<1>3. row.v > 0 /\ r.v > 0 /\ r.life = row.life => row.edits \subseteq r.edits
  BY SeenCarries
<1>4. ASSUME NEW k \in Handles PROVE InstanceCovers(s, k)'
  <2>1. CASE k = h
    <3>1. Covers(r, row, r.v, r.life, r.edits, inst'[s][h].torn)
      BY <1>2, <1>3 DEF Covers, Behind
    <3> QED
      BY <1>1, <2>1, <3>1 DEF Refreshed, InstanceCovers
  <2>2. CASE k # h
    <3>1. inst'[s][k] = inst[s][k] /\ InstanceCovers(s, k)
      BY <2>2 DEF Refreshed, VersionInv
    <3> QED
      BY <1>1, <3>1 DEF InstanceCovers
  <2> QED
    BY <2>1, <2>2
<1>5. ASSUME NEW c \in Branches PROVE CaptureCovers(s, c)'
  <2> DEFINE t == task[s][c]
  <2>0. t \in AnyTask /\ inst[s][h].attrs \in SUBSET Nat
    <3>1. MemoryShape
      BY DEF VersionInv, IdentityInv
    <3>2. inst[s][h] \in AnyInstance
      BY <3>1, <1>2 DEF MemoryShape
    <3>3. QED
      BY <3>1, <3>2 DEF MemoryShape, AnyInstance
  <2>1. CASE c = b
    BY <2>1 DEF Refreshed, Idle, CaptureCovers, Captures
  <2>2. CASE c # b /\ t.kind \in Captures /\ t.h = h
    <3> DEFINE u == Overtaken(t, h, inst[s][h].attrs)
    <3>1. task'[s][c] = u /\ CaptureCovers(s, c)
      BY <2>2 DEF Refreshed, VersionInv
    <3>2. u.h = h /\ u.v = t.v /\ u.life = t.life /\ u.edits \in {t.edits, inst[s][h].attrs}
      BY <2>0, <2>2, OvertakenIsATask
    <3>3. inst'[s][h].torn = TRUE /\ inst'[s][h].attrs = r.edits
      BY <2>2 DEF Refreshed, Captured
    <3>4. /\ Covers(r, row, t.v, t.life, t.edits, TRUE)
          /\ Covers(r, row, t.v, t.life, inst[s][h].attrs, TRUE)
      BY <2>2, <3>1 DEF CaptureCovers, Covers
    <3>5. Covers(r, row, u.v, u.life, u.edits, TRUE)
      BY <3>2, <3>4
    <3>6. Covers(r, row, u.v, u.life, r.edits, TRUE)
      BY <1>3, <3>2, <3>4 DEF Covers
    <3> HIDE DEF u
    <3> QED
      BY <1>1, <2>2, <3>1, <3>2, <3>3, <3>5, <3>6 DEF CaptureCovers
  <2>3. CASE c # b /\ t.kind \in Captures /\ t.h # h
    <3>1. task'[s][c] = t /\ CaptureCovers(s, c)
      BY <2>3 DEF Refreshed, Overtaken, VersionInv
    <3>2. t.h \in Handles
      BY <2>3 DEF VersionInv, IdentityInv, Waiting, Captures
    <3>3. inst'[s][t.h] = inst[s][t.h]
      BY <2>3, <3>2 DEF Refreshed
    <3> QED
      BY <1>1, <3>1, <3>3 DEF CaptureCovers
  <2>4. CASE c # b /\ t.kind \notin Captures
    <3>1. task'[s][c] = t
      BY <2>4 DEF Refreshed, Overtaken, Captures
    <3> QED
      BY <2>4, <3>1 DEF CaptureCovers
  <2> QED
    BY <2>1, <2>2, <2>3, <2>4
<1>6. VersionInv'
  BY <1>1, <1>4, <1>5, VersionFrame
<1>7. StepKeeps
  BY <1>1 DEF StepKeeps, Keeps
<1> QED
  BY <1>6, <1>7

(* A statement that changes a row holds its lock.                          *)
LEMMA WritersLock ==
    ASSUME NEW s \in Sessions, NEW v, ~Waits(s, v), Matches(s, v)
    PROVE  owner \in {None, s}
  BY DEF Waits, Matches, Seen

(* The row a transaction writes follows the committed one.                 *)
LEMMA WriteFollows ==
    ASSUME VersionInv, NEW s \in Sessions, NEW r \in AnyRow, owner \in {None, s}, Wrote(s, r),
           Supersedes(r, Seen(s)),
           row.v > 0 /\ r.v > 0 /\ r.life = row.life => row.edits \subseteq r.edits
    PROVE  /\ DraftFollows'
           /\ \A z \in Sessions : Advances(z)
           /\ Seen(s)' = r /\ row' = row
           /\ \A z \in Sessions \ {s} : Seen(z)' = Seen(z)
<1>1. owner' = s /\ draft' = r /\ row' = row /\ s # None
  BY NamesAssumption DEF Wrote
<1>2. Seen(s)' = r /\ \A z \in Sessions \ {s} : Seen(z)' = row /\ Seen(z) = row
  BY <1>1, NamesAssumption DEF Seen
<1>3. Supersedes(r, row)
  <2>1. row \in AnyRow /\ draft \in AnyRow
    BY DEF VersionInv, IdentityInv, MemoryShape
  <2>2. CASE owner # s
    BY <2>2 DEF Seen
  <2>3. CASE owner = s
    <3>1. Seen(s) = draft /\ Supersedes(draft, row)
      BY <1>1, <2>3 DEF Seen, VersionInv, DraftFollows
    <3> QED
      BY <2>1, <3>1 DEF Supersedes, AnyRow
  <2> QED
    BY <2>2, <2>3
<1>4. DraftFollows'
  BY <1>1, <1>3 DEF DraftFollows
<1>5. \A z \in Sessions : Advances(z)
  BY <1>1, <1>2 DEF Advances
<1> QED
  BY <1>1, <1>2, <1>4, <1>5

LEMMA DeleteVersions ==
    ASSUME VersionInv, NEW s \in Sessions, NEW b \in Branches,
           DeleteWrites(s, b) \/ DeleteRecords(s, b)
    PROVE  VersionInv' /\ StepKeeps
<1>1. IdentityInv' /\ OthersKeep(s) /\ CapturesNone(s)
  BY DeleteShares DEF VersionInv
<1>2. CASE DeleteRecords(s, b)
  <2>1. UNCHANGED dbVars
    BY <1>2 DEF DeleteRecords
  <2> QED
    BY <1>1, <2>1, QuietVersions
<1>3. CASE DeleteWrites(s, b)
  <2> DEFINE r == [NoRow EXCEPT !.life = Seen(s).life]
  <2>1. /\ ~Waits(s, task[s][b].v) /\ Matches(s, task[s][b].v) /\ Wrote(s, r)
    BY <1>3 DEF DeleteWrites
  <2>2. Seen(s) \in AnyRow
    BY SeenIsARow DEF VersionInv, IdentityInv
  <2>3. r \in AnyRow /\ r.v = 0 /\ r.life = Seen(s).life
    BY <2>2 DEF AnyRow, NoRow
  <2> HIDE DEF r
  <2>4. Supersedes(r, Seen(s))
    BY <2>3 DEF Supersedes
  <2>5. owner \in {None, s}
    BY <2>1, WritersLock
  <2>6. /\ DraftFollows'
        /\ \A z \in Sessions : Advances(z)
        /\ Seen(s)' = r /\ row' = row
        /\ \A z \in Sessions \ {s} : Seen(z)' = Seen(z)
    BY <2>1, <2>3, <2>4, <2>5, WriteFollows
  <2>7. VersionInv'
    BY <1>1, <2>6, QuietCovers, VersionFrame
  <2>8. StepKeeps
    BY <2>3, <2>6 DEF StepKeeps, Keeps
  <2> QED
    BY <2>7, <2>8
<1> QED
  BY <1>2, <1>3

LEMMA SaveVersions ==
    ASSUME VersionInv, NEW s \in Sessions, NEW b \in Branches, SaveWrites(s, b)
    PROVE  VersionInv' /\ StepKeeps
<1> DEFINE t == task[s][b]
           i == inst[s][t.h]
           new == Saved(s, t)
           old == Seen(s)
<1>1. IdentityInv' /\ OthersKeep(s) /\ SaveAnswers(s, b)
  BY SaveWritesShares DEF VersionInv
<1>2. /\ ~Waits(s, t.v) /\ Matches(s, t.v) /\ Wrote(s, new) /\ t.kind = "writing"
  BY DEF SaveWrites, Asked
<1>3. t.h \in Handles
  BY <1>2 DEF VersionInv, IdentityInv, Waiting
<1>4. /\ t \in AnyTask /\ new \in AnyRow /\ new.v = t.v + 1 /\ new.edits = t.edits
      /\ new.life = old.life + (IF t.v > 0 /\ t.life = old.life THEN 0 ELSE 1)
      /\ new.torn = i.torn
  BY <1>3, SavedIsARow DEF VersionInv
<1>5. /\ old \in AnyRow /\ row \in AnyRow /\ i \in AnyInstance
  BY <1>3, SeenIsARow DEF VersionInv, IdentityInv, MemoryShape
<1>6. /\ t.v \in Nat /\ t.life \in Nat /\ old.v = t.v /\ old.life \in Nat /\ row.life \in Nat
      /\ new.v \in Nat /\ new.life \in Nat /\ i.torn \in BOOLEAN
  BY <1>2, <1>4, <1>5 DEF AnyTask, AnyRow, AnyInstance, Matches
<1>7. /\ ~i.torn => t.edits \subseteq i.attrs
      /\ Covers(old, row, t.v, t.life, t.edits, i.torn)
      /\ Covers(old, row, t.v, t.life, i.attrs, TRUE)
  BY <1>2 DEF VersionInv, CaptureCovers, Captures
<1>8. row.life <= old.life
  <2>1. CASE owner = s
    <3>1. old = draft /\ owner # None
      BY <2>1, NamesAssumption DEF Seen
    <3> QED
      BY <1>6, <3>1 DEF VersionInv, DraftFollows, Supersedes
  <2>2. CASE owner # s
    BY <1>6, <2>2 DEF Seen
  <2> QED
    BY <2>1, <2>2
<1> HIDE DEF new, old, t, i
<1>9. Supersedes(new, old)
  BY <1>4, <1>6 DEF Supersedes
<1>10. new.life = row.life /\ row.v > 0 => t.v > 0 /\ t.life = old.life /\ old.life = row.life
  BY <1>4, <1>6, <1>8
<1>11. new.life = row.life /\ row.v > 0 => row.edits \subseteq t.edits /\ row.edits \subseteq i.attrs
  BY <1>6, <1>7, <1>10 DEF Covers
<1>12. /\ DraftFollows'
       /\ \A z \in Sessions : Advances(z)
       /\ Seen(s)' = new /\ row' = row
       /\ \A z \in Sessions \ {s} : Seen(z)' = Seen(z)
  <2>1. owner \in {None, s}
    BY <1>2, WritersLock
  <2>2. row.v > 0 /\ new.v > 0 /\ new.life = row.life => row.edits \subseteq new.edits
    BY <1>4, <1>11
  <2>3. new \in AnyRow /\ Wrote(s, new) /\ Supersedes(new, Seen(s))
    BY <1>2, <1>4, <1>9 DEF new, old
  <2> HIDE DEF old
  <2> QED
    BY <2>1, <2>2, <2>3, WriteFollows
(* What the row now holds covers itself.                                   *)
<1>13. /\ Covers(new, row, new.v, new.life, t.edits, i.torn)
       /\ Covers(new, row, new.v, new.life, i.attrs, TRUE)
       /\ Covers(new, row, new.v, new.life, i.attrs, i.torn)
  BY <1>4, <1>6, <1>7, <1>11 DEF Covers, Behind
(* What was read before is behind it.                                      *)
<1>14. ASSUME NEW v \in Nat, NEW life \in Nat, NEW x, NEW unsafe,
              Covers(old, row, v, life, x, unsafe)
       PROVE  Covers(new, row, v, life, x, unsafe)
  BY <1>4, <1>5, <1>9, <1>14, CoversLater
<1>15. \A h \in Handles : inst[s][h].v \in Nat /\ inst[s][h].life \in Nat
  BY DEF VersionInv, IdentityInv, MemoryShape, AnyInstance
<1>16. ASSUME NEW h \in Handles, inst'[s][h] = inst[s][h] PROVE InstanceCovers(s, h)'
  <2>1. Covers(old, row, inst[s][h].v, inst[s][h].life, inst[s][h].attrs, inst[s][h].torn)
    BY DEF VersionInv, InstanceCovers, old
  <2>2. Covers(new, row, inst[s][h].v, inst[s][h].life, inst[s][h].attrs, inst[s][h].torn)
    BY <1>14, <1>15, <2>1
  <2> QED
    BY <1>12, <1>16, <2>2 DEF InstanceCovers
<1>17. ASSUME NEW c \in Branches, task'[s][c] = task[s][c], task[s][c].kind \in Captures,
              \A h \in Handles : /\ inst'[s][h].attrs = inst[s][h].attrs
                                 /\ inst'[s][h].torn = inst[s][h].torn
       PROVE  CaptureCovers(s, c)'
  <2> DEFINE u == task[s][c]
             j == inst[s][u.h]
  <2>1. u.h \in Handles /\ u.v \in Nat /\ u.life \in Nat
    <3>1. u.h \in Handles
      BY <1>17 DEF VersionInv, IdentityInv, Waiting, Captures
    <3>2. u \in AnyTask
      BY DEF VersionInv, IdentityInv, MemoryShape
    <3> QED
      BY <3>1, <3>2 DEF AnyTask
  <2>2. /\ ~j.torn => u.edits \subseteq j.attrs
        /\ Covers(old, row, u.v, u.life, u.edits, j.torn)
        /\ Covers(old, row, u.v, u.life, j.attrs, TRUE)
    BY <1>17 DEF VersionInv, CaptureCovers, old
  <2>3. Covers(new, row, u.v, u.life, u.edits, j.torn)
    BY <1>14, <2>1, <2>2
  <2>4. Covers(new, row, u.v, u.life, j.attrs, TRUE)
    BY <1>14, <2>1, <2>2
  <2>5. inst'[s][u.h].attrs = j.attrs /\ inst'[s][u.h].torn = j.torn
    BY <1>17, <2>1
  <2> QED
    BY <1>12, <1>17, <2>2, <2>3, <2>4, <2>5 DEF CaptureCovers
<1>18. ASSUME UNCHANGED inst,
              task'[s][b].h = t.h, task'[s][b].edits = t.edits,
              task'[s][b].v = new.v, task'[s][b].life = new.life,
              \A c \in Branches \ {b} : task'[s][c] = task[s][c]
       PROVE  VersionInv'
  <2>1. \A h \in Handles : InstanceCovers(s, h)'
    BY <1>16, <1>18
  <2>2. CaptureCovers(s, b)'
    BY <1>7, <1>12, <1>13, <1>18 DEF CaptureCovers, i, t
  <2>3. ASSUME NEW c \in Branches \ {b} PROVE CaptureCovers(s, c)'
    <3>1. task'[s][c] = task[s][c]
      BY <1>18
    <3>2. CASE task[s][c].kind \in Captures
      BY <1>17, <1>18, <3>1, <3>2
    <3>3. CASE task[s][c].kind \notin Captures
      BY <3>1, <3>3 DEF CaptureCovers
    <3> QED
      BY <3>2, <3>3
  <2> QED
    <3>1. \A c \in Branches : CaptureCovers(s, c)'
      BY <2>2, <2>3
    <3>2. \A z \in Sessions \ {s} : Advances(z)
      BY <1>12
    <3>3. IdentityInv' /\ OthersKeep(s) /\ DraftFollows'
      BY <1>1, <1>12
    <3> QED
      BY <2>1, <3>1, <3>2, <3>3, VersionFrame
<1>19. ASSUME Returned(s, b), Marking(s, t.h, new.v, new.life) PROVE VersionInv'
  <2>1. ASSUME NEW h \in Handles PROVE InstanceCovers(s, h)'
    <3>1. CASE h = t.h
      BY <1>12, <1>13, <1>19, <3>1 DEF Marking, InstanceCovers, i
    <3>2. CASE h # t.h
      BY <1>16, <1>19, <3>2 DEF Marking
    <3> QED
      BY <3>1, <3>2
  <2>2. \A h \in Handles : inst'[s][h].attrs = inst[s][h].attrs /\ inst'[s][h].torn = inst[s][h].torn
    BY <1>3, <1>19 DEF Marking
  <2>3. ASSUME NEW c \in Branches PROVE CaptureCovers(s, c)'
    <3>1. CASE c = b
      BY <1>19, <3>1 DEF Returned, Idle, CaptureCovers, Captures
    <3>2. CASE c # b /\ task[s][c].kind \in Captures
      BY <1>17, <1>19, <2>2, <3>2 DEF Returned
    <3>3. CASE c # b /\ task[s][c].kind \notin Captures
      BY <1>19, <3>3 DEF Returned, CaptureCovers
    <3> QED
      BY <3>1, <3>2, <3>3
  <2> QED
    <3>1. /\ \A h \in Handles : InstanceCovers(s, h)'
          /\ \A c \in Branches : CaptureCovers(s, c)'
      BY <2>1, <2>3
    <3>2. \A z \in Sessions \ {s} : Advances(z)
      BY <1>12
    <3>3. IdentityInv' /\ OthersKeep(s) /\ DraftFollows'
      BY <1>1, <1>12
    <3> QED
      BY <3>1, <3>2, <3>3, VersionFrame
<1>20. VersionInv'
  BY <1>1, <1>18, <1>19 DEF SaveAnswers, new, t
(* The write carries every edit of the row it replaces.                    *)
<1>21. Keeps(old, new)
  <2>1. old.v > 0 /\ new.life = old.life => t.v > 0 /\ t.life = old.life
    BY <1>4, <1>6
  <2>2. old.v > 0 /\ new.life = old.life /\ ~i.torn => old.edits \subseteq t.edits
    BY <1>6, <1>7, <2>1 DEF Covers
  <2> QED
    BY <1>4, <2>2 DEF Keeps
<1>22. StepKeeps
  BY <1>12, <1>21 DEF StepKeeps, Keeps, old
<1> QED
  BY <1>20, <1>22

LEMMA EndingVersions ==
    ASSUME VersionInv, open \in [Sessions -> BOOLEAN], NEW s \in Sessions, Ending(s)
    PROVE  VersionInv' /\ StepKeeps
<1>1. IdentityInv' /\ OthersKeep(s) /\ Emptied(s)
  BY EndingShares DEF VersionInv
<1>2. /\ open' = [open EXCEPT ![s] = FALSE]
      /\ owner' = IF owner = s THEN None ELSE owner
      /\ draft' = IF owner = s THEN NoRow ELSE draft
      /\ row' \in {row, Seen(s)}
  BY DEF Ending, Commit, Throw, Conflicts, Abandon, Ends
<1>3. /\ \A h \in Handles : InstanceCovers(s, h)'
      /\ \A b \in Branches : CaptureCovers(s, b)'
  BY <1>1 DEF Emptied, InstanceCovers, CaptureCovers, Blank, Idle, Covers, Captures
<1>4. DraftFollows'
  BY <1>2 DEF VersionInv, DraftFollows, Seen
<1>5. row' = row \/ (Supersedes(row', row) /\ owner = s /\ Keeps(row, row'))
  BY <1>2, NamesAssumption DEF VersionInv, DraftFollows, Seen, Keeps
<1>6. ASSUME NEW z \in Sessions \ {s} PROVE Advances(z) /\ Keeps(Seen(z), Seen(z)')
  <2>1. CASE row' = row
    <3>1. Seen(z)' = Seen(z)
      BY <1>2, <2>1, NamesAssumption DEF Seen
    <3> QED
      BY <2>1, <3>1 DEF Advances, Keeps
  <2>2. CASE Supersedes(row', row) /\ owner = s /\ Keeps(row, row')
    <3>1. Seen(z) = row /\ Seen(z)' = row'
      BY <1>2, <2>2, NamesAssumption DEF Seen
    <3> QED
      BY <2>2, <3>1 DEF Advances
  <2> QED
    BY <1>5, <2>1, <2>2
<1>7. VersionInv'
  BY <1>1, <1>3, <1>4, <1>6, VersionFrame
<1>8. StepKeeps
  <2>1. Keeps(row, row')
    BY <1>5 DEF Keeps
  <2>2. ~open'[s]
    BY <1>2
  <2> QED
    BY <1>6, <2>1, <2>2 DEF StepKeeps
<1> QED
  BY <1>7, <1>8

LEMMA OpenStep ==
    ASSUME open \in [Sessions -> BOOLEAN], [ModelNext]_modelVars
    PROVE  open' \in [Sessions -> BOOLEAN]
<1>1. ASSUME NEW s \in Sessions, NEW b \in Branches,
             \/ Find(s, b) \/ Make(s, b) \/ Save(s, b) \/ Delete(s, b) \/ Refresh(s, b)
             \/ Edit(s, b) \/ Found(s, b) \/ Hydrated(s, b) \/ SaveSends(s, b)
             \/ SaveWrites(s, b) \/ SaveRecords(s, b) \/ DeleteWrites(s, b)
             \/ DeleteRecords(s, b) \/ Refreshes(s, b)
      PROVE  open' = open
  BY <1>1 DEF Find, Make, Save, Delete, Refresh, Calling, Edit, Found, Hydrated, SaveSends,
              SaveWrites, SaveRecords, DeleteWrites, DeleteRecords, Refreshes
<1>2. ASSUME NEW s \in Sessions, Ending(s) PROVE open' \in [Sessions -> BOOLEAN]
  BY <1>2 DEF Ending, Commit, Throw, Conflicts, Abandon, Ends
<1>3. CASE UNCHANGED modelVars
  BY <1>3 DEF modelVars, memory
<1> QED
  BY <1>1, <1>2, <1>3, ModelStepKinds

LEMMA CallVersions ==
    ASSUME VersionInv, NEW s \in Sessions, NEW b \in Branches,
           \/ Find(s, b) \/ Make(s, b) \/ Delete(s, b) \/ Refresh(s, b)
           \/ Edit(s, b) \/ Found(s, b) \/ Hydrated(s, b)
    PROVE  VersionInv' /\ StepKeeps
<1>1. IdentityInv
  BY DEF VersionInv
<1>2. IdentityInv' /\ OthersKeep(s) /\ CapturesNone(s)
  BY <1>1, FindShares, MakeShares, CallShares, EditShares, FoundShares, HydratedShares
<1>3. UNCHANGED dbVars
  BY DEF Find, Make, Delete, Refresh, Calling, Edit, Found, Hydrated
<1> QED
  BY <1>2, <1>3, QuietVersions

LEMMA AnswerVersions ==
    ASSUME VersionInv, NEW s \in Sessions, NEW b \in Branches,
           Save(s, b) \/ SaveSends(s, b) \/ SaveRecords(s, b) \/ Refreshes(s, b)
    PROVE  VersionInv' /\ StepKeeps
<1>1. IdentityInv
  BY DEF VersionInv
<1>2. UNCHANGED dbVars
  BY DEF Save, Calling, SaveSends, SaveRecords, Refreshes
<1>3. CASE Save(s, b)
  BY <1>1, <1>2, <1>3, SaveShares, CapturingVersions
<1>4. CASE SaveSends(s, b)
  <2>1. task[s][b].kind \in Captures
    BY <1>4 DEF SaveSends, Captures
  <2> QED
    BY <1>1, <1>2, <1>4, <2>1, SaveSendsShares, QuietVersions, CapturingVersions,
       MarkingVersions
<1>5. CASE SaveRecords(s, b)
  <2>1. task[s][b].kind \in Captures
    BY <1>5 DEF SaveRecords, Asked, Captures
  <2> QED
    BY <1>1, <1>2, <1>5, <2>1, SaveRecordsShares, MarkingVersions
<1>6. CASE Refreshes(s, b)
  <2>1. task[s][b].kind = "refreshing"
    BY <1>6 DEF Refreshes, Asked
  <2> QED
    BY <1>1, <1>2, <1>6, <2>1, RefreshesShares, QuietVersions, RefreshedVersions
<1> QED
  BY <1>3, <1>4, <1>5, <1>6

LEMMA VersionStep ==
    ASSUME VersionInv, open \in [Sessions -> BOOLEAN], [ModelNext]_modelVars
    PROVE  VersionInv' /\ StepKeeps
<1>1. CASE UNCHANGED modelVars
  <2>1. UNCHANGED <<map, hydrating, inst, held, task, dbVars, row, draft>>
    BY <1>1 DEF modelVars, memory, dbVars
  <2>2. /\ \A z \in Sessions : Seen(z)' = Seen(z)
        /\ DraftFollows'
    BY <2>1, RowStays DEF VersionInv
  <2>3. VersionInv'
    BY <1>1, <2>1, <2>2, IdentityStep DEF VersionInv, InstanceCovers, CaptureCovers
  <2>4. StepKeeps
    BY <2>1, <2>2 DEF StepKeeps, Keeps
  <2> QED
    BY <2>3, <2>4
<1> QED
  BY <1>1, ModelStepKinds, CallVersions, AnswerVersions, SaveVersions,
     DeleteVersions, EndingVersions

LEMMA VersionInit == ModelInit => VersionInv
<1> SUFFICES ASSUME ModelInit PROVE VersionInv
  OBVIOUS
<1>1. IdentityInv
  BY IdentityInit
<1>2. DraftFollows
  BY DEF ModelInit, DraftFollows
<1>3. ASSUME NEW s \in Sessions
      PROVE /\ \A h \in Handles : InstanceCovers(s, h)
            /\ \A b \in Branches : CaptureCovers(s, b)
  <2>1. \A h \in Handles : inst[s][h].v = 0
    BY DEF ModelInit, Blank
  <2>2. \A b \in Branches : task[s][b].kind = "idle"
    BY DEF ModelInit, Idle
  <2> QED
    BY <2>1, <2>2 DEF InstanceCovers, CaptureCovers, Covers, Captures
<1> QED
  BY <1>1, <1>2, <1>3 DEF VersionInv

(* No saved edit is written over, by an execution that read the row        *)
(* before it or by a second save under way (the expected version of        *)
(* saveEntityNow, saveMappedEntity and deleteEntityNow).                   *)
THEOREM SavedEditsStay == ModelSpec => SavedEditsSurvive
<1> DEFINE Inv == VersionInv /\ open \in [Sessions -> BOOLEAN]
<1>1. ModelInit => Inv
  BY VersionInit DEF ModelInit
<1>2. Inv /\ [ModelNext]_modelVars => Inv'
  BY VersionStep, OpenStep
<1>3. Inv /\ [ModelNext]_modelVars =>
        [/\ Keeps(row, row')
         /\ \A s \in Sessions : open'[s] => Keeps(Seen(s), Seen(s)')]_modelVars
  BY VersionStep DEF StepKeeps
<1> QED
  BY <1>1, <1>2, <1>3, PTL DEF ModelSpec, SavedEditsSurvive
==============================================================================
