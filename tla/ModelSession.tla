----------------------------- MODULE ModelSession -----------------------------
(***************************************************************************)
(* ModelSession (packages/core/src/model.ts) over PostgresUnitOfWork       *)
(* (packages/postgres-drizzle): the identity map, hydration, dirty         *)
(* tracking and versioned writes of the models of one execution, seen      *)
(* through one entity that several executions touch.                       *)
(*                                                                         *)
(* A handler may fan out (Promise.all): each branch of an execution holds  *)
(* at most one instance and has at most one call under way.  Operations of *)
(* a unit of work run one at a time in the order they were asked (module   *)
(* UnitOfWork); what a call does when its answer comes touches only the    *)
(* memory of its execution, so it is one step with the statement.          *)
(*                                                                         *)
(* The attributes are a set that edits only add to, every edit being       *)
(* distinct: an edit that leaves the row has been overwritten.             *)
(***************************************************************************)
EXTENDS Integers, Sequences

CONSTANTS
    Sessions,   \* executions, each with a transaction and a ModelSession
    Branches,   \* the asynchronous branches of an execution
    Handles,    \* names for the instances of an execution
    None,       \* no instance, no session
    MaxCalls,   \* bound on the find, make, save, delete and refresh calls
    MaxEdits    \* bound on the edits

ASSUME NamesAssumption == None \notin Handles \cup Sessions
ASSUME CallsAssumption == MaxCalls \in Nat /\ MaxEdits \in Nat

VARIABLES
    row,        \* the committed row; version 0: there is none
    owner,      \* the transaction that wrote it and has not ended
    draft,      \* the row as that transaction leaves it
    open,       \* the ModelSession is active
    map,        \* #identityMap
    hydrating,  \* #hydrations: the instance whose retrieved observers run
    inst,       \* the instances
    held,       \* the instance a branch works with
    task,       \* the call a branch awaits
    queue,      \* the branches whose operations are queued
    calls,      \* calls made
    edits       \* edits made

dbVars == <<row, owner, draft>>
memory == <<open, map, hydrating, inst, held, task, queue>>
modelVars == <<dbVars, memory, calls, edits>>

Edits == 1..MaxEdits
MaxVersion == 1 + MaxCalls

(* Ghosts: `life', which creation of the row this is; `torn', that a torn  *)
(* instance (below) wrote it.                                              *)
Row == [v : 0..MaxVersion, edits : SUBSET Edits, life : 0..MaxVersion, torn : BOOLEAN]
NoRow == [v |-> 0, edits |-> {}, life |-> 0, torn |-> FALSE]

(* Pending journal and outbox work is left out: whether a call has any is  *)
(* a choice.  Ghosts: `gone', a delete() took the instance off the map;    *)
(* `torn', a refresh() replaced it while a save() of it was under way.     *)
Instance == [attrs : SUBSET Edits, orig : SUBSET Edits, v : 0..MaxVersion, exists : BOOLEAN,
             life : 0..MaxVersion, gone : BOOLEAN, torn : BOOLEAN]
Blank == [attrs |-> {}, orig |-> {}, v |-> 0, exists |-> FALSE,
          life |-> 0, gone |-> FALSE, torn |-> FALSE]

(* A call: its kind, its instance, and what it captured of it.  A save     *)
(* whose observers run is "announcing", and "overtaken" once a refresh()   *)
(* has given the instance other attributes than those the save refers to.  *)
Task == [kind : {"idle", "finding", "joining", "hydrating", "announcing", "overtaken", "writing",
                 "recording", "deleting", "forgetting", "refreshing"},
         h : Handles \cup {None}, edits : SUBSET Edits, v : 0..MaxVersion, life : 0..MaxVersion,
         created : BOOLEAN]
Idle == [kind |-> "idle", h |-> None, edits |-> {}, v |-> 0, life |-> 0, created |-> FALSE]

ModelTypeOK ==
    /\ row \in Row
    /\ owner \in Sessions \cup {None}
    /\ draft \in Row
    /\ open \in [Sessions -> BOOLEAN]
    /\ map \in [Sessions -> Handles \cup {None}]
    /\ hydrating \in [Sessions -> Handles \cup {None}]
    /\ inst \in [Sessions -> [Handles -> Instance]]
    /\ held \in [Sessions -> [Branches -> Handles \cup {None}]]
    /\ task \in [Sessions -> [Branches -> Task]]
    /\ queue \in [Sessions -> Seq(Branches)]
    /\ calls \in 0..MaxCalls
    /\ edits \in 0..MaxEdits

ModelInit ==
    /\ row \in {NoRow, [NoRow EXCEPT !.v = 1, !.life = 1]}
    /\ owner = None
    /\ draft = NoRow
    /\ open = [s \in Sessions |-> TRUE]
    /\ map = [s \in Sessions |-> None]
    /\ hydrating = [s \in Sessions |-> None]
    /\ inst = [s \in Sessions |-> [h \in Handles |-> Blank]]
    /\ held = [s \in Sessions |-> [b \in Branches |-> None]]
    /\ task = [s \in Sessions |-> [b \in Branches |-> Idle]]
    /\ queue = [s \in Sessions |-> <<>>]
    /\ calls = 0
    /\ edits = 0

-----------------------------------------------------------------------------
(* PostgreSQL, at READ COMMITTED.                                          *)

(* The row as the statements of s see it.                                  *)
Seen(s) == IF owner = s THEN draft ELSE row

(* A statement that would change a row another transaction has written     *)
(* waits for that transaction.  One whose version does not match finds no  *)
(* row to wait for; an INSERT of the same key waits.                       *)
Waits(s, v) == owner \notin {None, s} /\ (v = 0 \/ row.v = v)

(* Mutation: any version matches.                                          *)
MatchesAnyVersion(s, v) == (v = 0) <=> (Seen(s).v = 0)

(* UPDATE and DELETE ... WHERE version = v; INSERT (v = 0).                *)
Matches(s, v) == Seen(s).v = v

Wrote(s, r) == owner' = s /\ draft' = r /\ UNCHANGED row

(* The row saveEntity leaves; `life' stays that of the row only if the     *)
(* write believes in this creation of it.                                  *)
Saved(s, t) == [v |-> t.v + 1, edits |-> t.edits,
                life |-> Seen(s).life + (IF t.v > 0 /\ t.life = Seen(s).life THEN 0 ELSE 1),
                torn |-> inst[s][t.h].torn]

-----------------------------------------------------------------------------
(* Calls.                                                                  *)

(* The call, the instance of a branch, and an instance, are replaced.      *)
Sets(s, b, t) == task' = [task EXCEPT ![s] = [@ EXCEPT ![b] = t]]
Holds(s, b, h) == held' = [held EXCEPT ![s] = [@ EXCEPT ![b] = h]]
Becomes(s, h, i) == inst' = [inst EXCEPT ![s] = [@ EXCEPT ![h] = i]]

Ready(s, b) == open[s] /\ task[s][b] = Idle

Working(s) == {b \in Branches : task[s][b] # Idle}

(* A call that the bound still allows.                                     *)
Calling(s, b) ==
    /\ Ready(s, b)
    /\ calls < MaxCalls
    /\ calls' = calls + 1
    /\ UNCHANGED <<dbVars, open, hydrating>>

Asks(s, b, t) ==
    /\ Sets(s, b, t)
    /\ queue' = [queue EXCEPT ![s] = Append(@, b)]

(* Names no branch, call or map refers to.                                 *)
Unused(s) == Handles \ ({map[s], hydrating[s]} \cup {held[s][b] : b \in Branches}
                        \cup {task[s][b].h : b \in Branches})

(* find(): the hydration under way, else the mapped instance, else a read. *)
Find(s, b) ==
    /\ Calling(s, b)
    /\ \/ /\ hydrating[s] # None
          /\ Sets(s, b, [Idle EXCEPT !.kind = "joining", !.h = hydrating[s]])
          /\ UNCHANGED <<held, queue>>
       \/ /\ hydrating[s] = None /\ map[s] # None
          /\ Holds(s, b, map[s])
          /\ UNCHANGED <<task, queue>>
       \/ /\ hydrating[s] = None /\ map[s] = None
          /\ Asks(s, b, [Idle EXCEPT !.kind = "finding"])
          /\ UNCHANGED held
    /\ UNCHANGED <<map, inst, edits>>

(* make(): refused when an instance of this identity is attached.          *)
Make(s, b) ==
    /\ Calling(s, b)
    /\ map[s] = None
    /\ edits < MaxEdits
    /\ \E h \in Unused(s) :
         /\ Becomes(s, h, [Blank EXCEPT !.attrs = {edits + 1}])
         /\ map' = [map EXCEPT ![s] = h]
         /\ Holds(s, b, h)
    /\ edits' = edits + 1
    /\ UNCHANGED <<task, queue>>

Mine(s, b) == inst[s][held[s][b]]
Dirty(i) == i.attrs # i.orig

(* save() of an instance with changes or pending work: the version and a   *)
(* reference to the attributes are taken here, and the saving, creating    *)
(* and updating observers are awaited.                                     *)
Save(s, b) ==
    /\ held[s][b] # None
    /\ Calling(s, b)
    /\ Sets(s, b, [kind |-> "announcing", h |-> held[s][b], edits |-> Mine(s, b).attrs,
                   v |-> Mine(s, b).v, life |-> Mine(s, b).life,
                   created |-> ~Mine(s, b).exists])
    /\ UNCHANGED <<map, inst, held, queue, edits>>

(* delete(): of an instance that exists, at its version.                   *)
Delete(s, b) ==
    /\ held[s][b] # None
    /\ Mine(s, b).exists
    /\ Calling(s, b)
    /\ Asks(s, b, [Idle EXCEPT !.kind = "deleting", !.h = held[s][b], !.v = Mine(s, b).v])
    /\ UNCHANGED <<map, inst, held, edits>>

(* refresh().                                                              *)
Refresh(s, b) ==
    /\ held[s][b] # None
    /\ Calling(s, b)
    /\ Asks(s, b, [Idle EXCEPT !.kind = "refreshing", !.h = held[s][b]])
    /\ UNCHANGED <<map, inst, held, edits>>

(* setAttribute() and fill() change the attributes in place.               *)
Edit(s, b) ==
    /\ Ready(s, b)
    /\ held[s][b] # None
    /\ edits < MaxEdits
    /\ edits' = edits + 1
    /\ Becomes(s, held[s][b], [Mine(s, b) EXCEPT !.attrs = @ \cup {edits + 1}])
    /\ UNCHANGED <<dbVars, open, map, hydrating, held, task, queue, calls>>

-----------------------------------------------------------------------------
(* Answers.                                                                *)

(* The branch whose operation is first in the queue, and its call.         *)
Asked(s, b, kind) == queue[s] # <<>> /\ Head(queue[s]) = b /\ task[s][b].kind = kind

Returns(s, b) ==
    /\ Sets(s, b, Idle)
    /\ queue' = [queue EXCEPT ![s] = Tail(@)]

(* The transaction ends and its ModelSession closes.                       *)
Ends(s) ==
    /\ open' = [open EXCEPT ![s] = FALSE]
    /\ map' = [map EXCEPT ![s] = None]
    /\ hydrating' = [hydrating EXCEPT ![s] = None]
    /\ inst' = [inst EXCEPT ![s] = [h \in Handles |-> Blank]]
    /\ held' = [held EXCEPT ![s] = [b \in Branches |-> None]]
    /\ task' = [task EXCEPT ![s] = [b \in Branches |-> Idle]]
    /\ queue' = [queue EXCEPT ![s] = <<>>]
    /\ UNCHANGED <<calls, edits>>

(* A failed operation dooms the unit of work, which refuses the later ones *)
(* (module UnitOfWork); nothing a branch still does is kept.               *)
Abandon(s) ==
    /\ Ends(s)
    /\ owner' = IF owner = s THEN None ELSE owner
    /\ draft' = IF owner = s THEN NoRow ELSE draft
    /\ UNCHANGED row

(* The instance of a row that was read.                                    *)
Read(r) == [attrs |-> r.edits, orig |-> r.edits, v |-> r.v, exists |-> TRUE,
            life |-> r.life, gone |-> FALSE, torn |-> FALSE]

(* Mutation: every read makes an instance of its own.                      *)
HydrateEveryRead(s, b, r) ==
    /\ \E h \in Unused(s) :
         /\ Becomes(s, h, Read(r))
         /\ map' = [map EXCEPT ![s] = h]
         /\ hydrating' = [hydrating EXCEPT ![s] = h]
         /\ Sets(s, b, [Idle EXCEPT !.kind = "hydrating", !.h = h])
    /\ UNCHANGED held

(* hydrate() of the row a read returned: an instance being hydrated or one *)
(* already attached wins over it; else a new one is attached and its       *)
(* retrieved observers are awaited.                                        *)
Hydrate(s, b, r) ==
    \/ /\ hydrating[s] # None
       /\ Sets(s, b, [Idle EXCEPT !.kind = "joining", !.h = hydrating[s]])
       /\ UNCHANGED <<map, hydrating, inst, held>>
    \/ /\ hydrating[s] = None /\ map[s] # None
       /\ Holds(s, b, map[s])
       /\ Sets(s, b, Idle)
       /\ UNCHANGED <<map, hydrating, inst>>
    \/ /\ hydrating[s] = None /\ map[s] = None
       /\ \E h \in Unused(s) :
            /\ Becomes(s, h, Read(r))
            /\ map' = [map EXCEPT ![s] = h]
            /\ hydrating' = [hydrating EXCEPT ![s] = h]
            /\ Sets(s, b, [Idle EXCEPT !.kind = "hydrating", !.h = h])
       /\ UNCHANGED held

(* The read of find(): nothing, or a row to hydrate.                       *)
Found(s, b) ==
    /\ Asked(s, b, "finding")
    /\ queue' = [queue EXCEPT ![s] = Tail(@)]
    /\ \/ /\ Seen(s).v = 0
          /\ Sets(s, b, Idle)
          /\ Holds(s, b, None)
          /\ UNCHANGED <<map, hydrating, inst>>
       \/ Seen(s).v # 0 /\ Hydrate(s, b, Seen(s))
    /\ UNCHANGED <<dbVars, open, calls, edits>>

(* The retrieved observers end: every find that waited returns the         *)
(* instance.  When one of them throws, the instance is detached and every  *)
(* such find throws.                                                       *)
Hydrated(s, b) ==
    /\ task[s][b].kind = "hydrating"
    /\ LET h == task[s][b].h
           waiting == {c \in Branches : task[s][c].kind \in {"hydrating", "joining"}}
       IN /\ \/ /\ held' = [held EXCEPT ![s] = [c \in Branches |-> IF c \in waiting THEN h ELSE @[c]]]
                /\ UNCHANGED map
             \/ /\ map' = [map EXCEPT ![s] = IF @ = h THEN None ELSE @]
                /\ UNCHANGED held
          /\ task' = [task EXCEPT ![s] = [c \in Branches |-> IF c \in waiting THEN Idle ELSE @[c]]]
    /\ hydrating' = [hydrating EXCEPT ![s] = None]
    /\ UNCHANGED <<dbVars, open, inst, queue, calls, edits>>

(* internals.saved() and clearPending(): the current attributes become the *)
(* original ones.                                                          *)
MarkSaved(i, v, life) == [i EXCEPT !.v = v, !.life = life, !.exists = TRUE, !.orig = i.attrs]

(* The attributes a save refers to, as they now are.                       *)
Referred(t, i) == IF t.kind = "overtaken" THEN t.edits ELSE i.attrs

(* After the observers, unless one of them throws: the attributes are      *)
(* written at the version taken by the call.  Without changes, pending     *)
(* work is all that is left, or nothing.                                   *)
SaveSends(s, b) ==
    /\ task[s][b].kind \in {"announcing", "overtaken"}
    /\ LET t == task[s][b]
           i == inst[s][t.h]
           changed == Dirty(i) \/ t.created
           Proceeds(kind) == Asks(s, b, [t EXCEPT !.kind = kind, !.edits = Referred(t, i)])
       IN \/ changed /\ Proceeds("writing") /\ UNCHANGED inst
          \/ ~changed /\ Proceeds("recording") /\ UNCHANGED inst
          \/ /\ ~changed
             /\ Becomes(s, t.h, MarkSaved(i, t.v, t.life))
             /\ Sets(s, b, Idle)
             /\ UNCHANGED queue
          \/ Sets(s, b, Idle) /\ UNCHANGED <<inst, queue>>
    /\ UNCHANGED <<dbVars, open, map, hydrating, held, calls, edits>>

(* The write matched; pending journal and outbox work follows it.          *)
SaveWrites(s, b) ==
    /\ Asked(s, b, "writing")
    /\ LET t == task[s][b]
           new == Saved(s, t)
       IN /\ ~Waits(s, t.v)
          /\ Matches(s, t.v)
          /\ Wrote(s, new)
          /\ \/ /\ Sets(s, b, [t EXCEPT !.kind = "recording", !.v = new.v, !.life = new.life])
                /\ queue' = [queue EXCEPT ![s] = Append(Tail(@), b)]
                /\ UNCHANGED inst
             \/ /\ Returns(s, b)
                /\ Becomes(s, t.h, MarkSaved(inst[s][t.h], new.v, new.life))
    /\ UNCHANGED <<open, map, hydrating, held, calls, edits>>

SaveRecords(s, b) ==
    /\ Asked(s, b, "recording")
    /\ Returns(s, b)
    /\ LET t == task[s][b] IN Becomes(s, t.h, MarkSaved(inst[s][t.h], t.v, t.life))
    /\ UNCHANGED <<dbVars, open, map, hydrating, held, calls, edits>>

(* internals.deleted(), and the identity leaves the map, whichever         *)
(* instance it named.                                                      *)
LetGo(s, h) ==
    /\ inst' = [inst EXCEPT ![s] = [k \in Handles |->
                  LET i == IF k = h THEN [@[k] EXCEPT !.exists = FALSE] ELSE @[k]
                  IN IF k \in {h, map[s]} THEN [i EXCEPT !.gone = TRUE] ELSE i]]
    /\ map' = [map EXCEPT ![s] = None]

DeleteWrites(s, b) ==
    /\ Asked(s, b, "deleting")
    /\ LET t == task[s][b]
       IN /\ ~Waits(s, t.v)
          /\ Matches(s, t.v)
          /\ Wrote(s, [NoRow EXCEPT !.life = Seen(s).life])
          /\ \/ /\ Sets(s, b, [t EXCEPT !.kind = "forgetting"])
                /\ queue' = [queue EXCEPT ![s] = Append(Tail(@), b)]
                /\ UNCHANGED <<inst, map>>
             \/ Returns(s, b) /\ LetGo(s, t.h)
    /\ UNCHANGED <<open, hydrating, held, calls, edits>>

DeleteRecords(s, b) ==
    /\ Asked(s, b, "forgetting")
    /\ Returns(s, b)
    /\ LetGo(s, task[s][b].h)
    /\ UNCHANGED <<dbVars, open, hydrating, held, calls, edits>>

(* OptimisticConcurrencyError.                                             *)
Conflicts(s, b) ==
    /\ Asked(s, b, "writing") \/ Asked(s, b, "deleting")
    /\ ~Waits(s, task[s][b].v)
    /\ ~Matches(s, task[s][b].v)
    /\ Abandon(s)

(* A save of the instance was called and has not answered.                 *)
Captures == {"announcing", "overtaken", "writing", "recording"}
Captured(s, h) == \E b \in Branches : task[s][b].h = h /\ task[s][b].kind \in Captures

(* A save that refers to the attributes x of h keeps them.                 *)
Overtaken(t, h, x) ==
    IF t.kind = "announcing" /\ t.h = h
    THEN [t EXCEPT !.kind = "overtaken", !.edits = x]
    ELSE t

(* refresh() replaces everything the instance holds, or throws when the    *)
(* row is gone.                                                            *)
Refreshes(s, b) ==
    /\ Asked(s, b, "refreshing")
    /\ queue' = [queue EXCEPT ![s] = Tail(@)]
    /\ LET h == task[s][b].h
           i == inst[s][h]
       IN \/ /\ Seen(s).v # 0
             /\ Becomes(s, h, [Read(Seen(s)) EXCEPT !.gone = i.gone, !.torn = Captured(s, h)])
             /\ task' = [task EXCEPT ![s] = [c \in Branches |->
                            IF c = b THEN Idle ELSE Overtaken(@[c], h, i.attrs)]]
          \/ Seen(s).v = 0 /\ Sets(s, b, Idle) /\ UNCHANGED inst
    /\ UNCHANGED <<dbVars, open, map, hydrating, held, calls, edits>>

-----------------------------------------------------------------------------
(* The handler returns and its transaction commits, or it throws.          *)

Commit(s) ==
    /\ open[s]
    /\ Working(s) = {}
    /\ Ends(s)
    /\ owner' = IF owner = s THEN None ELSE owner
    /\ row' = Seen(s)
    /\ draft' = IF owner = s THEN NoRow ELSE draft

Throw(s) == open[s] /\ Abandon(s)

BranchStep(s, b) ==
    \/ Find(s, b) \/ Make(s, b) \/ Save(s, b) \/ Delete(s, b) \/ Refresh(s, b) \/ Edit(s, b)
    \/ Found(s, b) \/ Hydrated(s, b) \/ SaveSends(s, b) \/ SaveWrites(s, b) \/ SaveRecords(s, b)
    \/ DeleteWrites(s, b) \/ DeleteRecords(s, b) \/ Conflicts(s, b) \/ Refreshes(s, b)

ModelNext ==
    \E s \in Sessions :
        \/ \E b \in Branches : BranchStep(s, b)
        \/ Commit(s)
        \/ Throw(s)

ModelSpec == ModelInit /\ [][ModelNext]_modelVars

-----------------------------------------------------------------------------
(* PROPERTIES                                                              *)

(* Overlapping finds, an observer that throws, make() and delete() between *)
(* them: the instances that branches of an execution got for one identity  *)
(* and no delete() detached are one object, so that no branch edits a copy *)
(* another branch overwrites (ModelSession.find and hydrate).              *)
OneInstance ==
    \A s \in Sessions : \A b \in Branches :
        held[s][b] # None /\ ~Mine(s, b).gone => map[s] = held[s][b]

(* An edit that was saved stays in the row, whether its transaction has    *)
(* committed or only sees it: no other execution that read the row before, *)
(* nor a second save of the instance that was already under way, writes    *)
(* over it.  Three things drop an edit: deleting the row, an execution     *)
(* that believes the row is an earlier creation of it, and an instance     *)
(* refresh() replaced between the call of a save() and its answer, its     *)
(* observers included (the expected version of saveEntityNow,              *)
(* saveMappedEntity and deleteEntityNow).                                  *)
Keeps(old, new) ==
    old.v > 0 /\ new.v > 0 /\ new.life = old.life /\ ~new.torn => old.edits \subseteq new.edits

SavedEditsSurvive ==
    [][/\ Keeps(row, row')
       /\ \A s \in Sessions : open'[s] => Keeps(Seen(s), Seen(s)')]_modelVars
==============================================================================
