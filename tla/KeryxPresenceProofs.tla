-------------------------- MODULE KeryxPresenceProofs --------------------------
(***************************************************************************)
(* The presence list of KeryxPresence stays exact, and a live subscriber   *)
(* stays on it, for any servers, connections and members.                  *)
(***************************************************************************)
EXTENDS KeryxPresence, FiniteSetTheorems, TLAPS

(* What Redis holds.                                                       *)
RedisShape ==
    /\ entry \subseteq Conns
    /\ count \in [Actors -> Nat]
    /\ member \subseteq Actors

(* A live subscriber is listed while its server has a backplane; a server  *)
(* that will recover its backplane has no live subscriber.                 *)
Subscribes(c) == conn[c] = "open" /\ (sub[c] \/ chain[c] = "joining")

LiveSubscribers ==
    \A c \in Conns : Subscribes(c) =>
        /\ Connected(c) => c \in entry
        /\ link[Home[c]] # "starting"
        /\ ~(link[Home[c]] = "lost" /\ stage[Home[c]] = "serving")

(* How far a connection has come, in its own handlers and on its server.   *)
Stages ==
    \A c \in Conns :
        /\ conn[c] \in {"new", "admitting"} => ~sub[c] /\ chain[c] = "idle"
        /\ chain[c] = "unsubscribing" => ~sub[c]
        /\ shut[c] # "none" => conn[c] = "closed"
        /\ stage[Home[c]] \in {"releasing", "stopped", "gone"} => conn[c] \in {"new", "closed"}

PInv == TypeOK /\ CountsAreExact /\ Stages /\ LiveSubscribers

-----------------------------------------------------------------------------
(* The scripts.                                                             *)

(* Of a finite set of connections, those of one actor are finite.          *)
LEMMA EntriesAreFinite ==
    ASSUME RedisShape, NEW a \in Actors
    PROVE  IsFiniteSet(EntriesOf(a))
  BY ConnsAssumption, FS_Subset DEF RedisShape, EntriesOf

(* JOIN_PRESENCE keeps the counts and the members exact.                   *)
LEMMA JoinKeepsCounts ==
    ASSUME RedisShape, CountsAreExact, NEW c \in Conns, JoinScript(c)
    PROVE  RedisShape' /\ CountsAreExact' /\ c \in entry' /\ entry \subseteq entry'
<1> DEFINE b == ActorOf[c]
<1>0. b \in Actors BY ConnsAssumption
<1>1. CASE c \in entry
  <2>1. entry' = entry /\ count' = count /\ member' = member
    BY <1>1 DEF JoinScript
  <2> QED BY <1>1, <2>1 DEF RedisShape, CountsAreExact, EntriesOf
<1>2. CASE c \notin entry
  <2>1. /\ entry' = entry \cup {c}
        /\ count' = [count EXCEPT ![b] = @ + 1]
        /\ member' = member \cup {b}
    BY <1>2 DEF JoinScript
  <2>2. RedisShape'
    BY <1>0, <2>1 DEF RedisShape
  <2>3. \A a \in Actors : EntriesOf(a)' = IF a = b THEN EntriesOf(a) \cup {c} ELSE EntriesOf(a)
    BY <2>1 DEF EntriesOf
  <2>4. c \notin EntriesOf(b) BY <1>2 DEF EntriesOf
  <2>5. Cardinality(EntriesOf(b) \cup {c}) = Cardinality(EntriesOf(b)) + 1
    BY <1>0, <2>4, EntriesAreFinite, FS_AddElement
  <2>6. ASSUME NEW a \in Actors PROVE count'[a] = Cardinality(EntriesOf(a)')
    <3>1. count[a] = Cardinality(EntriesOf(a)) BY DEF CountsAreExact
    <3>2. CASE a = b
      BY <1>0, <2>1, <2>3, <2>5, <3>1, <3>2 DEF RedisShape
    <3>3. CASE a # b
      BY <1>0, <2>1, <2>3, <3>1, <3>3 DEF RedisShape
    <3> QED BY <3>2, <3>3
  <2>7. member' = {a \in Actors : EntriesOf(a)' # {}}
    BY <1>0, <2>1, <2>3 DEF CountsAreExact
  <2> QED BY <2>1, <2>2, <2>6, <2>7 DEF CountsAreExact, EntriesOf
<1> QED BY <1>1, <1>2

(* LEAVE_PRESENCE and the sweep of one lease keep them exact too, and take *)
(* nobody else off the list.                                               *)
LEMMA LeaveKeepsCounts ==
    ASSUME RedisShape, CountsAreExact, NEW c \in Conns, LeaveScript(c)
    PROVE  RedisShape' /\ CountsAreExact' /\ entry' = entry \ {c}
<1> DEFINE b == ActorOf[c]
<1>0. b \in Actors BY ConnsAssumption
<1>1. CASE c \notin entry
  <2>1. entry' = entry /\ count' = count /\ member' = member
    BY <1>1 DEF LeaveScript
  <2> QED BY <1>1, <2>1 DEF RedisShape, CountsAreExact, EntriesOf
<1>2. CASE c \in entry
  <2>1. /\ entry' = entry \ {c}
        /\ count' = [count EXCEPT ![b] = @ - 1]
        /\ member' = IF count[b] <= 1 THEN member \ {b} ELSE member
    BY <1>2 DEF LeaveScript
  <2>2. c \in EntriesOf(b) BY <1>2 DEF EntriesOf
  <2>3. \A a \in Actors : EntriesOf(a)' = IF a = b THEN EntriesOf(a) \ {c} ELSE EntriesOf(a)
    BY <2>1 DEF EntriesOf
  <2>4. count[b] = Cardinality(EntriesOf(b)) BY <1>0 DEF CountsAreExact
  <2>5. /\ Cardinality(EntriesOf(b) \ {c}) = count[b] - 1
        /\ IsFiniteSet(EntriesOf(b) \ {c})
    BY <1>0, <2>2, <2>4, EntriesAreFinite, FS_RemoveElement
  <2>6. count[b] - 1 \in Nat
    BY <2>5, FS_CardinalityType
  <2>7. RedisShape'
    BY <1>0, <2>1, <2>6 DEF RedisShape
  <2>8. ASSUME NEW a \in Actors PROVE count'[a] = Cardinality(EntriesOf(a)')
    <3>1. count[a] = Cardinality(EntriesOf(a)) BY DEF CountsAreExact
    <3>2. CASE a = b
      BY <1>0, <2>1, <2>3, <2>5, <3>2 DEF RedisShape
    <3>3. CASE a # b
      BY <1>0, <2>1, <2>3, <3>1, <3>3 DEF RedisShape
    <3> QED BY <3>2, <3>3
  <2>9. count[b] <= 1 <=> EntriesOf(b) \ {c} = {}
    <3>1. count[b] - 1 = 0 <=> EntriesOf(b) \ {c} = {}
      BY <2>5, FS_EmptySet
    <3>2. count[b] \in Nat BY <1>0 DEF RedisShape
    <3> QED BY <2>6, <3>1, <3>2
  <2>10. member' = {a \in Actors : EntriesOf(a)' # {}}
    <3>1. b \in member BY <1>0, <2>2 DEF CountsAreExact
    <3> QED BY <1>0, <2>1, <2>2, <2>3, <2>9 DEF CountsAreExact
  <2> QED BY <2>1, <2>7, <2>8, <2>10 DEF CountsAreExact, EntriesOf
<1> QED BY <1>1, <1>2

-----------------------------------------------------------------------------
(* The initial state, and every step.                                       *)

LEMMA InitialPresence == Init => PInv
<1> SUFFICES ASSUME Init PROVE PInv
  OBVIOUS
<1>1. TypeOK /\ Stages /\ LiveSubscribers
  BY ConnsAssumption, BoundsAssumption
  DEF Init, TypeOK, Stages, LiveSubscribers, Subscribes, Stage, Link, ConnState
<1>2. \A a \in Actors : EntriesOf(a) = {}
  BY DEF Init, EntriesOf
<1>3. CountsAreExact
  BY <1>2, FS_EmptySet DEF Init, CountsAreExact
<1> QED BY <1>1, <1>3 DEF PInv

(* Nothing but a script changes what Redis holds.                          *)
LEMMA RedisStaysExact ==
    ASSUME PInv, [Next]_vars
    PROVE  RedisShape' /\ CountsAreExact'
<1>0. RedisShape /\ CountsAreExact
  BY DEF PInv, TypeOK, RedisShape
<1>1. ASSUME UNCHANGED redisVars PROVE RedisShape' /\ CountsAreExact'
  BY <1>0, <1>1 DEF redisVars, RedisShape, CountsAreExact, EntriesOf
<1>2. ASSUME NEW c \in Conns, ConnStep(c) PROVE RedisShape' /\ CountsAreExact'
  <2>1. CASE SubscribeAgain(c)
    BY <1>0, <2>1, JoinKeepsCounts DEF SubscribeAgain, At
  <2>2. CASE Authorized(c)
    BY <1>0, <1>1, <2>2, JoinKeepsCounts DEF Authorized
  <2>3. CASE Unsubscribed(c)
    BY <1>0, <1>1, <2>3, LeaveKeepsCounts DEF Unsubscribed
  <2>4. CASE Connect(c) \/ Admitted(c) \/ SocketCloses(c) \/ Subscribe(c) \/ Joined(c)
             \/ Unsubscribe(c)
    BY <1>1, <2>4 DEF Connect, Admitted, SocketCloses, Subscribe, Joined, Unsubscribe
  <2> QED BY <1>2, <2>1, <2>2, <2>3, <2>4 DEF ConnStep
<1>3. ASSUME NEW c \in Conns, Sweep(c) PROVE RedisShape' /\ CountsAreExact'
  BY <1>0, <1>3, LeaveKeepsCounts DEF Sweep
<1>4. ASSUME NEW s \in Servers, ServerStep(s) PROVE UNCHANGED redisVars
  BY <1>4 DEF ServerStep, CandidateStarts, CandidateUp, BeginStop, ReleaseLink, Stopped, Exit,
              Restart, Ends
<1>5. ASSUME NEW s \in Servers, LinkLost(s) \/ CandidateFails(s) \/ Drain(s) \/ Crash(s)
      PROVE UNCHANGED redisVars
  BY <1>5 DEF LinkLost, CandidateFails, Drain, Crash, Ends
<1>6. CASE UNCHANGED vars
  BY <1>1, <1>6 DEF vars
<1> QED BY <1>1, <1>2, <1>3, <1>4, <1>5, <1>6 DEF Next

(* A step of a connection.                                                 *)
LEMMA ConnectionSteps ==
    ASSUME PInv, RedisShape', NEW c \in Conns, ConnStep(c)
    PROVE  TypeOK' /\ Stages' /\ LiveSubscribers'
<1> USE ConnsAssumption, BoundsAssumption
<1>0. TypeOK /\ Stages /\ LiveSubscribers BY DEF PInv
<1>1. CASE Connect(c)
  <2>1. TypeOK'
    BY <1>0, <1>1 DEF Connect, serverVars, redisVars, TypeOK, RedisShape, Stage, Link, ConnState
  <2>2. Stages'
    BY <1>0, <1>1 DEF Connect, serverVars, redisVars, TypeOK, Stages
  <2>3. LiveSubscribers'
    BY <1>0, <1>1 DEF Connect, serverVars, redisVars, TypeOK, Stages, LiveSubscribers, Subscribes, Connected
  <2> QED BY <2>1, <2>2, <2>3
<1>2. CASE Admitted(c)
  <2>1. TypeOK'
    BY <1>0, <1>2 DEF Admitted, serverVars, redisVars, TypeOK, RedisShape, Stage, Link, ConnState
  <2>2. Stages'
    BY <1>0, <1>2 DEF Admitted, serverVars, redisVars, TypeOK, Stages
  <2>3. LiveSubscribers'
    BY <1>0, <1>2 DEF Admitted, serverVars, redisVars, TypeOK, Stages, LiveSubscribers, Subscribes, Connected
  <2> QED BY <2>1, <2>2, <2>3
<1>3. CASE SocketCloses(c)
  <2>1. TypeOK'
    BY <1>0, <1>3 DEF SocketCloses, InConnections, serverVars, redisVars, TypeOK, RedisShape, Stage, Link, ConnState
  <2>2. Stages'
    BY <1>0, <1>3 DEF SocketCloses, InConnections, serverVars, redisVars, TypeOK, Stages
  <2>3. LiveSubscribers'
    BY <1>0, <1>3 DEF SocketCloses, InConnections, serverVars, redisVars, TypeOK, Stages, LiveSubscribers, Subscribes, Connected
  <2> QED BY <2>1, <2>2, <2>3
<1>4. CASE Subscribe(c)
  <2>1. TypeOK'
    BY <1>0, <1>4 DEF Subscribe, NextFrame, serverVars, redisVars, TypeOK, RedisShape, Stage, Link, ConnState
  <2>2. Stages'
    BY <1>0, <1>4 DEF Subscribe, NextFrame, serverVars, redisVars, TypeOK, Stages
  <2>3. LiveSubscribers'
    BY <1>0, <1>4 DEF Subscribe, NextFrame, serverVars, redisVars, TypeOK, Stages, LiveSubscribers, Subscribes, Connected
  <2> QED BY <2>1, <2>2, <2>3
<1>5. CASE SubscribeAgain(c)
  <2>1. TypeOK'
    BY <1>0, <1>5 DEF SubscribeAgain, NextFrame, JoinScript, serverVars, TypeOK, RedisShape, Stage, Link, ConnState
  <2>2. Stages'
    BY <1>0, <1>5 DEF SubscribeAgain, NextFrame, JoinScript, serverVars, TypeOK, Stages
  <2>3. LiveSubscribers'
    BY <1>0, <1>5 DEF SubscribeAgain, NextFrame, JoinScript, serverVars, TypeOK, Stages, LiveSubscribers, Subscribes, Connected
  <2> QED BY <2>1, <2>2, <2>3
<1>6. CASE Authorized(c)
  <2>1. TypeOK'
    BY <1>0, <1>6 DEF Authorized, JoinScript, serverVars, redisVars, TypeOK, RedisShape, Stage, Link, ConnState
  <2>2. Stages'
    BY <1>0, <1>6 DEF Authorized, JoinScript, serverVars, redisVars, TypeOK, Stages
  <2>3. LiveSubscribers'
    BY <1>0, <1>6 DEF Authorized, JoinScript, serverVars, redisVars, TypeOK, Stages, LiveSubscribers, Subscribes, Connected
  <2> QED BY <2>1, <2>2, <2>3
<1>7. CASE Joined(c)
  <2>1. TypeOK'
    BY <1>0, <1>7 DEF Joined, serverVars, redisVars, TypeOK, RedisShape, Stage, Link, ConnState
  <2>2. Stages'
    BY <1>0, <1>7 DEF Joined, serverVars, redisVars, TypeOK, Stages
  <2>3. LiveSubscribers'
    BY <1>0, <1>7 DEF Joined, serverVars, redisVars, TypeOK, Stages, LiveSubscribers, Subscribes, Connected
  <2> QED BY <2>1, <2>2, <2>3
<1>8. CASE Unsubscribe(c)
  <2>1. TypeOK'
    BY <1>0, <1>8 DEF Unsubscribe, NextFrame, serverVars, redisVars, TypeOK, RedisShape, Stage, Link, ConnState
  <2>2. Stages'
    BY <1>0, <1>8 DEF Unsubscribe, NextFrame, serverVars, redisVars, TypeOK, Stages
  <2>3. LiveSubscribers'
    BY <1>0, <1>8 DEF Unsubscribe, NextFrame, serverVars, redisVars, TypeOK, Stages, LiveSubscribers, Subscribes, Connected
  <2> QED BY <2>1, <2>2, <2>3
<1>9. CASE Unsubscribed(c)
  <2>1. TypeOK'
    BY <1>0, <1>9 DEF Unsubscribed, LeaveScript, serverVars, redisVars, TypeOK, RedisShape, Stage, Link, ConnState
  <2>2. Stages'
    BY <1>0, <1>9 DEF Unsubscribed, LeaveScript, serverVars, redisVars, TypeOK, Stages
  <2>3. LiveSubscribers'
    BY <1>0, <1>9 DEF Unsubscribed, LeaveScript, serverVars, redisVars, TypeOK, Stages, LiveSubscribers, Subscribes, Connected
  <2> QED BY <2>1, <2>2, <2>3
<1> QED BY <1>1, <1>2, <1>3, <1>4, <1>5, <1>6, <1>7, <1>8, <1>9 DEF ConnStep

(* The sweep of a lease takes no live subscriber off the list.             *)
LEMMA SweepSteps ==
    ASSUME PInv, RedisShape', NEW c \in Conns, Sweep(c)
    PROVE  TypeOK' /\ Stages' /\ LiveSubscribers'
<1>1. TypeOK /\ Stages /\ LiveSubscribers BY DEF PInv
<1>2. TypeOK'
  BY <1>1 DEF Sweep, TypeOK, RedisShape, serverVars, connVars
<1>3. Stages'
  BY <1>1 DEF Sweep, Stages, serverVars, connVars
<1>4. LiveSubscribers'
  BY <1>1 DEF Sweep, LeaveScript, Held, InConnections, LiveSubscribers, Subscribes, Connected,
              serverVars, connVars
<1> QED BY <1>2, <1>3, <1>4

(* A step of a server that goes on.                                        *)
LEMMA ServerSteps ==
    ASSUME PInv, RedisShape', NEW s \in Servers, ServerStep(s)
    PROVE  TypeOK' /\ Stages' /\ LiveSubscribers'
<1> USE ConnsAssumption, BoundsAssumption
<1>0. TypeOK /\ Stages /\ LiveSubscribers BY DEF PInv
<1>1. CASE CandidateStarts(s)
  <2>1. TypeOK'
    BY <1>0, <1>1 DEF CandidateStarts, connVars, redisVars, TypeOK, RedisShape, Stage, Link, ConnState
  <2>2. Stages'
    BY <1>0, <1>1 DEF CandidateStarts, connVars, redisVars, TypeOK, Stages
  <2>3. LiveSubscribers'
    BY <1>0, <1>1 DEF CandidateStarts, connVars, redisVars, TypeOK, Stages, LiveSubscribers, Subscribes, Connected
  <2> QED BY <2>1, <2>2, <2>3
<1>2. CASE CandidateUp(s)
  <2>1. TypeOK'
    BY <1>0, <1>2 DEF CandidateUp, connVars, redisVars, TypeOK, RedisShape, Stage, Link, ConnState
  <2>2. Stages'
    BY <1>0, <1>2 DEF CandidateUp, connVars, redisVars, TypeOK, Stages
  <2>3. LiveSubscribers'
    BY <1>0, <1>2 DEF CandidateUp, connVars, redisVars, TypeOK, Stages, LiveSubscribers, Subscribes, Connected
  <2> QED BY <2>1, <2>2, <2>3
<1>3. CASE BeginStop(s)
  <2>1. TypeOK'
    BY <1>0, <1>3 DEF BeginStop, CloseAll, redisVars, TypeOK, RedisShape, Stage, Link, ConnState
  <2>2. Stages'
    BY <1>0, <1>3 DEF BeginStop, CloseAll, redisVars, TypeOK, Stages
  <2>3. LiveSubscribers'
    BY <1>0, <1>3 DEF BeginStop, CloseAll, redisVars, TypeOK, Stages, LiveSubscribers, Subscribes, Connected
  <2> QED BY <2>1, <2>2, <2>3
<1>4. CASE ReleaseLink(s)
  <2>1. TypeOK'
    BY <1>0, <1>4 DEF ReleaseLink, Rejected, At, redisVars, TypeOK, RedisShape, Stage, Link, ConnState
  <2>2. Stages'
    BY <1>0, <1>4 DEF ReleaseLink, Rejected, At, redisVars, TypeOK, Stages
  <2>3. LiveSubscribers'
    BY <1>0, <1>4 DEF ReleaseLink, Rejected, At, redisVars, TypeOK, Stages, LiveSubscribers, Subscribes, Connected
  <2> QED BY <2>1, <2>2, <2>3
<1>5. CASE Stopped(s)
  <2>1. TypeOK'
    BY <1>0, <1>5 DEF Stopped, connVars, redisVars, TypeOK, RedisShape, Stage, Link, ConnState
  <2>2. Stages'
    BY <1>0, <1>5 DEF Stopped, connVars, redisVars, TypeOK, Stages
  <2>3. LiveSubscribers'
    BY <1>0, <1>5 DEF Stopped, connVars, redisVars, TypeOK, Stages, LiveSubscribers, Subscribes, Connected
  <2> QED BY <2>1, <2>2, <2>3
<1>6. CASE Exit(s)
  <2>1. TypeOK'
    BY <1>0, <1>6 DEF Exit, Ends, redisVars, TypeOK, RedisShape, Stage, Link, ConnState
  <2>2. Stages'
    BY <1>0, <1>6 DEF Exit, Ends, redisVars, TypeOK, Stages
  <2>3. LiveSubscribers'
    BY <1>0, <1>6 DEF Exit, Ends, redisVars, TypeOK, Stages, LiveSubscribers, Subscribes, Connected
  <2> QED BY <2>1, <2>2, <2>3
<1>7. CASE Restart(s)
  <2>1. TypeOK'
    BY <1>0, <1>7 DEF Restart, connVars, redisVars, TypeOK, RedisShape, Stage, Link, ConnState
  <2>2. Stages'
    BY <1>0, <1>7 DEF Restart, connVars, redisVars, TypeOK, Stages
  <2>3. LiveSubscribers'
    BY <1>0, <1>7 DEF Restart, connVars, redisVars, TypeOK, Stages, LiveSubscribers, Subscribes, Connected
  <2> QED BY <2>1, <2>2, <2>3
<1> QED BY <1>1, <1>2, <1>3, <1>4, <1>5, <1>6, <1>7 DEF ServerStep

(* A fault of a server.                                                    *)
LEMMA FaultSteps ==
    ASSUME PInv, RedisShape', NEW s \in Servers,
           LinkLost(s) \/ CandidateFails(s) \/ Drain(s) \/ Crash(s)
    PROVE  TypeOK' /\ Stages' /\ LiveSubscribers'
<1> USE ConnsAssumption, BoundsAssumption
<1>0. TypeOK /\ Stages /\ LiveSubscribers BY DEF PInv
<1>1. CASE LinkLost(s)
  <2>1. TypeOK'
    BY <1>0, <1>1 DEF LinkLost, Fault, CloseAll, Rejected, redisVars, TypeOK, RedisShape, Stage, Link, ConnState
  <2>2. Stages'
    BY <1>0, <1>1 DEF LinkLost, Fault, CloseAll, Rejected, redisVars, TypeOK, Stages
  <2>3. LiveSubscribers'
    BY <1>0, <1>1 DEF LinkLost, Fault, CloseAll, Rejected, redisVars, TypeOK, Stages, LiveSubscribers, Subscribes, Connected
  <2> QED BY <2>1, <2>2, <2>3
<1>2. CASE CandidateFails(s)
  <2>1. TypeOK'
    BY <1>0, <1>2 DEF CandidateFails, Fault, connVars, redisVars, TypeOK, RedisShape, Stage, Link, ConnState
  <2>2. Stages'
    BY <1>0, <1>2 DEF CandidateFails, Fault, connVars, redisVars, TypeOK, Stages
  <2>3. LiveSubscribers'
    BY <1>0, <1>2 DEF CandidateFails, Fault, connVars, redisVars, TypeOK, Stages, LiveSubscribers, Subscribes, Connected
  <2> QED BY <2>1, <2>2, <2>3
<1>3. CASE Drain(s)
  <2>1. TypeOK'
    BY <1>0, <1>3 DEF Drain, Fault, connVars, redisVars, TypeOK, RedisShape, Stage, Link, ConnState
  <2>2. Stages'
    BY <1>0, <1>3 DEF Drain, Fault, connVars, redisVars, TypeOK, Stages
  <2>3. LiveSubscribers'
    BY <1>0, <1>3 DEF Drain, Fault, connVars, redisVars, TypeOK, Stages, LiveSubscribers, Subscribes, Connected
  <2> QED BY <2>1, <2>2, <2>3
<1>4. CASE Crash(s)
  <2>1. TypeOK'
    BY <1>0, <1>4 DEF Crash, Fault, Ends, redisVars, TypeOK, RedisShape, Stage, Link, ConnState
  <2>2. Stages'
    BY <1>0, <1>4 DEF Crash, Fault, Ends, redisVars, TypeOK, Stages
  <2>3. LiveSubscribers'
    BY <1>0, <1>4 DEF Crash, Fault, Ends, redisVars, TypeOK, Stages, LiveSubscribers, Subscribes, Connected
  <2> QED BY <2>1, <2>2, <2>3
<1> QED BY <1>1, <1>2, <1>3, <1>4

(* Every step keeps the invariant.                                         *)
LEMMA PresenceStep == PInv /\ [Next]_vars => PInv'
<1> SUFFICES ASSUME PInv, [Next]_vars PROVE PInv'
  OBVIOUS
<1>1. RedisShape' /\ CountsAreExact' BY RedisStaysExact
<1>2. CASE Next
  BY <1>1, <1>2, ConnectionSteps, SweepSteps, ServerSteps, FaultSteps DEF Next, PInv
<1>3. CASE UNCHANGED vars
  <2>1. TypeOK /\ Stages /\ LiveSubscribers BY DEF PInv
  <2>2. TypeOK' /\ Stages' /\ LiveSubscribers'
    BY <1>3, <2>1 DEF vars, serverVars, connVars, redisVars, TypeOK, Stages, LiveSubscribers,
                      Subscribes, Connected
  <2> QED BY <1>1, <2>2 DEF PInv
<1> QED BY <1>2, <1>3

LEMMA PresenceInvariant == Spec => []PInv
  BY InitialPresence, PresenceStep, PTL DEF Spec

-----------------------------------------------------------------------------
(* Theorems.                                                                *)

(* Every variable keeps its shape; no actor's count in Redis goes below    *)
(* zero, whatever is left or swept twice (the scripts).                    *)
THEOREM PresenceTyped == Spec => []TypeOK
<1>1. PInv => TypeOK BY DEF PInv
<1> QED BY <1>1, PresenceInvariant, PTL

(* The counts that decide first and last are the numbers of listed         *)
(* connections, and the members those with one (the scripts).              *)
THEOREM PresenceIsCounted == Spec => []CountsAreExact
<1>1. PInv => CountsAreExact BY DEF PInv
<1> QED BY <1>1, PresenceInvariant, PTL

(* No leave, sweep, lost backplane or recovery takes a live subscriber off *)
(* the list (#leave, #pulse, #backplaneUnavailable, #recoverBackplane).    *)
THEOREM SubscribersStayListed == Spec => []SubscribersAreListed
<1>1. PInv => SubscribersAreListed
  BY DEF PInv, LiveSubscribers, Subscribes, SubscribersAreListed
<1> QED BY <1>1, PresenceInvariant, PTL

================================================================================
