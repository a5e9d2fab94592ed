----------------------------- MODULE KeryxPresence -----------------------------
(***************************************************************************)
(* KeryxBroadcastTransport (packages/keryx) in the redis topology:         *)
(* several servers, their sockets, and the members of one presence channel *)
(* kept in Redis with a lease per connection; loss and recovery of a       *)
(* server's backplane, its shutdown, crash and restart.                    *)
(*                                                                         *)
(* Frames of a connection are handled one after the other, and go on after *)
(* it has closed; #disconnect runs beside them.  Each handler awaits the   *)
(* gateway and Redis, and the connection may close at every await.  The    *)
(* Lua scripts are atomic.  One server's commands reach Redis in order, so *)
(* a script runs in the step that sends it; its reply takes its time.      *)
(***************************************************************************)
EXTENDS Integers, FiniteSets

CONSTANTS
    Servers,     \* web processes
    Conns,       \* connection ids, each used once
    Actors,      \* members
    Home,        \* the server of a connection
    ActorOf,     \* the actor it was admitted as
    MaxFrames,   \* bound on the frames of one connection
    Faults       \* bound on lost backplanes, failed recoveries, shutdowns, crashes

ASSUME ConnsAssumption ==
    /\ IsFiniteSet(Conns)
    /\ Home \in [Conns -> Servers]
    /\ ActorOf \in [Conns -> Actors]
ASSUME BoundsAssumption == MaxFrames \in Nat /\ Faults \in Nat

VARIABLES
    stage,       \* where the process stands in its lifecycle
    ready,       \* #ready
    link,        \* #backplane and #backplaneRecovery
    conn,        \* the socket; open or closing: it is in #connections
    sub,         \* connection.subscriptions has the channel
    chain,       \* the frame connection.inbound is handling
    shut,        \* #disconnect of the connection
    handled,     \* how many of its frames were taken up
    entry,       \* Redis: the connections of the channel
    count,       \* Redis: the connections counted for each actor
    member,      \* Redis: the members of the channel
    faults       \* faults so far

serverVars == <<stage, ready, link>>
redisVars == <<entry, count, member>>
connVars == <<conn, sub, chain, shut, handled>>
vars == <<serverVars, connVars, redisVars, faults>>

Stage == {"serving", "draining", "stopping", "releasing", "stopped", "gone"}
Link == {"up", "lost", "starting", "leaked", "none"}
ConnState == {"new", "admitting", "open", "closing", "closed"}

TypeOK ==
    /\ stage \in [Servers -> Stage]
    /\ ready \in [Servers -> BOOLEAN]
    /\ link \in [Servers -> Link]
    /\ conn \in [Conns -> ConnState]
    /\ sub \in [Conns -> BOOLEAN]
    /\ chain \in [Conns -> {"idle", "authorizing", "joining", "unsubscribing"}]
    /\ shut \in [Conns -> {"none", "unsubscribing", "done"}]
    /\ handled \in [Conns -> 0..MaxFrames]
    /\ entry \subseteq Conns
    /\ count \in [Actors -> Nat]
    /\ member \subseteq Actors
    /\ faults \in 0..Faults

Init ==
    /\ stage = [s \in Servers |-> "serving"]
    /\ ready = [s \in Servers |-> TRUE]
    /\ link = [s \in Servers |-> "up"]
    /\ conn = [c \in Conns |-> "new"]
    /\ sub = [c \in Conns |-> FALSE]
    /\ chain = [c \in Conns |-> "idle"]
    /\ shut = [c \in Conns |-> "none"]
    /\ handled = [c \in Conns |-> 0]
    /\ entry = {}
    /\ count = [a \in Actors |-> 0]
    /\ member = {}
    /\ faults = 0

Fault ==
    /\ faults < Faults
    /\ faults' = faults + 1

At(s) == {c \in Conns : Home[c] = s}
Connected(c) == link[Home[c]] = "up"
InConnections(c) == conn[c] \in {"open", "closing"}

-----------------------------------------------------------------------------
(* The scripts.                                                             *)

(* Mutation: a connection that joins again is counted again.               *)
JoinCountingTwice(c) ==
    /\ entry' = entry \cup {c}
    /\ count' = [count EXCEPT ![ActorOf[c]] = @ + 1]
    /\ member' = member \cup {ActorOf[c]}

(* JOIN_PRESENCE: an entry that exists has its lease renewed.              *)
JoinScript(c) ==
    /\ entry' = entry \cup {c}
    /\ count' = IF c \in entry THEN count ELSE [count EXCEPT ![ActorOf[c]] = @ + 1]
    /\ member' = IF c \in entry THEN member ELSE member \cup {ActorOf[c]}

(* Mutation: a connection that was swept is given up again.                *)
LeaveUnlisted(c) ==
    /\ entry' = entry \ {c}
    /\ count' = [count EXCEPT ![ActorOf[c]] = @ - 1]
    /\ member' = IF count[ActorOf[c]] <= 1 THEN member \ {ActorOf[c]} ELSE member

(* LEAVE_PRESENCE, and what CLEANUP_PRESENCE does for one expired lease.   *)
LeaveScript(c) ==
    /\ entry' = entry \ {c}
    /\ count' = IF c \in entry THEN [count EXCEPT ![ActorOf[c]] = @ - 1] ELSE count
    /\ member' = IF c \in entry /\ count[ActorOf[c]] <= 1 THEN member \ {ActorOf[c]}
                 ELSE member

-----------------------------------------------------------------------------
(* Sockets.                                                                 *)

(* #accept: only a ready server begins an admission.                       *)
Connect(c) ==
    /\ conn[c] = "new"
    /\ stage[Home[c]] = "serving"
    /\ ready[Home[c]]
    /\ conn' = [conn EXCEPT ![c] = "admitting"]
    /\ UNCHANGED <<serverVars, sub, chain, shut, handled, redisVars, faults>>

(* The gateway has answered; the server's state is not looked at again.    *)
Admitted(c) ==
    /\ conn[c] = "admitting"
    /\ \E to \in {"open", "closed"} : conn' = [conn EXCEPT ![c] = to]
    /\ UNCHANGED <<serverVars, sub, chain, shut, handled, redisVars, faults>>

(* The close event: #disconnect takes the connection out, and begins to    *)
(* leave what it is subscribed to by now.                                  *)
SocketCloses(c) ==
    /\ InConnections(c)
    /\ conn' = [conn EXCEPT ![c] = "closed"]
    /\ sub' = [sub EXCEPT ![c] = FALSE]
    /\ shut' = [shut EXCEPT ![c] = IF sub[c] THEN "unsubscribing" ELSE "done"]
    /\ UNCHANGED <<serverVars, chain, handled, redisVars, faults>>

-----------------------------------------------------------------------------
(* Frames: #receive.                                                        *)

(* The next frame of the inbound chain; one queued before the close is     *)
(* handled after it.                                                       *)
NextFrame(c) ==
    /\ conn[c] \in {"open", "closing", "closed"}
    /\ chain[c] = "idle"
    /\ handled[c] < MaxFrames
    /\ handled' = [handled EXCEPT ![c] = @ + 1]

Subscribe(c) ==
    /\ NextFrame(c)
    /\ ~sub[c]
    /\ chain' = [chain EXCEPT ![c] = "authorizing"]
    /\ UNCHANGED <<serverVars, conn, sub, shut, redisVars, faults>>

(* Subscribed already: #presenceMembers joins once more for whichever      *)
(* subscribed connection of this server it comes upon first.               *)
SubscribeAgain(c) ==
    /\ NextFrame(c)
    /\ sub[c]
    /\ Connected(c)
    /\ \E d \in At(Home[c]) : InConnections(d) /\ sub[d] /\ JoinScript(d)
    /\ UNCHANGED <<serverVars, conn, sub, chain, shut, faults>>

(* gateway.subscribe has answered: #joinPresence, or a denial.             *)
Authorized(c) ==
    /\ chain[c] = "authorizing"
    /\ \/ /\ Connected(c)
          /\ JoinScript(c)
          /\ chain' = [chain EXCEPT ![c] = "joining"]
       \/ /\ chain' = [chain EXCEPT ![c] = "idle"]
          /\ UNCHANGED redisVars
    /\ UNCHANGED <<serverVars, conn, sub, shut, handled, faults>>

(* The reply of the script: the subscription is recorded, whatever became  *)
(* of the connection meanwhile.                                            *)
Joined(c) ==
    /\ chain[c] = "joining"
    /\ sub' = [sub EXCEPT ![c] = TRUE]
    /\ chain' = [chain EXCEPT ![c] = "idle"]
    /\ UNCHANGED <<serverVars, conn, shut, handled, redisVars, faults>>

Unsubscribe(c) ==
    /\ NextFrame(c)
    /\ sub[c]
    /\ sub' = [sub EXCEPT ![c] = FALSE]
    /\ chain' = [chain EXCEPT ![c] = "unsubscribing"]
    /\ UNCHANGED <<serverVars, conn, shut, redisVars, faults>>

(* gateway.unsubscribe has answered in #leave: the presence is given up,   *)
(* unless it rejected or the backplane is gone.                            *)
Unsubscribed(c) ==
    /\ \/ /\ chain[c] = "unsubscribing"
          /\ chain' = [chain EXCEPT ![c] = "idle"]
          /\ UNCHANGED shut
       \/ /\ shut[c] = "unsubscribing"
          /\ shut' = [shut EXCEPT ![c] = "done"]
          /\ UNCHANGED chain
    /\ \/ Connected(c) /\ LeaveScript(c)
       \/ UNCHANGED redisVars
    /\ UNCHANGED <<serverVars, conn, sub, handled, faults>>

-----------------------------------------------------------------------------
(* Leases.  #pulse renews those of the connections in #connections, in     *)
(* time; a reply does not take as long as a lease.                         *)

(* Mutation: what has closed is renewed as well.                           *)
HeldWhenClosed(c) == Connected(c) /\ (sub[c] \/ chain[c] = "joining")

Held(c) == Connected(c) /\ InConnections(c) /\ (sub[c] \/ chain[c] = "joining")

Sweeping(s) == link[s] = "up" /\ stage[s] \in {"serving", "draining"}

(* Some server's pulse cleans up a lease that has run out.                 *)
Sweep(c) ==
    /\ c \in entry
    /\ ~Held(c)
    /\ \E s \in Servers : Sweeping(s)
    /\ LeaveScript(c)
    /\ UNCHANGED <<serverVars, connVars, faults>>

-----------------------------------------------------------------------------
(* The backplane of a server.                                               *)

(* What was on the wire is rejected.                                       *)
Rejected(s) ==
    chain' = [c \in Conns |-> IF Home[c] = s /\ chain[c] = "joining" THEN "idle" ELSE chain[c]]

CloseAll(s) ==
    conn' = [c \in Conns |-> IF Home[c] = s /\ conn[c] = "open" THEN "closing" ELSE conn[c]]

(* Mutation: the live sockets stay.                                        *)
LinkLostQuietly(s) ==
    /\ link[s] = "up"
    /\ stage[s] \in {"serving", "draining", "stopping"}
    /\ Fault
    /\ link' = [link EXCEPT ![s] = "lost"]
    /\ ready' = [ready EXCEPT ![s] = FALSE]
    /\ Rejected(s)
    /\ UNCHANGED <<stage, conn, sub, shut, handled, redisVars>>

(* #backplaneUnavailable: every live socket is closed, and a recovery      *)
(* begins; a server that drains only loses it.                             *)
LinkLost(s) ==
    /\ link[s] = "up"
    /\ stage[s] \in {"serving", "draining", "stopping"}
    /\ Fault
    /\ link' = [link EXCEPT ![s] = "lost"]
    /\ ready' = [ready EXCEPT ![s] = FALSE]
    /\ IF stage[s] = "serving" THEN CloseAll(s) ELSE UNCHANGED conn
    /\ Rejected(s)
    /\ UNCHANGED <<stage, sub, shut, handled, redisVars>>

(* #recoverBackplane, after its delay: candidate.start() is under way.     *)
CandidateStarts(s) ==
    /\ link[s] = "lost"
    /\ stage[s] = "serving"
    /\ link' = [link EXCEPT ![s] = "starting"]
    /\ UNCHANGED <<stage, ready, connVars, redisVars, faults>>

(* It fulfilled: the server is ready, with no second look at #draining.    *)
CandidateUp(s) ==
    /\ link[s] = "starting"
    /\ link' = [link EXCEPT ![s] = "up"]
    /\ ready' = [ready EXCEPT ![s] = TRUE]
    /\ UNCHANGED <<stage, connVars, redisVars, faults>>

CandidateFails(s) ==
    /\ link[s] = "starting"
    /\ Fault
    /\ link' = [link EXCEPT ![s] = "lost"]
    /\ UNCHANGED <<stage, ready, connVars, redisVars>>

-----------------------------------------------------------------------------
(* The lifecycle of a server.                                               *)

Drain(s) ==
    /\ stage[s] = "serving"
    /\ Fault
    /\ stage' = [stage EXCEPT ![s] = "draining"]
    /\ ready' = [ready EXCEPT ![s] = FALSE]
    /\ UNCHANGED <<link, connVars, redisVars>>

(* stop() closes the sockets it knows, and waits for server.close().       *)
BeginStop(s) ==
    /\ stage[s] = "draining"
    /\ stage' = [stage EXCEPT ![s] = "stopping"]
    /\ ready' = [ready EXCEPT ![s] = FALSE]
    /\ CloseAll(s)
    /\ UNCHANGED <<link, sub, chain, shut, handled, redisVars, faults>>

(* No socket is left: the backplane is stopped, if there is one.           *)
ReleaseLink(s) ==
    /\ stage[s] = "stopping"
    /\ \A c \in At(s) : conn[c] \in {"new", "closed"}
    /\ stage' = [stage EXCEPT ![s] = "releasing"]
    /\ link' = [link EXCEPT ![s] = IF @ = "up" THEN "none" ELSE @]
    /\ Rejected(s)
    /\ UNCHANGED <<ready, conn, sub, shut, handled, redisVars, faults>>

(* The recovery was awaited; #backplane is cleared, not stopped.           *)
Stopped(s) ==
    /\ stage[s] = "releasing"
    /\ link[s] # "starting"
    /\ stage' = [stage EXCEPT ![s] = "stopped"]
    /\ link' = [link EXCEPT ![s] = IF @ = "up" THEN "leaked" ELSE "none"]
    /\ UNCHANGED <<ready, connVars, redisVars, faults>>

(* The process ends, and all it kept in memory.                            *)
Ends(s) ==
    /\ stage' = [stage EXCEPT ![s] = "gone"]
    /\ ready' = [ready EXCEPT ![s] = FALSE]
    /\ link' = [link EXCEPT ![s] = "none"]
    /\ conn' = [c \in Conns |-> IF Home[c] = s /\ conn[c] # "new" THEN "closed" ELSE conn[c]]
    /\ sub' = [c \in Conns |-> sub[c] /\ Home[c] # s]
    /\ chain' = [c \in Conns |-> IF Home[c] = s THEN "idle" ELSE chain[c]]
    /\ shut' = [c \in Conns |-> IF Home[c] = s /\ conn[c] # "new" THEN "done" ELSE shut[c]]
    /\ handled' = [c \in Conns |-> IF Home[c] = s /\ conn[c] # "new" THEN MaxFrames
                                   ELSE handled[c]]
    /\ UNCHANGED redisVars

Exit(s) ==
    /\ stage[s] \in {"stopping", "releasing", "stopped"}
    /\ Ends(s)
    /\ UNCHANGED faults

Crash(s) ==
    /\ stage[s] # "gone"
    /\ Fault
    /\ Ends(s)

Restart(s) ==
    /\ stage[s] = "gone"
    /\ stage' = [stage EXCEPT ![s] = "serving"]
    /\ ready' = [ready EXCEPT ![s] = TRUE]
    /\ link' = [link EXCEPT ![s] = "up"]
    /\ UNCHANGED <<connVars, redisVars, faults>>

-----------------------------------------------------------------------------
ServerStep(s) ==
    \/ CandidateStarts(s)
    \/ CandidateUp(s)
    \/ BeginStop(s)
    \/ ReleaseLink(s)
    \/ Stopped(s)
    \/ Exit(s)
    \/ Restart(s)

ConnStep(c) ==
    \/ Connect(c)
    \/ Admitted(c)
    \/ SocketCloses(c)
    \/ Subscribe(c)
    \/ SubscribeAgain(c)
    \/ Authorized(c)
    \/ Joined(c)
    \/ Unsubscribe(c)
    \/ Unsubscribed(c)

Next ==
    \/ \E c \in Conns : ConnStep(c) \/ Sweep(c)
    \/ \E s \in Servers : ServerStep(s) \/ LinkLost(s) \/ CandidateFails(s) \/ Drain(s) \/ Crash(s)

(* Timers, recovery and restart go on; no client and no gateway must act.  *)
Spec ==
    /\ Init
    /\ [][Next]_vars
    /\ \A s \in Servers : WF_vars(ServerStep(s))
    /\ \A c \in Conns : WF_vars(Sweep(c))

-----------------------------------------------------------------------------
(* Properties.                                                              *)

(* Redis counts for each actor exactly the connections it lists, and lists *)
(* as members those it counts, whatever joins twice, leaves twice, expires *)
(* or dies in between: so "first" and "last" are right (the scripts of     *)
(* redis-backplane.ts).                                                    *)
EntriesOf(a) == {c \in entry : ActorOf[c] = a}

CountsAreExact ==
    /\ \A a \in Actors : count[a] = Cardinality(EntriesOf(a))
    /\ member = {a \in Actors : EntriesOf(a) # {}}

(* A live subscriber is a listed member: no late leave, sweep or recovery  *)
(* takes it off the list while its socket is open (#leave, #disconnect,    *)
(* #pulse, #backplaneUnavailable).                                         *)
SubscribersAreListed ==
    \A c \in Conns : conn[c] = "open" /\ sub[c] /\ Connected(c) => c \in entry

(* What a closed connection left behind in Redis goes away in the end: its *)
(* subscribe was still under way, its leave failed, or its server died     *)
(* (the leases, cleanupExpired).                                           *)
GhostsAreSwept ==
    \A c \in Conns : (c \in entry /\ conn[c] = "closed") ~> c \notin entry

================================================================================
