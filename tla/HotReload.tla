------------------------------- MODULE HotReload -------------------------------
(***************************************************************************)
(* HotReloadSupervisor (packages/praxis/src/hot-reload.ts) as `doxa dev`   *)
(* uses it: it watches the sources, builds, and replaces the child process *)
(* that runs the application.                                              *)
(*                                                                         *)
(* Sources are a version number; an edit makes the next one, which builds  *)
(* or is broken.  A fingerprint is the version it was taken of, a build    *)
(* reads the sources at one moment of its run, and edits fall between any  *)
(* two steps.  requestReload(true) is called by tests alone.               *)
(***************************************************************************)
EXTENDS Integers

CONSTANTS
    MaxEdits,    \* bound on edits
    Faults       \* bound on failed fingerprints and starts, and crashed children

ASSUME BoundsAssumption == MaxEdits \in Nat /\ Faults \in Nat

None == -1

VARIABLES
    src, broken,     \* the version of the sources; the versions that do not build
    event, timer,    \* an undelivered file event; the debounce timer
    requested,       \* #reloadRequested
    pc,              \* where start() or #drainReloads stands; "idle": no #reloadPromise
    candidate,       \* candidateFingerprint
    fp,              \* #fingerprint
    built,           \* what the last build read
    live, target,    \* the version the child runs; #target is set
    strays,          \* children that were given up while they went on
    stop,            \* the stop() of a signal; #stopping: not "no"
    faults

sources == <<src, broken>>
watchVars == <<event, timer, requested>>
childVars == <<live, target, strays>>
vars == <<sources, watchVars, pc, candidate, fp, built, childVars, stop, faults>>

Booting == {"building first", "starting first", "marking first"}
Versions == 0..MaxEdits

TypeOK ==
    /\ src \in Versions /\ broken \subseteq 0..src
    /\ event \in BOOLEAN /\ timer \in BOOLEAN /\ requested \in BOOLEAN
    /\ pc \in Booting \cup {"idle", "comparing", "building", "built", "marking", "replacing",
                            "starting", "gone"}
    /\ {candidate, fp, built, live} \subseteq (0..src) \cup {None}
    /\ target \in BOOLEAN /\ (live # None => target)
    /\ stop \in {"no", "waiting", "stopping", "done", "failed"}
    /\ stop # "no" => ~timer /\ ~event

Init ==
    /\ src = 0 /\ broken = {}
    /\ event = FALSE /\ timer = FALSE /\ requested = FALSE
    /\ pc = "building first"
    /\ candidate = None /\ fp = None /\ built = None
    /\ live = None /\ target = FALSE /\ strays = 0
    /\ stop = "no"
    /\ faults = 0

Stopping == stop # "no"
Watching == pc \notin Booting \cup {"gone"} /\ ~Stopping
Fault == faults < Faults /\ faults' = faults + 1

-----------------------------------------------------------------------------
(* The developer, and the watchers.                                         *)

Edit ==
    /\ src < MaxEdits
    /\ src' = src + 1
    /\ broken' \in {broken, broken \cup {src + 1}}
    /\ event' = (event \/ Watching)
    /\ UNCHANGED <<timer, requested, pc, candidate, fp, built, childVars, stop, faults>>

(* #scheduleReload: one timer for as many events as come.                   *)
FileEvent ==
    /\ event
    /\ event' = FALSE
    /\ timer' = TRUE
    /\ UNCHANGED <<sources, requested, pc, candidate, fp, built, childVars, stop, faults>>

(* requestReload(false): the loop under way takes the request up.           *)
Debounced ==
    /\ timer
    /\ timer' = FALSE
    /\ IF pc = "idle" THEN pc' = "comparing" /\ UNCHANGED requested
       ELSE requested' = TRUE /\ UNCHANGED pc
    /\ UNCHANGED <<sources, event, candidate, fp, built, childVars, stop, faults>>

-----------------------------------------------------------------------------
(* start(), and the rounds of #drainReloads.                                *)

(* The first child starts before anything is watched.                       *)
BootStep ==
    /\ \/ /\ pc = "building first"
          /\ built' = src
          /\ pc' = IF src \in broken THEN "gone" ELSE "starting first"
          /\ UNCHANGED <<fp, live, target>>
       \/ /\ pc = "starting first"
          /\ live' = built /\ target' = TRUE
          /\ pc' = "marking first"
          /\ UNCHANGED <<fp, built>>
       \/ /\ pc = "marking first"
          /\ fp' = src
          /\ pc' = "idle"
          /\ UNCHANGED <<built, live, target>>
    /\ UNCHANGED <<sources, watchVars, candidate, strays, stop, faults>>

(* Mutation: a request made during a round is dropped with it.              *)
LastRound == pc' = "idle" /\ requested' = FALSE

(* The while condition: another round for a request made meanwhile.         *)
NextRound ==
    IF requested /\ ~Stopping THEN pc' = "comparing" /\ requested' = FALSE
    ELSE pc' = "idle" /\ UNCHANGED requested

Compare ==
    /\ pc = "comparing"
    /\ candidate' = src
    /\ IF src = fp THEN NextRound ELSE pc' = "building" /\ UNCHANGED requested
    /\ UNCHANGED <<sources, event, timer, fp, built, childVars, stop, faults>>

BuildReads ==
    /\ pc = "building"
    /\ pc' = "built"
    /\ built' = src
    /\ UNCHANGED <<sources, watchVars, candidate, fp, childVars, stop, faults>>

(* A build that fails leaves the child alone.                               *)
BuildEnds ==
    /\ pc = "built"
    /\ IF built \in broken THEN fp' = candidate /\ NextRound
       ELSE pc' = "marking" /\ UNCHANGED <<fp, requested>>
    /\ UNCHANGED <<sources, event, timer, candidate, built, childVars, stop, faults>>

Mark ==
    /\ pc = "marking"
    /\ fp' = src
    /\ pc' = IF Stopping THEN "idle" ELSE "replacing"
    /\ UNCHANGED <<sources, watchVars, candidate, built, childVars, stop, faults>>

PreviousStops ==
    /\ pc = "replacing"
    /\ live' = None /\ target' = FALSE
    /\ pc' = IF Stopping THEN "idle" ELSE "starting"
    /\ UNCHANGED <<sources, watchVars, candidate, fp, built, strays, stop, faults>>

ChildReady ==
    /\ pc = "starting"
    /\ live' = built /\ target' = TRUE
    /\ NextRound
    /\ UNCHANGED <<sources, event, timer, candidate, fp, built, strays, stop, faults>>

(* It exits before it is ready, or it is not ready in time and goes on.     *)
ChildFails ==
    /\ pc = "starting"
    /\ Fault
    /\ strays' \in {strays, strays + 1}
    /\ NextRound
    /\ UNCHANGED <<sources, event, timer, candidate, fp, built, live, target, stop>>

(* Nothing watches a child that is ready.                                   *)
ChildCrashes ==
    /\ live # None
    /\ Fault
    /\ live' = None
    /\ UNCHANGED <<sources, watchVars, pc, candidate, fp, built, target, strays, stop>>

(* A file goes while it is looked at: #drainReloads rejects, which ends     *)
(* the process unless stop() awaits it.                                     *)
FingerprintFails ==
    /\ pc \in {"comparing", "marking"}
    /\ Fault
    /\ IF stop = "waiting" THEN stop' = "failed" /\ pc' = "idle"
       ELSE pc' = "gone" /\ UNCHANGED stop
    /\ event' = FALSE /\ timer' = FALSE
    /\ UNCHANGED <<sources, requested, candidate, fp, built, childVars>>

-----------------------------------------------------------------------------
(* stop().                                                                  *)

(* Mutation: the reload under way is not waited for.                        *)
StopAtOnce ==
    /\ stop = "no" /\ pc \notin Booting \cup {"gone"}
    /\ stop' = "stopping"
    /\ event' = FALSE /\ timer' = FALSE
    /\ UNCHANGED <<sources, requested, pc, candidate, fp, built, childVars, faults>>

Stop ==
    /\ stop = "no" /\ pc \notin Booting \cup {"gone"}
    /\ stop' = "waiting"
    /\ event' = FALSE /\ timer' = FALSE
    /\ UNCHANGED <<sources, requested, pc, candidate, fp, built, childVars, faults>>

ReloadEnded ==
    /\ stop = "waiting" /\ pc = "idle"
    /\ stop' = "stopping"
    /\ UNCHANGED <<sources, watchVars, pc, candidate, fp, built, childVars, faults>>

TargetStopped ==
    /\ stop = "stopping"
    /\ stop' = "done"
    /\ live' = None /\ target' = FALSE
    /\ UNCHANGED <<sources, watchVars, pc, candidate, fp, built, strays, faults>>

Next ==
    \/ Edit \/ FileEvent \/ Debounced
    \/ BootStep
    \/ Compare \/ BuildReads \/ BuildEnds \/ Mark \/ PreviousStops \/ ChildReady
    \/ ChildFails \/ ChildCrashes \/ FingerprintFails
    \/ Stop \/ ReloadEnded \/ TargetStopped

Spec == Init /\ [][Next]_vars

-----------------------------------------------------------------------------
AtRest == pc = "idle" /\ ~event /\ ~timer /\ ~Stopping

(* However edits fall among debouncing, builds and replacements, the       *)
(* supervisor comes to rest only when it has fingerprinted the newest       *)
(* sources: no change notification is lost to a round under way.  That is   *)
(* not that it has built them: an edit between the build's reading and the  *)
(* fingerprint after it is fingerprinted only.                              *)
NoChangeIsMissed == AtRest => fp = src

(* A stop() that returns leaves no supervised child behind and no round     *)
(* that could start one, also when it came while a replacement was          *)
(* starting.  A child whose start timed out is not supervised any more      *)
(* (strays): nobody stops it.                                               *)
StopLeavesNoChild == stop = "done" => live = None /\ pc = "idle"

=============================================================================
