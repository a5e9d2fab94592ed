---------------------------- MODULE HotReloadProofs ----------------------------
(***************************************************************************)
(* Proofs about HotReload, for any number of edits and faults.             *)
(*                                                                         *)
(* What keeps an edit from being missed depends on where the round stands: *)
(* before the comparison nothing is needed, from there to the end of the   *)
(* build the candidate must be new, after it the fingerprint.  Otherwise   *)
(* the edit must be on its way, as an event, a timer or a request.         *)
(***************************************************************************)
EXTENDS HotReload, TLAPS

UnderWay == event \/ timer \/ requested

(* While the supervisor watches, what it has noted is new, or more comes.  *)
Noted ==
    ~Stopping =>
        /\ pc \in {"building", "built"} => candidate = src \/ UnderWay
        /\ pc \in {"replacing", "starting"} => fp = src \/ UnderWay
        /\ pc = "idle" => (fp = src \/ event \/ timer) /\ ~requested
        /\ pc \in Booting => ~UnderWay

(* Once stop() has waited for the round, no round begins.                  *)
Quiet ==
    /\ stop \in {"stopping", "done", "failed"} => pc = "idle"
    /\ stop = "done" => live = None
    /\ pc \in Booting => stop = "no"

HInv == TypeOK /\ Noted /\ Quiet

LEMMA VersionIsNatural == TypeOK => src \in Nat /\ src \in 0..src
<1>1. TypeOK => src \in 0..MaxEdits
  BY Zenon DEF TypeOK, Versions
<1>2. QED
  BY <1>1, BoundsAssumption

LEMMA NextVersion ==
    ASSUME src \in Nat, src < MaxEdits
    PROVE  0..src \subseteq 0..(src + 1) /\ src + 1 \in 0..(src + 1) /\ src + 1 \in Versions
BY BoundsAssumption DEF Versions

LEMMA HInvInit == Init => HInv
<1> SUFFICES ASSUME Init PROVE HInv
  OBVIOUS
<1>1. TypeOK
  <2>1. event \in BOOLEAN /\ timer \in BOOLEAN /\ requested \in BOOLEAN /\ target \in BOOLEAN
    BY Zenon DEF Init
  <2>2. stop = "no" /\ live = None
    BY DEF Init
  <2>3. src \in Versions /\ broken \subseteq 0..src
    <3>1. src = 0 /\ broken = {}
      BY DEF Init
    <3>2. QED
      BY <3>1, BoundsAssumption DEF Versions
  <2>4. {candidate, fp, built, live} \subseteq (0..src) \cup {None}
    BY DEF Init
  <2>5. QED
    BY <2>1, <2>2, <2>3, <2>4 DEF Init, TypeOK, Booting
<1>2. Noted /\ Quiet
  BY DEF Init, Noted, Quiet, UnderWay, Booting
<1>3. QED
  BY <1>1, <1>2 DEF HInv

(* An edit sets the event while the supervisor watches.                    *)
LEMMA HInvEdit == HInv /\ Edit => HInv'
<1> SUFFICES ASSUME HInv, Edit PROVE HInv'
  OBVIOUS
<1> USE BoundsAssumption
    DEF HInv, TypeOK, Versions, Booting, Edit, Watching, Stopping, childVars
<1>1. TypeOK'
  <2>1. event' \in BOOLEAN /\ timer' \in BOOLEAN /\ requested' \in BOOLEAN /\ target' \in BOOLEAN
    OBVIOUS
  <2>6. 0..src \subseteq 0..src' /\ src' \in 0..src' /\ src' \in Versions
    BY VersionIsNatural, NextVersion
  <2>2. broken' \subseteq 0..src'
    BY <2>6
  <2>3. {candidate, fp, built, live}' \subseteq (0..src') \cup {None}
    BY <2>6
  <2>4. stop # "no" => ~timer' /\ ~event'
    OBVIOUS
  <2>5. QED
    BY <2>1, <2>2, <2>3, <2>4, <2>6
<1>2. Noted'
  BY DEF Noted, UnderWay
<1>3. Quiet'
  BY DEF Quiet
<1>4. QED
  BY <1>1, <1>2, <1>3

LEMMA HInvStep == HInv /\ [Next]_vars => HInv'
<1> SUFFICES ASSUME HInv, [Next]_vars PROVE HInv'
  OBVIOUS
<1> USE DEF HInv, TypeOK, Versions, Booting, Noted, Quiet, UnderWay, Stopping,
            sources, watchVars, childVars
<1>1. CASE Edit
  BY <1>1, HInvEdit
<1>2. CASE FileEvent
  BY <1>2 DEF FileEvent
<1>3. CASE Debounced
  BY <1>3 DEF Debounced
<1>4. CASE BootStep
  <2>1. src \in 0..src
    BY VersionIsNatural
  <2>2. CASE pc = "building first"
    BY <1>4, <2>1, <2>2 DEF BootStep
  <2>3. CASE pc = "starting first"
    BY <1>4, <2>3 DEF BootStep
  <2>4. CASE pc = "marking first"
    BY <1>4, <2>1, <2>4 DEF BootStep
  <2>5. QED
    BY <1>4, <2>2, <2>3, <2>4 DEF BootStep
<1>5. CASE Compare
  <2>1. src \in 0..src
    BY VersionIsNatural
  <2>2. QED
    BY <1>5, <2>1 DEF Compare, NextRound
<1>6. CASE BuildReads
  BY <1>6 DEF BuildReads
<1>7. CASE BuildEnds
  BY <1>7 DEF BuildEnds, NextRound
<1>8. CASE Mark
  BY <1>8 DEF Mark
<1>9. CASE PreviousStops
  BY <1>9 DEF PreviousStops
<1>10. CASE ChildReady
  BY <1>10 DEF ChildReady, NextRound
<1>11. CASE ChildFails
  BY <1>11 DEF ChildFails, NextRound
<1>12. CASE ChildCrashes
  BY <1>12 DEF ChildCrashes
<1>13. CASE FingerprintFails
  BY <1>13 DEF FingerprintFails
<1>14. CASE Stop
  BY <1>14 DEF Stop
<1>15. CASE ReloadEnded
  BY <1>15 DEF ReloadEnded
<1>16. CASE TargetStopped
  BY <1>16 DEF TargetStopped
<1>17. CASE UNCHANGED vars
  BY <1>17 DEF vars
<1>18. QED
  BY <1>1, <1>2, <1>3, <1>4, <1>5, <1>6, <1>7, <1>8, <1>9, <1>10, <1>11, <1>12, <1>13,
     <1>14, <1>15, <1>16, <1>17 DEF Next

LEMMA HInvHolds == Spec => []HInv
BY HInvInit, HInvStep, PTL DEF Spec

-----------------------------------------------------------------------------
(* The supervisor's variables keep their types, whatever it is told.       *)
THEOREM HotReloadTyped == Spec => []TypeOK
<1>1. HInv => TypeOK
  BY DEF HInv
<1>2. QED
  BY <1>1, HInvHolds, PTL

(* #drainReloads and the debounce leave no edit without a fingerprint that  *)
(* was taken after it, of any number (not: without a build).               *)
THEOREM EveryChangeIsNoted == Spec => []NoChangeIsMissed
<1>1. HInv => NoChangeIsMissed
  BY DEF HInv, Noted, UnderWay, Stopping, NoChangeIsMissed, AtRest
<1>2. QED
  BY <1>1, HInvHolds, PTL

(* stop() leaves no supervised child and no round under way, at whichever   *)
(* step of a round it came; children whose start timed out are not          *)
(* supervised.                                                              *)
THEOREM StopIsComplete == Spec => []StopLeavesNoChild
<1>1. HInv => StopLeavesNoChild
  BY DEF HInv, Quiet, StopLeavesNoChild
<1>2. QED
  BY <1>1, HInvHolds, PTL

=============================================================================
