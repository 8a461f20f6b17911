---------------------------- MODULE ReleaseProofs ---------------------------
(***************************************************************************)
(* Proofs about how routes are given up: by cancels, which hold as long as *)
(* the interlocking is not restarted (Recovery takes approach locks back,  *)
(* makes routes cancelling without a timer, and leaves marks at rest), and *)
(* behind trains.                                                          *)
(***************************************************************************)
EXTENDS InterlockingProofs

(* A route at rest has no marks of a train: whatever gives it up clears     *)
(* them, and only a movement inside a locked route makes new ones.          *)
MarksOfLocked == \A r \in Route : once[r] # {} => IsLocked(r)

CancelInv == TypeOK /\ CancellingHasTimer /\ MarksOfLocked

(* No method starts a cancel without its timer, takes the timer from a      *)
(* running one, or brings a route to rest with marks on it.                 *)
LEMMA CancelInvInductive == CancelInv /\ [Next]_vars => CancelInv'
<1> SUFFICES ASSUME CancelInv, [Next]_vars PROVE CancelInv'
  OBVIOUS
<1>0. TypeOK'
  BY TypeStep DEF CancelInv, RecoveryNext
<1> USE NoneAssumption, RouteAssumption
    DEF CancelInv, TypeOK, CancellingHasTimer, MarksOfLocked, IsLocked,
        LockedState, locks, switches, signals, ClearOnceOccupied
<1>1. ASSUME NEW r \in Route, DefineRoute(r) PROVE CancelInv'
  BY <1>0, <1>1 DEF DefineRoute, Defined
<1>2. ASSUME NEW r \in Route, Establish(r) PROVE CancelInv'
  BY <1>0, <1>2 DEF Establish
<1>3. ASSUME NEW r \in Route, CancelImmediate(r) PROVE CancelInv'
  BY <1>0, <1>3 DEF CancelImmediate
<1>4. ASSUME NEW r \in Route, CancelTimed(r) PROVE CancelInv'
  BY <1>0, <1>4 DEF CancelTimed, StartTimer
<1>5. ASSUME NEW r \in Route, CompleteDelayedCancel(r) PROVE CancelInv'
  BY <1>0, <1>5 DEF CompleteDelayedCancel
<1>6. ASSUME NEW r \in Route, FaultUnlock(r) PROVE CancelInv'
  BY <1>0, <1>6 DEF FaultUnlock
<1>7. ASSUME NEW w \in Switch, SwitchStep(w) PROVE CancelInv'
  BY <1>0, <1>7 DEF SwitchStep, Reverse, SetIndication
<1>8. ASSUME NEW s \in Section, Occupy(s) PROVE CancelInv'
  <2>1. \A r \in Route : once'[r] # once[r] => r \in MovedIn(s)
    BY <1>8 DEF Occupy, AnyOf
  <2>2. \A r \in Route : routeState'[r] \in {routeState[r], "approach_locked"}
    BY <1>8 DEF Occupy
  <2>3. QED
    BY <1>0, <1>8, <2>1, <2>2 DEF Occupy, MovedIn
<1>9. ASSUME NEW s \in Section, ClearSection(s) PROVE CancelInv'
  BY <1>0, <1>9 DEF ClearSection
<1>10. ASSUME NEW s \in Section, ClearTerminal(s) PROVE CancelInv'
  <2>1. PICK r \in Route : /\ routeState' = [routeState EXCEPT ![r] = "unlocked"]
                           /\ once' = [once EXCEPT ![r] = {}]
                           /\ timer' = timer
    BY <1>10 DEF ClearTerminal, MovedIn
  <2>2. QED
    BY <1>0, <2>1
<1>11. ASSUME Tick PROVE CancelInv'
  <2>1. \A r \in Route : timer[r] # None => timer'[r] # None
    <3> SUFFICES ASSUME NEW r \in Route, timer[r] \in Nat
                 PROVE  timer'[r] \in Nat
      OBVIOUS
    <3>1. CASE timer[r] = 0
      BY <1>11, <3>1 DEF Tick
    <3>2. CASE timer[r] # 0
      <4>1. timer'[r] = timer[r] - 1
        BY <1>11, <3>2 DEF Tick
      <4>2. QED
        BY <3>2, <4>1
    <3>3. QED
      BY <3>1, <3>2
  <2>2. routeState' = routeState /\ once' = once
    BY <1>11 DEF Tick
  <2>3. QED
    BY <1>0, <2>1, <2>2
<1>12. ASSUME UNCHANGED vars PROVE CancelInv'
  BY <1>0, <1>12 DEF vars
<1>13. QED
  BY <1>1, <1>2, <1>3, <1>4, <1>5, <1>6, <1>7, <1>8, <1>9, <1>10, <1>11,
     <1>12
  DEF Next, RouteStep, TrainStep

(* So it is in every state the interlocking reaches without a restart.      *)
LEMMA CancelInvAlways == Spec => []CancelInv
<1>1. Init => CancelInv
  BY TypeInit DEF Init, CancelInv, CancellingHasTimer, MarksOfLocked
<1>2. QED
  BY <1>1, CancelInvInductive, PTL DEF Spec

(* A route that is cancelling has a timer, so that the recovery can finish  *)
(* the cancel (ReconcileAll completes only what it finds in the timers).    *)
THEOREM TimersOfCancels == Spec => []CancellingHasTimer
<1>1. CancelInv => CancellingHasTimer
  BY DEF CancelInv
<1>2. QED
  BY <1>1, CancelInvAlways, PTL

(* Establish never starts a route on the marks of an earlier train, which   *)
(* would release its sections in front of the next one.                     *)
THEOREM MarksStartFresh == Spec => OnceSinceEstablished
<1>1. CancelInv => \A r \in Route : Establish(r) => once[r] = {}
  BY DEF CancelInv, MarksOfLocked, IsLocked, LockedState, Establish,
         CheckEstablish, RestState
<1>2. QED
  BY <1>1, CancelInvAlways, PTL DEF OnceSinceEstablished

(* No method gives up an approach-locked route but the timed cancel, the    *)
(* train that runs through it and the fault-unlock.                         *)
LEMMA ApproachLockStep ==
    ASSUME TypeOK, [Next]_vars, NEW r \in Route,
           routeState[r] = "approach_locked"
    PROVE  \/ routeState'[r] \in {"approach_locked", "cancelling", "unlocked"}
           \/ FaultUnlock(r)
<1> DEFINE Kept == routeState'[r] \in {"approach_locked", "cancelling", "unlocked"}
<1> USE DEF TypeOK
<1>1. ASSUME NEW q \in Route, RouteStep(q) PROVE Kept \/ FaultUnlock(r)
  BY <1>1 DEF RouteStep, DefineRoute, Defined, Establish, CheckEstablish,
              RestState, CancelImmediate, NeedTimedDelay, CancelTimed,
              CompleteDelayedCancel, FaultUnlock
<1>2. ASSUME NEW w \in Switch, SwitchStep(w) PROVE Kept
  BY <1>2 DEF SwitchStep, Reverse, SetIndication
<1>3. ASSUME NEW s \in Section, TrainStep(s) PROVE Kept
  BY <1>3 DEF TrainStep, Occupy, ClearSection, ClearTerminal
<1>4. ASSUME Tick \/ UNCHANGED vars PROVE Kept
  BY <1>4 DEF Tick, vars
<1>5. QED
  BY <1>1, <1>2, <1>3, <1>4 DEF Next

(* An approach-locked route is given up only in these three ways.           *)
THEOREM ApproachLocks == Spec => ApproachLockRespected
<1>1. TypeOK /\ [Next]_vars =>
          \A r \in Route : routeState[r] = "approach_locked" =>
              \/ routeState'[r] \in {"approach_locked", "cancelling", "unlocked"}
              \/ FaultUnlock(r)
  BY ApproachLockStep
<1>2. CancelInv => TypeOK
  BY DEF CancelInv
<1>3. QED
  BY <1>1, <1>2, CancelInvAlways, PTL DEF Spec, ApproachLockRespected

-----------------------------------------------------------------------------
(* The sectional release, on every yard.  Where two routes end on the same  *)
(* section, the marks of one train may complete both; the movement then     *)
(* releases the sections of both and gives up only one, and the other loses *)
(* sections a train may stand on.  That is the only exception.              *)

(* A train that enters e unlocks only sections it has left behind.          *)
LEMMA BehindIsClear ==
    ASSUME NEW r \in Route, NEW e \in Section, NEW x \in ReleasedBehind(r, e)
    PROVE  x \notin occupied \cup {e}
<1>1. PICK i, j \in 1..Len(Path[r]) :
          Path[r][i] = x /\ Path[r][j] = e /\ j \in {i + 1, i + 2}
  BY DEF ReleasedBehind
<1>2. Path[r] \in Seq(Section) /\ i # j
  BY <1>1, PathAssumption
<1>3. x # e
  BY <1>1, <1>2, PathAssumption
<1>4. QED
  BY <1>3 DEF ReleasedBehind

(* A train that leaves e without completing r unlocks at most e.            *)
LEMMA ClearReleasesItself ==
    ASSUME NEW r \in Route, NEW e \in Section, ~RouteComplete(r, e),
           NEW x \in ReleasedByClear(r, e)
    PROVE  x = e
BY DEF ReleasedByClear

(* A section unlocked while the route that held it stays in a locking state *)
(* is clear of trains: the three-point release frees what lies behind.      *)
LEMMA FreedStep ==
    ASSUME TypeOK, [RecoveryNext]_vars, NEW s \in Section,
           secLock[s] # None, secLock'[s] = None,
           routeState'[secLock[s]] \in LockedState,
           ~OtherCompleted(secLock[s])
    PROVE  s \notin occupied'
<1> DEFINE h == secLock[s]
<1> USE NoneAssumption DEF TypeOK, LockedState, locks
<1>0. h \in Route
  OBVIOUS
<1>1. ASSUME NEW r \in Route, RouteStep(r) PROVE FALSE
  BY <1>1 DEF RouteStep, DefineRoute, Establish, CancelImmediate, CancelTimed,
              CompleteDelayedCancel, FaultUnlock, ReleaseRouteLocks,
              ReleasedSections
<1>2. ASSUME NEW w \in Switch, SwitchStep(w) PROVE FALSE
  BY <1>2 DEF SwitchStep, Reverse, SetIndication
<1>3. ASSUME NEW e \in Section, Occupy(e) PROVE s \notin occupied'
  <2>1. occupied' = occupied \cup {e}
    BY <1>3 DEF Occupy
  <2>2. PICK r \in MovedIn(e) : s \in ReleasedBehind(r, e)
    BY <1>3 DEF Occupy
  <2>3. QED
    BY <2>1, <2>2, BehindIsClear DEF MovedIn
<1>4. ASSUME NEW e \in Section, ClearSection(e) PROVE s \notin occupied'
  <2>1. occupied' = occupied \ {e}
    BY <1>4 DEF ClearSection
  <2>2. PICK r \in MovedIn(e) : s \in ReleasedByClear(r, e)
    BY <1>4 DEF ClearSection, ReleasedAfterClear
  <2>3. QED
    BY <1>4, <2>1, <2>2, ClearReleasesItself DEF ClearSection, MovedIn
<1>5. ASSUME NEW e \in Section, ClearTerminal(e) PROVE s \notin occupied'
  <2>1. PICK r \in MovedIn(e) :
            /\ RouteComplete(r, e)
            /\ occupied' = occupied \ {e}
            /\ secLock' = ReleasedSections(r, ReleasedAfterClear(e))
            /\ routeState' = [routeState EXCEPT ![r] = "unlocked"]
    BY <1>5 DEF ClearTerminal
  <2>2. h # r
    BY <1>0, <2>1
  <2>3. ReleasedAfterClear(e)[s] = None
    BY <2>1, <2>2 DEF ReleasedSections, ReleasedAfterClear
  <2>4. PICK q \in MovedIn(e) : s \in ReleasedByClear(q, e)
    BY <2>3 DEF ReleasedAfterClear
  <2>5. q \in Route /\ r \in Route
    BY DEF MovedIn
  <2>6. ~RouteComplete(q, e)
    <3>1. SUFFICES ASSUME RouteComplete(q, e) PROVE FALSE
      OBVIOUS
    <3>2. q = h
      BY <2>4, <3>1 DEF ReleasedByClear
    <3>3. Terminal(r) = Terminal(h)
      BY <2>1, <3>1, <3>2 DEF RouteComplete
    <3>4. IsLocked(r) /\ routeState'[r] = "unlocked"
      BY <2>1, <2>5 DEF MovedIn
    <3>5. QED
      BY <2>2, <2>5, <3>3, <3>4 DEF OtherCompleted
  <2>7. QED
    BY <2>1, <2>4, <2>5, <2>6, ClearReleasesItself
<1>6. ASSUME Tick \/ UNCHANGED vars PROVE FALSE
  BY <1>6 DEF Tick, vars
<1>7. ASSUME Replay PROVE FALSE
  BY <1>7 DEF Replay
<1>8. QED
  BY <1>1, <1>2, <1>3, <1>4, <1>5, <1>6, <1>7
  DEF RecoveryNext, Next, TrainStep

(* The sectional release frees only clear sections, on every yard and       *)
(* restarts included, except where a train completes two routes at once.    *)
THEOREM ReleaseBehindTrains == RecoverySpec => FreedSectionIsClear
<1>1. TypeOK /\ [RecoveryNext]_vars =>
          \A s \in Section :
              /\ secLock[s] # None
              /\ secLock'[s] = None
              /\ routeState'[secLock[s]] \in LockedState
              /\ ~OtherCompleted(secLock[s])
              => s \notin occupied'
  BY FreedStep
<1>2. QED
  BY <1>1, TypeCorrect, PTL DEF RecoverySpec, FreedSectionIsClear
=============================================================================
