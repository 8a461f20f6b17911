------------------------- MODULE InterlockingProofs -------------------------
(***************************************************************************)
(* Proofs about the interlocking with restarts, for every yard.            *)
(***************************************************************************)
EXTENDS Recovery, TLAPS

(* The initial values have their types.                                     *)
LEMMA TypeInit == Init => TypeOK
BY DEF Init, TypeOK, RouteState, RestState, LockedState, Aspect, Position

(* No step gives a variable a value outside its type.                       *)
LEMMA TypeStep == TypeOK /\ [RecoveryNext]_vars => TypeOK'
<1> SUFFICES ASSUME TypeOK, [RecoveryNext]_vars PROVE TypeOK'
  OBVIOUS
<1> USE NoneAssumption, RouteAssumption, NeedsAssumption
    DEF TypeOK, RouteState, RestState, LockedState, Aspect, Position,
        locks, switches, signals, ClearOnceOccupied
<1>1. ASSUME NEW r \in Route, DefineRoute(r) PROVE TypeOK'
  BY <1>1 DEF DefineRoute
<1>2. ASSUME NEW r \in Route, Establish(r) PROVE TypeOK'
  BY <1>2 DEF Establish, OpenAspect, Required
<1>3. ASSUME NEW r \in Route, CancelImmediate(r) PROVE TypeOK'
  BY <1>3 DEF CancelImmediate, ReleaseRouteLocks, ReleasedSections,
              ReleasedSwitches, CloseAndUnbindSignal
<1>4. ASSUME NEW r \in Route, CancelTimed(r) PROVE TypeOK'
  BY <1>4 DEF CancelTimed, StartTimer
<1>5. ASSUME NEW r \in Route, CompleteDelayedCancel(r) PROVE TypeOK'
  BY <1>5 DEF CompleteDelayedCancel, ReleaseRouteLocks, ReleasedSections,
              ReleasedSwitches
<1>6. ASSUME NEW r \in Route, FaultUnlock(r) PROVE TypeOK'
  BY <1>6 DEF FaultUnlock, ReleaseRouteLocks, ReleasedSections,
              ReleasedSwitches, CloseAndUnbindSignal
<1>7. ASSUME NEW w \in Switch, Reverse(w) PROVE TypeOK'
  BY <1>7 DEF Reverse, Opposite
<1>8. ASSUME NEW w \in Switch, NEW ok \in BOOLEAN, SetIndication(w, ok)
      PROVE TypeOK'
  BY <1>8 DEF SetIndication, RefreshSignals
<1>9. ASSUME NEW s \in Section, Occupy(s) PROVE TypeOK'
  BY <1>9 DEF Occupy
<1>10. ASSUME NEW s \in Section, ClearSection(s) PROVE TypeOK'
  BY <1>10 DEF ClearSection, ReleasedAfterClear
<1>11. ASSUME NEW s \in Section, ClearTerminal(s) PROVE TypeOK'
  BY <1>11 DEF ClearTerminal, MovedIn, ReleasedAfterClear, ReleasedSections,
               ReleasedSwitches, CloseAndUnbindSignal
<1>12. ASSUME Tick PROVE TypeOK'
  BY <1>12 DEF Tick
<1>13. ASSUME Replay PROVE TypeOK'
  BY <1>13 DEF Replay, Replayed
<1>14. ASSUME UNCHANGED vars PROVE TypeOK'
  BY <1>14 DEF vars
<1>15. QED
  BY <1>1, <1>2, <1>3, <1>4, <1>5, <1>6, <1>7, <1>8, <1>9, <1>10, <1>11,
     <1>12, <1>13, <1>14
  DEF RecoveryNext, Next, RouteStep, SwitchStep, TrainStep

(* Every variable always has its type: no method writes a state, position,  *)
(* aspect, lock or timer value the code has no meaning for.                 *)
THEOREM TypeCorrect == RecoverySpec => []TypeOK
<1>1. QED
  BY TypeInit, TypeStep, PTL DEF RecoverySpec

-----------------------------------------------------------------------------
(* The event log knows of every route that holds a lock as established or   *)
(* cancelling, so that a replay leaves it in a locking state.               *)
LockHoldersLogged ==
    /\ \A s \in Section : secLock[s] # None =>
           logged[secLock[s]] \in {"established", "cancelling"}
    /\ \A w \in Switch : swLock[w] # None =>
           logged[swLock[w]] \in {"established", "cancelling"}

LockInv ==
    /\ TypeOK
    /\ LocksHaveOwners
    /\ LockedSwitchesInPosition
    /\ LockHoldersLogged

(* Every step keeps locks, positions and the log in agreement.              *)
LEMMA LockInvInductive == LockInv /\ [RecoveryNext]_vars => LockInv'
<1> SUFFICES ASSUME LockInv, [RecoveryNext]_vars PROVE LockInv'
  OBVIOUS
<1>0. TypeOK'
  BY TypeStep DEF LockInv
<1> USE NoneAssumption, RouteAssumption, NeedsAssumption
    DEF LockInv, TypeOK, LocksHaveOwners, LockedSwitchesInPosition,
        LockHoldersLogged, IsLocked, LockedState, locks, switches, signals
<1>1. ASSUME NEW r \in Route, DefineRoute(r) PROVE LockInv'
  BY <1>0, <1>1 DEF DefineRoute, Defined
<1>2. ASSUME NEW r \in Route, Establish(r) PROVE LockInv'
  BY <1>0, <1>2 DEF Establish, OwnSections, SwitchMoves, CheckSwitchMove,
                    CheckEstablish
<1>3. ASSUME NEW r \in Route, CancelImmediate(r) PROVE LockInv'
  BY <1>0, <1>3 DEF CancelImmediate, ReleaseRouteLocks, ReleasedSections,
                    ReleasedSwitches
<1>4. ASSUME NEW r \in Route, CancelTimed(r) PROVE LockInv'
  BY <1>0, <1>4 DEF CancelTimed
<1>5. ASSUME NEW r \in Route, CompleteDelayedCancel(r) PROVE LockInv'
  BY <1>0, <1>5 DEF CompleteDelayedCancel, ReleaseRouteLocks,
                    ReleasedSections, ReleasedSwitches
<1>6. ASSUME NEW r \in Route, FaultUnlock(r) PROVE LockInv'
  BY <1>0, <1>6 DEF FaultUnlock, ReleaseRouteLocks, ReleasedSections,
                    ReleasedSwitches
<1>7. ASSUME NEW w \in Switch, Reverse(w) PROVE LockInv'
  BY <1>0, <1>7 DEF Reverse, CheckSwitchMove
<1>8. ASSUME NEW w \in Switch, NEW ok \in BOOLEAN, SetIndication(w, ok)
      PROVE LockInv'
  BY <1>0, <1>8 DEF SetIndication, RefreshSignals
<1>9. ASSUME NEW s \in Section, Occupy(s) PROVE LockInv'
  BY <1>0, <1>9 DEF Occupy
<1>10. ASSUME NEW s \in Section, ClearSection(s) PROVE LockInv'
  BY <1>0, <1>10 DEF ClearSection, ReleasedAfterClear
<1>11. ASSUME NEW s \in Section, ClearTerminal(s) PROVE LockInv'
  BY <1>0, <1>11 DEF ClearTerminal, MovedIn, ReleasedAfterClear,
                     ReleasedSections, ReleasedSwitches
<1>12. ASSUME Tick PROVE LockInv'
  BY <1>0, <1>12 DEF Tick
<1>13. ASSUME Replay PROVE LockInv'
  <2>1. ASSUME NEW r \in Route, IsLocked(r),
               logged[r] \in {"established", "cancelling"}
        PROVE routeState'[r] = logged[r]
    BY <1>13, <2>1 DEF Replay, Replayed, Defined
  <2>2. QED
    BY <1>0, <1>13, <2>1 DEF Replay
<1>14. ASSUME UNCHANGED vars PROVE LockInv'
  BY <1>0, <1>14 DEF vars
<1> HIDE DEF LockInv
<1>15. QED
  BY <1>1, <1>2, <1>3, <1>4, <1>5, <1>6, <1>7, <1>8, <1>9, <1>10, <1>11,
     <1>12, <1>13, <1>14
  DEF RecoveryNext, Next, RouteStep, SwitchStep, TrainStep

(* So locks, positions and the log agree in every reachable state.          *)
LEMMA LockInvAlways == RecoverySpec => []LockInv
<1>1. Init => LockInv
  BY TypeInit DEF Init, LockInv, LocksHaveOwners, LockedSwitchesInPosition,
                  LockHoldersLogged
<1>2. QED
  BY <1>1, LockInvInductive, PTL DEF RecoverySpec

(* No lock outlives the locking state of its route, on any yard, whatever   *)
(* the order of cancels, releases, fault-unlocks, switch moves, train       *)
(* reports and restarts.                                                    *)
THEOREM LocksOwned == RecoverySpec => []LocksHaveOwners
<1>1. LockInv => LocksHaveOwners
  BY DEF LockInv
<1>2. QED
  BY <1>1, LockInvAlways, PTL

(* A switch that is locked lies in the position its holder requires.        *)
THEOREM SwitchesInPosition == RecoverySpec => []LockedSwitchesInPosition
<1>1. LockInv => LockedSwitchesInPosition
  BY DEF LockInv
<1>2. QED
  BY <1>1, LockInvAlways, PTL

-----------------------------------------------------------------------------
(* Only Establish gives a route a lock.                                     *)
LEMMA LocksOnlyByEstablish ==
    ASSUME LockInv, [RecoveryNext]_vars, NEW c \in Route, HoldsLock(c)',
           ~Establish(c)
    PROVE  HoldsLock(c)
<1> USE NoneAssumption DEF HoldsLock, LockInv, TypeOK, locks
<1>1. ASSUME NEW r \in Route, RouteStep(r) PROVE HoldsLock(c)
  BY <1>1 DEF RouteStep, DefineRoute, Establish, CancelImmediate, CancelTimed,
              CompleteDelayedCancel, FaultUnlock, ReleaseRouteLocks,
              ReleasedSections, ReleasedSwitches
<1>2. ASSUME NEW w \in Switch, SwitchStep(w) PROVE HoldsLock(c)
  BY <1>2 DEF SwitchStep, Reverse, SetIndication, RefreshSignals
<1>3. ASSUME NEW s \in Section, TrainStep(s) PROVE HoldsLock(c)
  BY <1>3 DEF TrainStep, Occupy, ClearSection, ClearTerminal,
              ReleasedAfterClear, ReleasedSections, ReleasedSwitches
<1>4. ASSUME Tick PROVE HoldsLock(c)
  BY <1>4 DEF Tick
<1>5. ASSUME Replay PROVE HoldsLock(c)
  BY <1>5 DEF Replay
<1>6. ASSUME UNCHANGED vars PROVE HoldsLock(c)
  BY <1>6 DEF vars
<1>7. QED
  BY <1>1, <1>2, <1>3, <1>4, <1>5, <1>6 DEF RecoveryNext, Next

(* A route that gets its locks meets no locked route it conflicts with, and *)
(* a conflicting route gets none beside it.                                 *)
LEMMA ConflictingLocksStep ==
    ASSUME LockInv, LockInv', ConflictingLocksExclude, [RecoveryNext]_vars
    PROVE  ConflictingLocksExclude'
<1> SUFFICES ASSUME NEW c \in Route, NEW d \in Route, Conflicts(c, d),
                    HoldsLock(c)', HoldsLock(d)'
             PROVE  FALSE
  BY DEF ConflictingLocksExclude
<1>1. ASSUME NEW e \in Route, NEW f \in Route, Conflicts(e, f),
             Establish(e), HoldsLock(f)'
      PROVE  FALSE
  <2>1. e # f
    BY <1>1 DEF Conflicts
  <2>2. ~Establish(f)
    BY <1>1, <2>1 DEF Establish, LockInv, TypeOK, CheckEstablish, RestState
  <2>3. HoldsLock(f)
    BY <1>1, <2>2, LocksOnlyByEstablish
  <2>4. IsLocked(f)
    BY <2>3, NoneAssumption DEF HoldsLock, LockInv, LocksHaveOwners
  <2>5. QED
    BY <1>1, <2>4 DEF Establish, CheckEstablish, NoConflictLocked, IsLocked,
                      LockedState, Defined
<1>2. Conflicts(d, c)
  BY DEF Conflicts, ShareSection, OpposeSwitch
<1>3. ~Establish(c) /\ ~Establish(d)
  BY <1>1, <1>2
<1>4. HoldsLock(c) /\ HoldsLock(d)
  BY <1>3, LocksOnlyByEstablish
<1>5. QED
  BY <1>4 DEF ConflictingLocksExclude

(* Two conflicting routes never hold locks together, on any yard.           *)
THEOREM ConflictingLocks == RecoverySpec => []ConflictingLocksExclude
<1>1. Init => ConflictingLocksExclude
  BY NoneAssumption DEF Init, ConflictingLocksExclude, HoldsLock
<1>2. /\ LockInv /\ LockInv'
      /\ ConflictingLocksExclude
      /\ [RecoveryNext]_vars
      => ConflictingLocksExclude'
  BY ConflictingLocksStep
<1>3. QED
  BY <1>1, <1>2, LockInvAlways, PTL DEF RecoverySpec
=============================================================================
