--------------------------- MODULE PromiseProofs ---------------------------
(***************************************************************************)
(* Proof that the interlocking with restarts implements RouteLocking on    *)
(* every yard where routes that require the same switch conflict.          *)
(***************************************************************************)
EXTENDS InterlockingProofs

(* A route that still holds any lock holds all its switches.                *)
HolderHoldsSwitches ==
    \A r \in Route : HoldsLock(r) => \A w \in Required(r) : swLock[w] = r

HolderInv == LockInv /\ HolderHoldsSwitches

(* A release takes every lock of the route.                                 *)
LEMMA ReleaseIsComplete ==
    ASSUME LockInv, NEW r \in Route, swLock' = ReleasedSwitches(r),
           \A s \in Sections(r) : s \in Section => secLock'[s] # r,
           \A s \in Section : secLock'[s] \in {None, secLock[s]}
    PROVE  ~HoldsLock(r)'
BY NoneAssumption
DEF HoldsLock, LockInv, LocksHaveOwners, TypeOK, ReleasedSwitches

(* The locks of another route that Establish meets are left alone.          *)
LEMMA EstablishLeavesOthers ==
    ASSUME SharedSwitchesConflict, LockInv, NEW r \in Route, Establish(r),
           NEW c \in Route \ {r}, HoldsLock(c)
    PROVE  /\ ~Conflicts(r, c)
           /\ Required(r) \cap Required(c) = {}
           /\ HoldsLock(c)'
<1> USE NoneAssumption, NeedsAssumption DEF LockInv, TypeOK
<1>1. IsLocked(c)
  BY DEF HoldsLock, LocksHaveOwners
<1>2. ~Conflicts(r, c)
  BY <1>1 DEF Establish, CheckEstablish, NoConflictLocked, IsLocked,
              LockedState, Defined
<1>3. Required(r) \cap Required(c) = {}
  BY <1>2 DEF SharedSwitchesConflict
<1>4. HoldsLock(c)'
  <2>1. CASE \E s \in Section : secLock[s] = c
    <3>1. PICK s \in Section : secLock[s] = c
      BY <2>1
    <3>2. s \notin OwnSections(r)
      BY <3>1 DEF Establish, CheckEstablish, SectionsReady, OwnSections
    <3>3. QED
      BY <3>1, <3>2 DEF Establish, HoldsLock
  <2>2. CASE \E w \in Switch : swLock[w] = c
    <3>1. PICK w \in Switch : swLock[w] = c
      BY <2>2
    <3>2. w \notin Required(r)
      BY <3>1, <1>3 DEF LocksHaveOwners
    <3>3. QED
      BY <3>1, <3>2 DEF Establish, HoldsLock
  <2>3. QED
    BY <2>1, <2>2 DEF HoldsLock
<1>5. QED
  BY <1>2, <1>3, <1>4

(* A route that holds any lock keeps every switch it requires, in every     *)
(* step: what it loses one at a time is sections only.                      *)
LEMMA HolderInvInductive ==
    ASSUME SharedSwitchesConflict, HolderInv, [RecoveryNext]_vars
    PROVE  HolderInv'
<1> SUFFICES ASSUME NEW c \in Route, HoldsLock(c)', NEW v \in Required(c)
             PROVE  swLock'[v] = c
  BY LockInvInductive DEF HolderInv, HolderHoldsSwitches
<1> USE NoneAssumption, NeedsAssumption
    DEF HolderInv, HolderHoldsSwitches, LockInv, TypeOK, Required, locks
<1>1. CASE Establish(c)
  BY <1>1 DEF Establish
<1>2. CASE ~Establish(c)
  <2>0. HoldsLock(c) /\ swLock[v] = c
    BY <1>2, LocksOnlyByEstablish
  <2>1. ASSUME NEW r \in Route, Establish(r) PROVE swLock'[v] = c
    <3>1. v \notin Required(r)
      BY <1>2, <2>0, <2>1, EstablishLeavesOthers
    <3>2. QED
      BY <2>0, <2>1, <3>1 DEF Establish
  <2>2. ASSUME NEW r \in Route, ReleaseRouteLocks(r) PROVE swLock'[v] = c
    <3>1. r # c
      <4>1. ~HoldsLock(r)'
        BY <2>2, ReleaseIsComplete DEF ReleaseRouteLocks, ReleasedSections
      <4>2. QED
        BY <4>1
    <3>2. QED
      BY <2>0, <2>2, <3>1 DEF ReleaseRouteLocks, ReleasedSwitches
  <2>3. ASSUME NEW s \in Section, ClearTerminal(s) PROVE swLock'[v] = c
    <3>1. PICK r \in Route :
            /\ secLock' = ReleasedSections(r, ReleasedAfterClear(s))
            /\ swLock' = ReleasedSwitches(r)
      BY <2>3 DEF ClearTerminal, MovedIn
    <3>2. /\ \A x \in Sections(r) : x \in Section => secLock'[x] # r
          /\ \A x \in Section : secLock'[x] \in {None, secLock[x]}
      BY <3>1 DEF ReleasedSections, ReleasedAfterClear
    <3>3. r # c
      <4>1. ~HoldsLock(r)'
        BY <3>1, <3>2, ReleaseIsComplete
      <4>2. QED
        BY <4>1
    <3>4. QED
      BY <2>0, <3>1, <3>3 DEF ReleasedSwitches
  <2>4. ASSUME Replay PROVE swLock'[v] = c
    BY <2>0, <2>4 DEF Replay
  <2>5. ASSUME UNCHANGED swLock PROVE swLock'[v] = c
    BY <2>0, <2>5
  <2>6. QED
    BY <2>1, <2>2, <2>3, <2>4, <2>5
    DEF RecoveryNext, Next, RouteStep, SwitchStep, TrainStep, DefineRoute,
        CancelImmediate, CancelTimed, CompleteDelayedCancel, FaultUnlock,
        Reverse, SetIndication, RefreshSignals, Occupy, ClearSection, Tick, vars
<1>3. QED
  BY <1>1, <1>2

-----------------------------------------------------------------------------
Holders == {r \in Route : HoldsLock(r)}

(* RouteLocking reads the same yard.                                        *)
LEMMA SameYard ==
    /\ Promise!Position = Position
    /\ \A p : Promise!Opposite(p) = Opposite(p)
    /\ \A r : Promise!Required(r) = Required(r)
    /\ \A a, b : Promise!Conflicts(a, b) <=> Conflicts(a, b)
  BY DEF Promise!Position, Position, Promise!Opposite, Opposite,
         Promise!Required, Required, Promise!Conflicts, Conflicts,
         Promise!ShareSection, ShareSection, Promise!Sections, Sections,
         Promise!OpposeSwitch, OpposeSwitch

(* Every step of the interlocking is a step of RouteLocking: Establish sets *)
(* a route, Reverse moves a switch no set route requires, and whatever else *)
(* happens to the locks gives routes up.                                    *)
LEMMA StepKeepsPromise ==
    ASSUME SharedSwitchesConflict, HolderInv, HolderInv', [RecoveryNext]_vars
    PROVE  [Promise!Next]_<<Holders, swPos>>
<1> USE NoneAssumption, NeedsAssumption DEF HolderInv
<1>1. ASSUME NEW r \in Route, Establish(r)
      PROVE  [Promise!Next]_<<Holders, swPos>>
  <2>1. \A c \in Holders : ~Conflicts(r, c)
    BY <1>1, EstablishLeavesOthers DEF Holders, Conflicts
  <2>2. Holders' \subseteq Holders \cup {r}
    <3> SUFFICES ASSUME NEW c \in Route, HoldsLock(c)', c # r
                 PROVE  HoldsLock(c)
      BY DEF Holders
    <3>1. ~Establish(c)
      BY <1>1 DEF Establish, CheckEstablish, RestState, LockInv, TypeOK
    <3>2. QED
      BY <3>1, LocksOnlyByEstablish
  <2>3. Holders \ {r} \subseteq Holders'
    BY <1>1, EstablishLeavesOthers DEF Holders
  <2>4. swPos' = [w \in Switch |-> IF w \in Required(r) THEN Needs[r][w]
                                   ELSE swPos[w]]
    BY <1>1 DEF Establish
  <2>5. CASE r \in Holders'
    <3>1. Holders' = Holders \cup {r}
      BY <2>2, <2>3, <2>5
    <3>2. Promise!Set(r)
      BY <2>1, <2>4, <3>1, SameYard DEF Promise!Set, Holders
    <3>3. QED
      BY <3>2 DEF Promise!Next
  <2>6. CASE r \notin Holders'
    <3>1. Required(r) = {}
      BY <1>1, <2>6 DEF Establish, Holders, HoldsLock, Required
    <3>2. swPos' = swPos
      BY <2>4, <3>1 DEF LockInv, TypeOK
    <3>3. Promise!Release
      BY <2>2, <2>6, <3>2 DEF Promise!Release, Holders
    <3>4. QED
      BY <3>3 DEF Promise!Next
  <2>7. QED
    BY <2>5, <2>6
<1>2. ASSUME \A r \in Route : ~Establish(r)
      PROVE  Holders' \subseteq Holders
  BY <1>2, LocksOnlyByEstablish DEF Holders
<1>3. ASSUME NEW w \in Switch, Reverse(w)
      PROVE  [Promise!Next]_<<Holders, swPos>>
  <2>1. \A r \in Holders : w \notin Required(r)
    BY <1>3 DEF Reverse, CheckSwitchMove, Holders, HolderHoldsSwitches
  <2>2. Holders' = Holders
    BY <1>3 DEF Reverse, locks, Holders, HoldsLock
  <2>3. Promise!Move(w)
    BY <1>3, <2>1, <2>2, SameYard DEF Reverse, Promise!Move, Holders
  <2>4. QED
    BY <2>3 DEF Promise!Next
<1>4. ASSUME \A r \in Route : ~Establish(r), UNCHANGED swPos
      PROVE  [Promise!Next]_<<Holders, swPos>>
  <2>1. Promise!Release
    BY <1>2, <1>4 DEF Promise!Release, Holders
  <2>2. QED
    BY <2>1 DEF Promise!Next
<1>5. QED
  <2>1. CASE \E r \in Route : Establish(r)
    BY <1>1, <2>1
  <2>2. CASE \E w \in Switch : Reverse(w)
    BY <1>3, <2>2
  <2>3. CASE /\ ~\E r \in Route : Establish(r)
             /\ ~\E w \in Switch : Reverse(w)
    <3>1. UNCHANGED swPos
      BY <2>3
      DEF RecoveryNext, Next, RouteStep, SwitchStep, TrainStep, DefineRoute,
          CancelImmediate, CancelTimed, CompleteDelayedCancel, FaultUnlock,
          SetIndication, RefreshSignals, Occupy, ClearSection,
          ClearTerminal, Tick, Replay, switches, vars
    <3>2. QED
      BY <1>4, <2>3, <3>1
  <2>4. QED
    BY <2>1, <2>2, <2>3

(* The interlocking, with any cancels, faults, phantom approach locks and   *)
(* restarts, keeps the promise of RouteLocking: conflicting routes are not  *)
(* set together and no switch moves under a route that holds a lock.        *)
THEOREM Implementation ==
    ASSUME SharedSwitchesConflict
    PROVE  RecoverySpec => KeepsPromise
<1>1. Init => HolderInv
  BY TypeInit, NoneAssumption
  DEF Init, HolderInv, HolderHoldsSwitches, HoldsLock, LockInv,
      LocksHaveOwners, LockedSwitchesInPosition, LockHoldersLogged
<1>2. HolderInv /\ [RecoveryNext]_vars => HolderInv'
  BY HolderInvInductive
<1>3. Init => Promise!Init
  BY NoneAssumption, SameYard DEF Init, Promise!Init, HoldsLock
<1>4. HolderInv /\ HolderInv' /\ [RecoveryNext]_vars
        => [Promise!Next]_<<{r \in Route : HoldsLock(r)}, swPos>>
  BY StepKeepsPromise DEF Holders
<1>5. QED
  BY <1>1, <1>2, <1>3, <1>4, PTL DEF RecoverySpec, KeepsPromise, Promise!Spec
=============================================================================
