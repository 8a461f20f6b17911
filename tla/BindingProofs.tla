--------------------------- MODULE BindingProofs ---------------------------
(***************************************************************************)
(* Proofs about the route a home signal is bound to: what it holds, what   *)
(* the signal shows, and what the view of the station shows of it.         *)
(***************************************************************************)
EXTENDS InterlockingProofs, StationView

(* A bound signal is the home signal of its route, which is in a locking    *)
(* state that the log knows of.                                             *)
BoundRouteIsLocked ==
    \A g \in Signal : protects[g] # None =>
        /\ Source[protects[g]] = g
        /\ IsLocked(protects[g])
        /\ logged[protects[g]] \in {"established", "cancelling"}

BoundInv == LockInv /\ BoundRouteIsLocked

(* Every step that ends a route unbinds its signal.                         *)
LEMMA BoundInvInductive == BoundInv /\ [RecoveryNext]_vars => BoundInv'
<1> SUFFICES ASSUME BoundInv, [RecoveryNext]_vars PROVE BoundRouteIsLocked'
  BY LockInvInductive DEF BoundInv
<1> USE NoneAssumption, RouteAssumption
    DEF BoundInv, LockInv, TypeOK, BoundRouteIsLocked, IsLocked, LockedState,
        locks, switches, signals
<1>1. ASSUME NEW r \in Route, DefineRoute(r) PROVE BoundRouteIsLocked'
  BY <1>1 DEF DefineRoute, Defined
<1>2. ASSUME NEW r \in Route, Establish(r) PROVE BoundRouteIsLocked'
  BY <1>2 DEF Establish
<1>3. ASSUME NEW r \in Route, CancelImmediate(r) PROVE BoundRouteIsLocked'
  BY <1>3 DEF CancelImmediate, CloseAndUnbindSignal
<1>4. ASSUME NEW r \in Route, CancelTimed(r) PROVE BoundRouteIsLocked'
  BY <1>4 DEF CancelTimed
<1>5. ASSUME NEW r \in Route, CompleteDelayedCancel(r)
      PROVE BoundRouteIsLocked'
  BY <1>5 DEF CompleteDelayedCancel
<1>6. ASSUME NEW r \in Route, FaultUnlock(r) PROVE BoundRouteIsLocked'
  BY <1>6 DEF FaultUnlock, CloseAndUnbindSignal
<1>7. ASSUME NEW w \in Switch, SwitchStep(w) PROVE BoundRouteIsLocked'
  BY <1>7 DEF SwitchStep, Reverse, SetIndication, RefreshSignals
<1>8. ASSUME NEW s \in Section, Occupy(s) PROVE BoundRouteIsLocked'
  BY <1>8 DEF Occupy
<1>9. ASSUME NEW s \in Section, ClearSection(s) PROVE BoundRouteIsLocked'
  BY <1>9 DEF ClearSection
<1>10. ASSUME NEW s \in Section, ClearTerminal(s) PROVE BoundRouteIsLocked'
  BY <1>10 DEF ClearTerminal, MovedIn, CloseAndUnbindSignal
<1>11. ASSUME Tick PROVE BoundRouteIsLocked'
  BY <1>11 DEF Tick
<1>12. ASSUME Replay PROVE BoundRouteIsLocked'
  <2>1. ASSUME NEW r \in Route, IsLocked(r),
               logged[r] \in {"established", "cancelling"}
        PROVE routeState'[r] = logged[r]
    BY <1>12, <2>1 DEF Replay, Replayed, Defined
  <2>2. QED
    BY <1>12, <2>1 DEF Replay
<1>13. ASSUME UNCHANGED vars PROVE BoundRouteIsLocked'
  BY <1>13 DEF vars
<1>14. QED
  BY <1>1, <1>2, <1>3, <1>4, <1>5, <1>6, <1>7, <1>8, <1>9, <1>10, <1>11,
     <1>12, <1>13
  DEF RecoveryNext, Next, RouteStep, TrainStep

(* So a signal is bound to a locked route only, in every reachable state.   *)
LEMMA BoundInvAlways == RecoverySpec => []BoundInv
<1>1. Init => BoundInv
  BY TypeInit DEF Init, BoundInv, BoundRouteIsLocked, LockInv, LocksHaveOwners,
                  LockedSwitchesInPosition, LockHoldersLogged
<1>2. QED
  BY <1>1, BoundInvInductive, PTL DEF RecoverySpec

-----------------------------------------------------------------------------
(* A bound route keeps its switches in every step: the only step that could *)
(* take one away is an Establish of a route that requires it too, and such  *)
(* a route conflicts.                                                       *)
LEMMA BoundSwitchesStep ==
    ASSUME SharedSwitchesConflict, BoundInv, BoundInv',
           BoundRouteHoldsSwitches, [RecoveryNext]_vars
    PROVE  BoundRouteHoldsSwitches'
<1> USE NoneAssumption, RouteAssumption, NeedsAssumption
    DEF BoundInv, LockInv, TypeOK, BoundRouteHoldsSwitches,
        LockedSwitchesInPosition, locks, switches, signals
<1> SUFFICES ASSUME NEW g \in Signal, NEW w \in Switch,
                    protects'[g] # None, w \in Required(protects'[g])
             PROVE  swLock'[w] = protects'[g]
  BY DEF Required
<1>1. ASSUME NEW r \in Route, Establish(r) PROVE swLock'[w] = protects'[g]
  <2>1. CASE protects'[g] = r
    BY <1>1, <2>1 DEF Establish
  <2>2. CASE protects'[g] # r
    <3>1. protects'[g] = protects[g] /\ swLock[w] = protects[g]
      BY <1>1, <2>2 DEF Establish
    <3>2. IsLocked(protects[g])
      BY <3>1 DEF LocksHaveOwners
    <3>3. ~Conflicts(r, protects[g])
      BY <1>1, <3>1, <3>2 DEF Establish, CheckEstablish, NoConflictLocked,
                              IsLocked, LockedState, Defined
    <3>4. w \notin Required(r)
      BY <2>2, <3>1, <3>3 DEF SharedSwitchesConflict
    <3>5. QED
      BY <1>1, <3>1, <3>4 DEF Establish
  <2>3. QED
    BY <2>1, <2>2
<1>2. ASSUME NEW r \in Route, DefineRoute(r) \/ CancelTimed(r)
      PROVE swLock'[w] = protects'[g]
  BY <1>2 DEF DefineRoute, CancelTimed
<1>3. ASSUME NEW r \in Route,
             \/ CancelImmediate(r)
             \/ CompleteDelayedCancel(r)
             \/ FaultUnlock(r)
      PROVE swLock'[w] = protects'[g]
  <2>1. /\ protects' = [protects EXCEPT ![Source[r]] = None]
        /\ swLock' = ReleasedSwitches(r)
    BY <1>3 DEF CancelImmediate, CompleteDelayedCancel, FaultUnlock,
                ReleaseRouteLocks, CloseAndUnbindSignal
  <2>2. protects'[g] = protects[g] /\ protects[g] # r
    BY <2>1 DEF BoundRouteIsLocked
  <2>3. QED
    BY <2>1, <2>2 DEF ReleasedSwitches
<1>4. ASSUME NEW v \in Switch, SwitchStep(v) PROVE swLock'[w] = protects'[g]
  BY <1>4 DEF SwitchStep, Reverse, SetIndication, RefreshSignals
<1>5. ASSUME NEW s \in Section, TrainStep(s) PROVE swLock'[w] = protects'[g]
  <2>1. CASE Occupy(s) \/ ClearSection(s)
    BY <2>1 DEF Occupy, ClearSection
  <2>2. CASE ClearTerminal(s)
    <3>1. PICK r \in Route : /\ protects' = [protects EXCEPT ![Source[r]] = None]
                             /\ swLock' = ReleasedSwitches(r)
      BY <2>2 DEF ClearTerminal, MovedIn, CloseAndUnbindSignal
    <3>2. protects'[g] = protects[g] /\ protects[g] # r
      BY <3>1 DEF BoundRouteIsLocked
    <3>3. QED
      BY <3>1, <3>2 DEF ReleasedSwitches
  <2>3. QED
    BY <1>5, <2>1, <2>2 DEF TrainStep
<1>6. ASSUME Tick PROVE swLock'[w] = protects'[g]
  BY <1>6 DEF Tick
<1>7. ASSUME Replay PROVE swLock'[w] = protects'[g]
  BY <1>7 DEF Replay
<1>8. ASSUME UNCHANGED vars PROVE swLock'[w] = protects'[g]
  BY <1>8 DEF vars
<1>9. QED
  BY <1>1, <1>2, <1>3, <1>4, <1>5, <1>6, <1>7, <1>8
  DEF RecoveryNext, Next, RouteStep

(* On a yard where routes that require the same switch conflict, a route    *)
(* holds all its switches, in position, from Establish to its release,      *)
(* restarts included.                                                       *)
THEOREM BoundSwitches ==
    ASSUME SharedSwitchesConflict
    PROVE  RecoverySpec => []BoundRouteHoldsSwitches
<1>1. Init => BoundRouteHoldsSwitches
  BY DEF Init, BoundRouteHoldsSwitches
<1>2. /\ BoundInv /\ BoundInv'
      /\ BoundRouteHoldsSwitches
      /\ [RecoveryNext]_vars
      => BoundRouteHoldsSwitches'
  BY BoundSwitchesStep
<1>3. QED
  BY <1>1, <1>2, BoundInvAlways, PTL DEF RecoverySpec

-----------------------------------------------------------------------------
(* A route that shares the home signal of a bound route can show only what  *)
(* the bound route shows: it is the same road, or it needs a switch in the  *)
(* position the bound route holds it out of.                                *)
LEMMA SignalShowsBound ==
    ASSUME SignalsTellRoads, BoundInv, BoundRouteHoldsSwitches,
           NEW g \in Signal, protects[g] # None,
           NEW r \in Route, Source[r] = g, NEW ind,
           ComputeAspect(r, ind) # "R"
    PROVE  LET c == protects[g] IN
           /\ ComputeAspect(r, ind) = OpenAspect(c)
           /\ OwnSections(c) \cap occupied = {}
           /\ \A w \in Required(c) : ind[w]
<1> DEFINE c == protects[g]
<1>1. c \in Route /\ Source[c] = g
  BY DEF BoundInv, LockInv, TypeOK, BoundRouteIsLocked
<1>2. /\ \A w \in Required(r) : ind[w] /\ swPos[w] = Needs[r][w]
      /\ OwnSections(r) \cap occupied = {}
      /\ ComputeAspect(r, ind) = OpenAspect(r)
  BY DEF ComputeAspect
<1>3. ~OpposeSwitch(r, c)
  <2> SUFFICES ASSUME NEW w \in Required(r) \cap Required(c),
                      Needs[r][w] # Needs[c][w]
               PROVE  FALSE
    BY DEF OpposeSwitch
  <2>1. w \in Switch
    BY NeedsAssumption DEF Required
  <2>2. swPos[w] = Needs[c][w]
    BY <2>1 DEF BoundRouteHoldsSwitches
  <2>3. QED
    BY <1>2, <2>2
<1>4. SameRoad(r, c)
  BY <1>1, <1>3 DEF SignalsTellRoads
<1>5. OwnSections(c) = OwnSections(r) /\ Required(c) = Required(r)
  BY <1>4 DEF SameRoad, OwnSections, Sections, Required
<1>6. OpenAspect(c) = OpenAspect(r)
  BY <1>4, <1>5 DEF OpenAspect, SameRoad
<1>7. QED
  BY <1>2, <1>5, <1>6

(* The signal of a bound route closes in every step that occupies one of    *)
(* its sections or loses the indication of one of its switches.             *)
LEMMA OpenSignalStep ==
    ASSUME SignalsTellRoads, BoundInv, BoundInv', BoundRouteHoldsSwitches,
           OpenSignalIsSafe, [RecoveryNext]_vars
    PROVE  OpenSignalIsSafe'
<1> DEFINE Safe(g) ==
        /\ OwnSections(protects[g]) \cap occupied = {}
        /\ \A w \in Required(protects[g]) : swInd[w]
<1> USE NoneAssumption, RouteAssumption, NeedsAssumption
    DEF BoundInv, LockInv, TypeOK, BoundRouteIsLocked, OpenSignalIsSafe,
        locks, switches, signals
<1> SUFFICES ASSUME NEW g \in Signal, aspect'[g] # "R", protects'[g] # None
             PROVE  Safe(g)'
  OBVIOUS
<1>1. ASSUME NEW r \in Route, DefineRoute(r) PROVE Safe(g)'
  BY <1>1 DEF DefineRoute
<1>2. ASSUME NEW r \in Route, Establish(r) PROVE Safe(g)'
  <2>1. CASE g = Source[r]
    <3>1. protects'[g] = r /\ occupied' = occupied /\ swInd' = swInd
      BY <1>2, <2>1 DEF Establish
    <3>2. OwnSections(r) \cap occupied = {}
      BY <1>2 DEF Establish, CheckEstablish, SectionsReady, OwnSections
    <3>3. \A w \in Required(r) : swInd[w]
      BY <1>2 DEF Establish, CheckEstablish, SwitchesReady
    <3>4. QED
      BY <3>1, <3>2, <3>3
  <2>2. CASE g # Source[r]
    BY <1>2, <2>2 DEF Establish
  <2>3. QED
    BY <2>1, <2>2
<1>3. ASSUME NEW r \in Route, CancelImmediate(r) \/ FaultUnlock(r)
      PROVE Safe(g)'
  <2>1. CloseAndUnbindSignal(r) /\ occupied' = occupied /\ swInd' = swInd
    BY <1>3 DEF CancelImmediate, FaultUnlock
  <2>2. protects'[g] = protects[g] /\ aspect[g] # "R"
    BY <2>1 DEF CloseAndUnbindSignal
  <2>3. QED
    BY <2>1, <2>2
<1>4. ASSUME NEW r \in Route, CancelTimed(r) PROVE Safe(g)'
  BY <1>4 DEF CancelTimed
<1>5. ASSUME NEW r \in Route, CompleteDelayedCancel(r) PROVE Safe(g)'
  BY <1>5 DEF CompleteDelayedCancel
<1>6. ASSUME NEW w \in Switch, Reverse(w) PROVE Safe(g)'
  BY <1>6 DEF Reverse
<1>7. ASSUME NEW w \in Switch, NEW ok \in BOOLEAN, SetIndication(w, ok)
      PROVE Safe(g)'
  <2> DEFINE c == protects[g]
  <2>1. protects'[g] = c /\ occupied' = occupied /\ Source[c] = g /\ IsLocked(c)
    BY <1>7 DEF SetIndication, RefreshSignals
  <2>2. CASE Refreshed(w, g) # {}
    <3>1. PICK r \in Refreshed(w, g) : aspect'[g] = ComputeAspect(r, swInd')
      BY <1>7, <2>2, Zenon DEF SetIndication, RefreshSignals
    <3>2. r \in Route /\ Source[r] = g
      BY DEF Refreshed
    <3>3. /\ OwnSections(c) \cap occupied = {}
          /\ \A v \in Required(c) : swInd'[v]
      BY <2>1, <3>1, <3>2, SignalShowsBound
    <3>4. QED
      BY <2>1, <3>3
  <2>3. CASE Refreshed(w, g) = {}
    <3>1. w \notin Required(c)
      BY <2>1, <2>3 DEF Refreshed
    <3>2. aspect'[g] = aspect[g]
      BY <1>7, <2>3 DEF SetIndication, RefreshSignals
    <3>3. QED
      BY <1>7, <2>1, <3>1, <3>2 DEF SetIndication, RefreshSignals, Required
  <2>4. QED
    BY <2>2, <2>3
<1>8. ASSUME NEW s \in Section, Occupy(s) PROVE Safe(g)'
  <2>1. /\ protects'[g] = protects[g]
        /\ swInd' = swInd
        /\ occupied' = occupied \cup {s}
        /\ aspect'[g] = aspect[g]
        /\ protects[g] \notin MovedIn(s)
    BY <1>8 DEF Occupy
  <2>2. s \notin OwnSections(protects[g])
    BY <2>1 DEF MovedIn, OwnSections
  <2>3. QED
    BY <2>1, <2>2
<1>9. ASSUME NEW s \in Section, ClearSection(s) \/ ClearTerminal(s)
      PROVE Safe(g)'
  <2>1. /\ protects'[g] = protects[g]
        /\ swInd' = swInd
        /\ occupied' = occupied \ {s}
        /\ aspect'[g] = aspect[g]
    BY <1>9 DEF ClearSection, ClearTerminal, MovedIn, CloseAndUnbindSignal
  <2>2. QED
    BY <2>1
<1>10. ASSUME Tick PROVE Safe(g)'
  BY <1>10 DEF Tick
<1>11. ASSUME Replay PROVE Safe(g)'
  BY <1>11 DEF Replay
<1>12. ASSUME UNCHANGED vars PROVE Safe(g)'
  BY <1>12 DEF vars
<1>13. QED
  BY <1>1, <1>2, <1>3, <1>4, <1>5, <1>6, <1>7, <1>8, <1>9, <1>10, <1>11, <1>12
  DEF RecoveryNext, Next, RouteStep, SwitchStep, TrainStep

(* On a yard whose signals tell roads, a signal that is open for its route  *)
(* shows a locked route, free of trains, with every switch indicated,       *)
(* whatever faults and restarts came before.                                *)
THEOREM OpenSignals ==
    ASSUME SharedSwitchesConflict, SignalsTellRoads
    PROVE  RecoverySpec => []OpenSignalIsSafe
<1>1. Init => OpenSignalIsSafe
  BY DEF Init, OpenSignalIsSafe
<1>2. /\ BoundInv /\ BoundInv'
      /\ BoundRouteHoldsSwitches
      /\ OpenSignalIsSafe
      /\ [RecoveryNext]_vars
      => OpenSignalIsSafe'
  BY OpenSignalStep
<1>3. QED
  BY <1>1, <1>2, BoundInvAlways, BoundSwitches, PTL DEF RecoverySpec

-----------------------------------------------------------------------------
(* A bound signal is red or shows what its route may show.                  *)
AspectOfBound ==
    \A g \in Signal : protects[g] # None =>
        aspect[g] \in {"R", OpenAspect(protects[g])}

(* Establish writes aspect and binding together, every other method leaves  *)
(* the aspect, closes the signal, or recomputes what the bound route shows. *)
LEMMA AspectOfBoundStep ==
    ASSUME SignalsTellRoads, BoundInv, BoundRouteHoldsSwitches, AspectOfBound,
           [RecoveryNext]_vars
    PROVE  AspectOfBound'
<1> SUFFICES ASSUME NEW g \in Signal, protects'[g] # None
             PROVE  aspect'[g] \in {"R", OpenAspect(protects'[g])}
  BY DEF AspectOfBound, OpenAspect, Required
<1> DEFINE Shows == aspect'[g] \in {"R", OpenAspect(protects'[g])}
<1> USE RouteAssumption DEF BoundInv, LockInv, TypeOK, AspectOfBound, signals
<1>1. ASSUME NEW r \in Route, RouteStep(r) PROVE Shows
  BY <1>1 DEF RouteStep, DefineRoute, Establish, CancelImmediate, CancelTimed,
              CompleteDelayedCancel, FaultUnlock, CloseAndUnbindSignal
<1>2. ASSUME NEW w \in Switch, Reverse(w) PROVE Shows
  BY <1>2 DEF Reverse
<1>3. ASSUME NEW w \in Switch, NEW ok \in BOOLEAN, SetIndication(w, ok)
      PROVE Shows
  <2>1. protects'[g] = protects[g]
    BY <1>3 DEF SetIndication
  <2>2. CASE Refreshed(w, g) = {}
    BY <1>3, <2>1, <2>2 DEF SetIndication, RefreshSignals
  <2>3. CASE Refreshed(w, g) # {}
    <3>1. PICK r \in Refreshed(w, g) : aspect'[g] = ComputeAspect(r, swInd')
      BY <1>3, <2>3, Zenon DEF SetIndication, RefreshSignals
    <3>2. r \in Route /\ Source[r] = g
      BY DEF Refreshed
    <3>3. QED
      BY <2>1, <3>1, <3>2, SignalShowsBound
  <2>4. QED
    BY <2>2, <2>3
<1>4. ASSUME NEW s \in Section, TrainStep(s) PROVE Shows
  <2>1. CASE Occupy(s)
    BY <2>1 DEF Occupy
  <2>2. CASE ClearSection(s)
    BY <2>2 DEF ClearSection
  <2>3. CASE ClearTerminal(s)
    BY <2>3 DEF ClearTerminal, MovedIn, CloseAndUnbindSignal
  <2>4. QED
    BY <1>4, <2>1, <2>2, <2>3 DEF TrainStep
<1>5. ASSUME Tick \/ Replay \/ UNCHANGED vars PROVE Shows
  BY <1>5 DEF Tick, Replay, vars
<1>6. QED
  BY <1>1, <1>2, <1>3, <1>4, <1>5 DEF RecoveryNext, Next, SwitchStep

(* The view recomputes the aspect of a bound, open signal from its route,   *)
(* and finds it locked, clear, indicated and in position; another locked    *)
(* route from the signal shows the same or is found out of position.        *)
LEMMA ViewAgrees ==
    ASSUME SignalsTellRoads, BoundInv, BoundRouteHoldsSwitches, AspectOfBound,
           OpenSignalIsSafe
    PROVE  OpenSignalsAreShown
<1> SUFFICES ASSUME NEW g \in Signal, aspect[g] # "R", protects[g] # None
             PROVE  /\ aspect[g] \in ViewedAspects(g)
                    /\ ViewedAspects(g) \subseteq {"R", aspect[g]}
  BY DEF OpenSignalsAreShown
<1> DEFINE c == protects[g]
<1>1. c \in Route /\ Source[c] = g /\ IsLocked(c)
  BY DEF BoundInv, LockInv, TypeOK, BoundRouteIsLocked
<1>2. c \in Guarded(g)
  BY <1>1 DEF Guarded
<1>3. aspect[g] = OpenAspect(c)
  BY DEF AspectOfBound
<1>4. ComputeAspect(c, swInd) = aspect[g]
  BY <1>1, <1>3, NeedsAssumption
  DEF ComputeAspect, OpenSignalIsSafe, BoundRouteHoldsSwitches, Required
<1>5. \A r \in Guarded(g) : ComputeAspect(r, swInd) \in {"R", aspect[g]}
  <2> SUFFICES ASSUME NEW r \in Guarded(g), ComputeAspect(r, swInd) # "R"
               PROVE  ComputeAspect(r, swInd) = OpenAspect(c)
    BY <1>3
  <2>1. r \in Route /\ Source[r] = g
    BY DEF Guarded
  <2>2. QED
    BY <2>1, SignalShowsBound
<1>6. ViewedAspects(g) = {ComputeAspect(r, swInd) : r \in Guarded(g)}
  BY <1>2 DEF ViewedAspects
<1> HIDE DEF c
<1>7. QED
  BY <1>2, <1>4, <1>5, <1>6

(* A signal that is open for its route is shown with the aspect it has, or  *)
(* red, on every yard whose signals tell roads, restarts included.          *)
THEOREM SignalsShown ==
    ASSUME SharedSwitchesConflict, SignalsTellRoads
    PROVE  RecoverySpec => []OpenSignalsAreShown
<1>1. Init => AspectOfBound
  BY DEF Init, AspectOfBound
<1>2. /\ BoundInv /\ BoundRouteHoldsSwitches
      /\ AspectOfBound
      /\ [RecoveryNext]_vars
      => AspectOfBound'
  BY AspectOfBoundStep
<1>3. /\ BoundInv /\ BoundRouteHoldsSwitches /\ AspectOfBound
      /\ OpenSignalIsSafe
      => OpenSignalsAreShown
  BY ViewAgrees
<1>4. RecoverySpec => []BoundRouteHoldsSwitches /\ []OpenSignalIsSafe
  BY BoundSwitches, OpenSignals
<1>5. QED
  BY <1>1, <1>2, <1>3, <1>4, BoundInvAlways, PTL DEF RecoverySpec
=============================================================================
