---------------------------- MODULE Interlocking ----------------------------
(***************************************************************************)
(* The interlocking of one station: the service methods behind the HTTP    *)
(* API that establish, cancel and release routes, move switches and record *)
(* train movements (internal/service), with the rules they consult         *)
(* (internal/interlocking, trainops, signaling) and the rows they write    *)
(* (internal/store).                                                       *)
(*                                                                         *)
(* Every method runs inside one IMMEDIATE SQLite transaction over a single *)
(* connection and rolls back when it returns an error (store/db.go InTx),  *)
(* so a method is one atomic action and a rejected call changes nothing.   *)
(*                                                                         *)
(* Go ranges over the route table in a random order; where the last route  *)
(* visited wins, the model chooses any of them.                            *)
(*                                                                         *)
(* Abstractions: the event log is kept only as what replayEvents computes  *)
(* from it (logged); timestamps are kept only as the time a delay timer    *)
(* has left; trains, their positions and the texts of errors are left out, *)
(* as no rule reads them.                                                  *)
(*                                                                         *)
(* Where two definitions stand for one piece of code, the first is a       *)
(* plausible fault (a guard dropped, a reset forgotten) that no action     *)
(* uses: it is there to show that the properties notice the fault.         *)
(***************************************************************************)
EXTENDS Yard

VARIABLES
    routeState, \* routes.state; "absent" before the route is defined
    occupied,   \* the sections whose occupied flag is set
    secLock,    \* sections.locked_by_route, None when not locked
    swLock,     \* switches.locked_by_route, None when not locked
    swPos,      \* switches.current_position
    swInd,      \* switches.has_indication
    aspect,     \* signals.aspect
    protects,   \* signals.protects_route_id, None when empty
    once,       \* route_section_occupied: sections a train has entered
    timer,      \* delay_unlock_timers: time left, None when there is no row
    logged      \* the route state replayEvents derives from the event log

locks   == <<secLock, swLock>>
switches == <<swPos, swInd>>
signals == <<aspect, protects>>
vars == <<routeState, occupied, locks, switches, signals, once, timer, logged>>

LockedState == {"established", "approach_locked", "cancelling"}
RestState   == {"pending", "failed", "unlocked", "cancelled"}
RouteState  == {"absent"} \cup RestState \cup LockedState
Aspect      == {"R", "YY", "G"}

IsLocked(r) == routeState[r] \in LockedState

Defined(r) == routeState[r] # "absent"

TypeOK ==
    /\ routeState \in [Route -> RouteState]
    /\ occupied \in SUBSET Section
    /\ secLock \in [Section -> Route \cup {None}]
    /\ swLock \in [Switch -> Route \cup {None}]
    /\ swPos \in [Switch -> Position]
    /\ swInd \in [Switch -> BOOLEAN]
    /\ aspect \in [Signal -> Aspect]
    /\ protects \in [Signal -> Route \cup {None}]
    /\ once \in [Route -> SUBSET Section]
    /\ timer \in [Route -> Nat \cup {None}]
    /\ logged \in [Route -> {"none", "established", "cancelling",
                             "cancelled", "unlocked"}]

(* A station with all its elements created and no route defined yet; a new  *)
(* switch lies in its own normal position, which may be either.             *)
Init ==
    /\ routeState = [r \in Route |-> "absent"]
    /\ occupied = {}
    /\ secLock = [s \in Section |-> None]
    /\ swLock = [w \in Switch |-> None]
    /\ swPos \in [Switch -> Position]
    /\ swInd = [w \in Switch |-> TRUE]
    /\ aspect = [g \in Signal |-> "R"]
    /\ protects = [g \in Signal |-> None]
    /\ once = [r \in Route |-> {}]
    /\ timer = [r \in Route |-> None]
    /\ logged = [r \in Route |-> "none"]

-----------------------------------------------------------------------------
(* Rules *)

CheckSwitchMoveUnlocked(w) == swInd[w] /\ SwitchSection[w] \notin occupied

CheckSwitchMove(w) ==
    /\ swInd[w]
    /\ SwitchSection[w] \notin occupied
    /\ swLock[w] = None

SwitchMoves(r) == {w \in Required(r) : swPos[w] # Needs[r][w]}

SwitchesReady(r) ==
    \A w \in Required(r) :
        /\ swInd[w]
        /\ w \in SwitchMoves(r) => /\ SwitchSection[w] \notin occupied
                                   /\ swLock[w] \in {None, r}

NoConflictLockedEstablished(r) ==
    \A d \in Route : Conflicts(r, d) => routeState[d] # "established"

NoConflictLocked(r) ==
    \A b \in Route : Defined(b) /\ Conflicts(r, b) => ~IsLocked(b)

(* An occupied approach section does not stop a route, a locked one does.   *)
SectionsReady(r) ==
    \A s \in Sections(r) : /\ secLock[s] \in {None, r}
                           /\ s \in OwnSections(r) => s \notin occupied

CheckEstablish(r) ==
    /\ routeState[r] \in RestState
    /\ SwitchesReady(r)
    /\ NoConflictLocked(r)
    /\ SectionsReady(r)

ComputeAspectBlind(r, ind) ==
    IF IsLocked(r) /\ OwnSections(r) \cap occupied = {} THEN OpenAspect(r)
    ELSE "R"

(* The aspect the home signal of r should show when the indication of the   *)
(* switches is ind.                                                         *)
ComputeAspect(r, ind) ==
    IF /\ IsLocked(r)
       /\ \A w \in Required(r) : ind[w] /\ swPos[w] = Needs[r][w]
       /\ OwnSections(r) \cap occupied = {}
    THEN OpenAspect(r)
    ELSE "R"

ReleasedBehindOccupied(r, s) ==
    {x \in once[r] : \E i, j \in 1..Len(Path[r]) :
        Path[r][i] = x /\ Path[r][j] = s /\ j \in {i + 1, i + 2}}

(* Three-point release when a train enters s: the one or two sections right *)
(* behind it that a train has entered and left.                             *)
ReleasedBehind(r, s) ==
    {x \in once[r] \ occupied :
        \E i, j \in 1..Len(Path[r]) :
            /\ Path[r][i] = x
            /\ Path[r][j] = s
            /\ j \in {i + 1, i + 2}}

RouteCompleteStale(r, s) ==
    /\ s = Terminal(r) /\ s \in once[r]
    /\ Sections(r) \cap occupied = {}

RouteComplete(r, s) == s = Terminal(r) /\ s \in once[r]

(* Three-point release when a train leaves s: s itself once the train is in *)
(* the next section and the one after it, if there is one; everything the   *)
(* route still holds when s is the terminal.                                *)
ReleasedByClear(r, s) ==
    IF RouteComplete(r, s)
    THEN {x \in Sections(r) : secLock[x] = r}
    ELSE {x \in once[r] \cap {s} :
            \E i \in 1..(Len(Path[r]) - 1) :
                /\ Path[r][i] = x
                /\ Path[r][i + 1] \in occupied
                /\ i + 2 \in 1..Len(Path[r]) => Path[r][i + 2] \in occupied}

-----------------------------------------------------------------------------
(* Effects shared by several methods *)

ReleasedSections(r, held) ==
    [s \in Section |-> IF s \in Sections(r) /\ held[s] = r
                       THEN None ELSE held[s]]

ReleasedSwitchesForgotten(r) == swLock

ReleasedSwitches(r) ==
    [w \in Switch |-> IF w \in Required(r) /\ swLock[w] = r
                      THEN None ELSE swLock[w]]

ReleaseRouteLocks(r) ==
    /\ secLock' = ReleasedSections(r, secLock)
    /\ swLock' = ReleasedSwitches(r)

CloseAndUnbindSignalHalfway(r) ==
    /\ aspect' = [aspect EXCEPT ![Source[r]] = "R"]
    /\ UNCHANGED protects

CloseAndUnbindSignal(r) ==
    /\ aspect' = [aspect EXCEPT ![Source[r]] = "R"]
    /\ protects' = [protects EXCEPT ![Source[r]] = None]

KeepOnceOccupied(r) == UNCHANGED once

ClearOnceOccupied(r) == once' = [once EXCEPT ![r] = {}]

AnyOf(S) == IF S = {} THEN {None} ELSE S

-----------------------------------------------------------------------------
(* Routes: internal/service/route_service.go *)

DefineRoute(r) ==
    /\ ~Defined(r)
    /\ routeState' = [routeState EXCEPT ![r] = "pending"]
    /\ UNCHANGED <<occupied, locks, switches, signals, once, timer, logged>>

(* A refused Establish changes nothing: the transaction that marks the      *)
(* route failed returns the error and is rolled back (claim_failed).        *)
Establish(r) ==
    /\ CheckEstablish(r)
    /\ \A w \in SwitchMoves(r) : CheckSwitchMove(w)
    /\ swPos' = [w \in Switch |-> IF w \in Required(r) THEN Needs[r][w]
                                  ELSE swPos[w]]
    /\ swLock' = [w \in Switch |-> IF w \in Required(r) THEN r ELSE swLock[w]]
    /\ secLock' = [s \in Section |-> IF s \in OwnSections(r) THEN r
                                     ELSE secLock[s]]
    /\ routeState' = [routeState EXCEPT ![r] = "established"]
    /\ logged' = [logged EXCEPT ![r] = "established"]
    /\ protects' = [protects EXCEPT ![Source[r]] = r]
    /\ aspect' = [aspect EXCEPT ![Source[r]] = OpenAspect(r)]
    /\ UNCHANGED <<occupied, swInd, once, timer>>

Cancellable(r) == routeState[r] \in {"established", "approach_locked"}

NeedTimedDelayWhileOccupied(r) == Approach[r] \in occupied

NeedTimedDelay(r) ==
    routeState[r] = "approach_locked" \/ Approach[r] \in occupied

StartTimerNever(r) == UNCHANGED timer

(* Overwrites the row an earlier cancel may have left.                      *)
StartTimer(r) == timer' = [timer EXCEPT ![r] = Delay[r]]

CancelImmediate(r) ==
    /\ Cancellable(r)
    /\ ~NeedTimedDelay(r)
    /\ ReleaseRouteLocks(r)
    /\ CloseAndUnbindSignal(r)
    /\ routeState' = [routeState EXCEPT ![r] = "cancelled"]
    /\ logged' = [logged EXCEPT ![r] = "cancelling"]
    /\ ClearOnceOccupied(r)
    /\ UNCHANGED <<occupied, switches, timer>>

CancelTimed(r) ==
    /\ Cancellable(r)
    /\ NeedTimedDelay(r)
    /\ routeState' = [routeState EXCEPT ![r] = "cancelling"]
    /\ logged' = [logged EXCEPT ![r] = "cancelling"]
    /\ StartTimer(r)
    /\ aspect' = [aspect EXCEPT ![Source[r]] = "R"]
    /\ UNCHANGED <<occupied, locks, switches, protects, once>>

(* Served by POST /routes/{id}/complete-cancel at any time.                 *)
CompleteDelayedCancel(r) ==
    /\ routeState[r] = "cancelling"
    /\ ReleaseRouteLocks(r)
    /\ protects' = [protects EXCEPT ![Source[r]] = None]
    /\ timer' = [timer EXCEPT ![r] = None]
    /\ routeState' = [routeState EXCEPT ![r] = "cancelled"]
    /\ logged' = [logged EXCEPT ![r] = "cancelled"]
    /\ ClearOnceOccupied(r)
    /\ UNCHANGED <<occupied, switches, aspect>>

(* Appends no event that replayEvents reads.                                *)
FaultUnlock(r) ==
    /\ Defined(r)
    /\ ReleaseRouteLocks(r)
    /\ CloseAndUnbindSignal(r)
    /\ timer' = [timer EXCEPT ![r] = None]
    /\ routeState' = [routeState EXCEPT ![r] = "cancelled"]
    /\ ClearOnceOccupied(r)
    /\ UNCHANGED <<occupied, switches, logged>>

-----------------------------------------------------------------------------
(* Switches: internal/service/switch_service.go *)

Reverse(w) ==
    /\ CheckSwitchMove(w)
    /\ swPos' = [swPos EXCEPT ![w] = Opposite(@)]
    /\ UNCHANGED <<routeState, occupied, locks, swInd, signals, once, timer,
                   logged>>

(* The locked routes that require w and start at g.                         *)
Refreshed(w, g) ==
    {r \in Route : IsLocked(r) /\ w \in Required(r) /\ Source[r] = g}

(* Every such route refreshes its home signal; when two share a signal, the *)
(* one visited last decides.                                                *)
RefreshSignals(w, ind) ==
    /\ aspect' \in [Signal -> Aspect]
    /\ \A g \in Signal :
          IF Refreshed(w, g) = {}
          THEN aspect'[g] = aspect[g]
          ELSE \E r \in Refreshed(w, g) : aspect'[g] = ComputeAspect(r, ind)

SetIndication(w, ok) ==
    /\ swInd[w] # ok
    /\ swInd' = [swInd EXCEPT ![w] = ok]
    /\ RefreshSignals(w, swInd')
    /\ UNCHANGED <<routeState, occupied, locks, swPos, protects, once, timer,
                   logged>>

-----------------------------------------------------------------------------
(* Train movements: internal/trainops and internal/service/train_service.go *)

MovedInEstablished(s) ==
    {r \in Route : routeState[r] = "established" /\ s \in Sections(r)}

(* The locked routes a movement on s is a movement inside of ...            *)
MovedIn(s) == {r \in Route : IsLocked(r) /\ s \in Sections(r)}

(* ... and the routes that s, newly occupied, is only the approach of,      *)
(* whatever their state.                                                    *)
Approached(s) == {r \in Route : Defined(r) /\ Approach[r] = s} \ MovedIn(s)

(* A train enters s.  ApplyMove keeps a single route to mark the section    *)
(* for and a single route to approach-lock.                                 *)
Occupy(s) ==
    \E m \in AnyOf(MovedIn(s)), a \in AnyOf(Approached(s)) :
        /\ occupied' = occupied \cup {s}
        /\ once' = [r \in Route |-> IF r = m THEN once[r] \cup {s} ELSE once[r]]
        /\ routeState' = [r \in Route |-> IF r = a THEN "approach_locked"
                                          ELSE routeState[r]]
        /\ aspect' = [g \in Signal |-> IF \E r \in MovedIn(s) : Source[r] = g
                                       THEN "R" ELSE aspect[g]]
        /\ secLock' = [x \in Section |->
                          IF \E r \in MovedIn(s) : x \in ReleasedBehind(r, s)
                          THEN None ELSE secLock[x]]
        /\ UNCHANGED <<swLock, switches, protects, timer, logged>>

(* Three-point release of what lies behind a train that left s; a section   *)
(* is unlocked without a look at which route holds it.                      *)
ReleasedAfterClear(s) ==
    [x \in Section |-> IF \E r \in MovedIn(s) : x \in ReleasedByClear(r, s)
                       THEN None ELSE secLock[x]]

(* A train leaves s without completing a route.                             *)
ClearSection(s) ==
    /\ \A r \in MovedIn(s) : ~RouteComplete(r, s)
    /\ occupied' = occupied \ {s}
    /\ secLock' = ReleasedAfterClear(s)
    /\ UNCHANGED <<routeState, swLock, switches, signals, once, timer, logged>>

(* A train leaves the terminal section of a route: releaseNormal.  ApplyMove *)
(* keeps a single completed route.                                          *)
ClearTerminal(s) ==
    \E r \in MovedIn(s) :
        /\ RouteComplete(r, s)
        /\ occupied' = occupied \ {s}
        /\ secLock' = ReleasedSections(r, ReleasedAfterClear(s))
        /\ swLock' = ReleasedSwitches(r)
        /\ CloseAndUnbindSignal(r)
        /\ routeState' = [routeState EXCEPT ![r] = "unlocked"]
        /\ logged' = [logged EXCEPT ![r] = "unlocked"]
        /\ ClearOnceOccupied(r)
        /\ UNCHANGED <<switches, timer>>

-----------------------------------------------------------------------------
(* One unit of clock time.                                                  *)
Tick ==
    /\ \E r \in Route : timer[r] \in Nat \ {0}
    /\ timer' = [r \in Route |-> IF timer[r] \in Nat \ {0} THEN timer[r] - 1
                                 ELSE timer[r]]
    /\ UNCHANGED <<routeState, occupied, locks, switches, signals, once, logged>>

RouteStep(r) ==
    \/ DefineRoute(r)
    \/ Establish(r)
    \/ CancelImmediate(r)
    \/ CancelTimed(r)
    \/ CompleteDelayedCancel(r)
    \/ FaultUnlock(r)

SwitchStep(w) == Reverse(w) \/ \E ok \in BOOLEAN : SetIndication(w, ok)

TrainStep(s) == Occupy(s) \/ ClearSection(s) \/ ClearTerminal(s)

Next ==
    \/ \E r \in Route : RouteStep(r)
    \/ \E w \in Switch : SwitchStep(w)
    \/ \E s \in Section : TrainStep(s)
    \/ Tick

Spec == Init /\ [][Next]_vars
-----------------------------------------------------------------------------
(* Properties *)

HoldsLock(r) ==
    \/ \E s \in Section : secLock[s] = r
    \/ \E w \in Switch : swLock[w] = r

(* A lock belongs to a route that is in a locking state and whose           *)
(* definition mentions the element: no sequence of cancels, releases and    *)
(* fault-unlocks leaves behind a lock that no operation would release.      *)
LocksHaveOwners ==
    /\ \A s \in Section : secLock[s] # None =>
           IsLocked(secLock[s]) /\ s \in Sections(secLock[s])
    /\ \A w \in Switch : swLock[w] # None =>
           IsLocked(swLock[w]) /\ w \in Required(swLock[w])

(* A locked switch lies in the position the route that holds it requires,   *)
(* whoever set, stole or kept the lock.                                     *)
LockedSwitchesInPosition ==
    \A w \in Switch : swLock[w] # None => swPos[w] = Needs[swLock[w]][w]

(* Two conflicting routes never hold locks at the same time, although both  *)
(* may be in a locking state.                                               *)
ConflictingLocksExclude ==
    \A c, d \in Route : Conflicts(c, d) => ~(HoldsLock(c) /\ HoldsLock(d))

(* A route its home signal is bound to holds every switch it requires, in   *)
(* the required position, from Establish until it is released: through      *)
(* approach locking, the timed cancel, indication faults and other routes'  *)
(* releases.                                                                *)
BoundRouteHoldsSwitches ==
    \A g \in Signal : \A w \in Switch :
        protects[g] # None /\ w \in Required(protects[g]) =>
            swLock[w] = protects[g] /\ swPos[w] = Needs[protects[g]][w]

(* A signal that is open for the route it is bound to shows a route in a    *)
(* locking state, clear of trains, all of whose switches are indicated.     *)
OpenSignalIsSafe ==
    \A g \in Signal : aspect[g] # "R" /\ protects[g] # None =>
        /\ IsLocked(protects[g])
        /\ OwnSections(protects[g]) \cap occupied = {}
        /\ \A w \in Required(protects[g]) : swInd[w]

(* A route that is cancelling has a delay timer, so that restart recovery   *)
(* can finish the cancel.                                                   *)
CancellingHasTimer ==
    \A r \in Route : routeState[r] = "cancelling" => timer[r] # None

(* A route starts without marks of earlier trains: the marks that let its   *)
(* sections release behind a train are made after it was established.       *)
OnceSinceEstablished ==
    [][\A r \in Route : Establish(r) => once[r] = {}]_vars

(* A train that leaves the terminal section of h has completed another      *)
(* route that ends there: ApplyMove gives up only one of the two.           *)
OtherCompleted(h) ==
    \E q \in Route \ {h} : /\ Terminal(q) = Terminal(h)
                           /\ IsLocked(q)
                           /\ routeState'[q] = "unlocked"

(* A section unlocked while the route that held it stays locked is clear,   *)
(* except where the train has completed two routes at once.                 *)
FreedSectionIsClear ==
    [][\A s \in Section :
          /\ secLock[s] # None
          /\ secLock'[s] = None
          /\ routeState'[secLock[s]] \in LockedState
          /\ ~OtherCompleted(secLock[s])
          => s \notin occupied']_vars

(* An approach-locked route is given up only through the timed cancel, by   *)
(* the train running through it, or by a fault-unlock.                      *)
ApproachLockRespected ==
    [][\A r \in Route : routeState[r] = "approach_locked" =>
          \/ routeState'[r] \in {"approach_locked", "cancelling", "unlocked"}
          \/ FaultUnlock(r)]_vars
=============================================================================
