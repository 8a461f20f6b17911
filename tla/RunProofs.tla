----------------------------- MODULE RunProofs ------------------------------
(***************************************************************************)
(* Proofs about trains, for any number of them.                            *)
(***************************************************************************)
EXTENDS ReleaseProofs, PromiseProofs, TrainRun

(* A train on one section stands on two once its front has entered another. *)
LEMMA OneSectionMore ==
    ASSUME NEW on \in Seq(Section), Len(on) = 1, NEW s \in Section
    PROVE  Append(on, s) \in Seq(Section) /\ Len(Append(on, s)) = 2
<1>1. Append(on, s) \in Seq(Section)
  OBVIOUS
<1>2. Len(Append(on, s)) = Len(on) + 1
  OBVIOUS
<1>3. QED
  BY <1>1, <1>2

(* It stands on one again when its rear has left the other.                 *)
LEMMA OneSectionLess ==
    ASSUME NEW on \in Seq(Section), Len(on) = 2
    PROVE  Tail(on) \in Seq(Section) /\ Len(Tail(on)) = 1
OBVIOUS

(* There is a section behind the home signal.                               *)
LEMMA EntryInPath ==
    ASSUME ApproachFirst, NEW r \in Route
    PROVE  Entry(r) \in 1..Len(Path[r])
<1>1. Path[r] \in Seq(Section) /\ Len(Path[r]) > 0
  BY PathAssumption
<1>2. Path[r][1] \in Sections(r)
  BY <1>1 DEF Sections
<1>3. QED
  BY <1>1, <1>2 DEF ApproachFirst, Entry

Typed(t) == t \in Train /\ Len(t.on) \in 1..2

(* A train that moves reports one section occupied, or nothing, and stays   *)
(* on one or two sections.                                                  *)
LEMMA RunStep ==
    ASSUME ApproachFirst, TrainTypeOK, NEW t \in trains, Run(t)
    PROVE  /\ UNCHANGED vars \/ \E s \in Section : Occupy(s)
           /\ \A u \in trains' : Typed(u)
<1>0. Typed(t) /\ \A u \in trains : Typed(u)
  BY DEF TrainTypeOK, Typed
<1>1. ASSUME NEW r \in Route, PassSignal(t, r)
      PROVE  (\E s \in Section : Occupy(s)) /\ \A u \in trains' : Typed(u)
  <2> DEFINE x == Path[r][Entry(r)]
             v == [on |-> Append(t.on, x), road |-> r]
  <2>1. x \in Section
    BY EntryInPath, PathAssumption
  <2>2. trains' = (trains \ {t}) \cup {v} /\ Occupy(x)
    BY <1>1 DEF PassSignal, Becomes
  <2>3. t.on \in Seq(Section) /\ Len(t.on) = 1
    BY <1>0, <1>1 DEF PassSignal, WaitsFor, Typed, Train
  <2> HIDE DEF x
  <2>4. Append(t.on, x) \in Seq(Section) /\ Len(Append(t.on, x)) = 2
    BY <2>1, <2>3, OneSectionMore, Zenon
  <2>5. Typed(v)
    BY <2>4 DEF Typed, Train
  <2>6. QED
    BY <1>0, <2>1, <2>2, <2>5
<1>2. ASSUME Advance(t)
      PROVE  (\E s \in Section : Occupy(s)) /\ \A u \in trains' : Typed(u)
  <2>1. t.road \in Route /\ t.on \in Seq(Section) /\ Len(t.on) = 1
    BY <1>0, <1>2 DEF Advance, Typed, Train
  <2>2. PICK i \in 2..Len(Path[t.road]) :
            /\ trains' = (trains \ {t})
                   \cup {[t EXCEPT !.on = Append(t.on, Path[t.road][i])]}
            /\ Occupy(Path[t.road][i])
    BY <1>2 DEF Advance, Becomes
  <2>3. Path[t.road][i] \in Section
    BY <2>1, PathAssumption
  <2>4. Append(t.on, Path[t.road][i]) \in Seq(Section)
        /\ Len(Append(t.on, Path[t.road][i])) = 2
    BY <2>1, <2>3, OneSectionMore, Zenon
  <2>5. Typed([t EXCEPT !.on = Append(t.on, Path[t.road][i])])
    BY <1>0, <2>4 DEF Typed, Train
  <2>6. QED
    BY <1>0, <2>2, <2>3, <2>5
<1>3. ASSUME RearClears(t) PROVE UNCHANGED vars /\ \A u \in trains' : Typed(u)
  <2>1. /\ trains' = (trains \ {t}) \cup {[t EXCEPT !.on = Tail(t.on)]}
        /\ UNCHANGED vars
        /\ Len(t.on) = 2
    BY <1>3 DEF RearClears, Becomes
  <2>2. t.on \in Seq(Section)
    BY <1>0 DEF Typed, Train
  <2>3. Tail(t.on) \in Seq(Section) /\ Len(Tail(t.on)) = 1
    BY <2>1, <2>2, OneSectionLess, Zenon
  <2>4. Typed([t EXCEPT !.on = Tail(t.on)])
    BY <1>0, <2>3 DEF Typed, Train
  <2>5. QED
    BY <1>0, <2>1, <2>4
<1>4. ASSUME Depart(t) PROVE UNCHANGED vars /\ \A u \in trains' : Typed(u)
  BY <1>0, <1>4 DEF Depart
<1>5. QED
  BY <1>1, <1>2, <1>3, <1>4 DEF Run

(* Trains, and operators who keep the rules, do nothing the interlocking    *)
(* would not do without them, and trains stay trains.                       *)
LEMMA TrainStepIsStep ==
    ASSUME ApproachFirst, TrainTypeOK, [TrainNext]_trainVars
    PROVE  [RecoveryNext]_vars /\ TrainTypeOK'
<1>0. \A t \in trains : Typed(t)
  BY DEF TrainTypeOK, Typed
<1>1. [RecoveryNext]_vars /\ \A t \in trains' : Typed(t)
  <2>1. CASE Operate /\ UNCHANGED trains
    <3>1. RecoveryNext
      BY <2>1 DEF Operate, RecoveryNext, Next, RouteStep, SwitchStep
    <3>2. QED
      BY <1>0, <2>1, <3>1
  <2>2. ASSUME NEW t \in trains, Run(t)
        PROVE  [RecoveryNext]_vars /\ \A u \in trains' : Typed(u)
    BY <2>2, RunStep DEF RecoveryNext, Next, TrainStep
  <2>3. ASSUME NEW s \in Section, Arrive(s)
        PROVE  [RecoveryNext]_vars /\ \A u \in trains' : Typed(u)
    <3>1. RecoveryNext
      BY <2>3 DEF Arrive, RecoveryNext, Next, TrainStep
    <3>2. trains' = trains \cup {[on |-> <<s>>, road |-> None]}
      BY <2>3 DEF Arrive
    <3>3. <<s>> \in Seq(Section) /\ Len(<<s>>) = 1
      OBVIOUS
    <3>4. Typed([on |-> <<s>>, road |-> None])
      BY <3>3 DEF Typed, Train
    <3>5. QED
      BY <1>0, <3>1, <3>2, <3>4
  <2>4. ASSUME NEW s \in Section, ReportOccupied(s) \/ ReportClear(s)
        PROVE  [RecoveryNext]_vars /\ \A u \in trains' : Typed(u)
    BY <1>0, <2>4 DEF ReportOccupied, ReportClear, RecoveryNext, Next, TrainStep
  <2>5. CASE UNCHANGED trainVars
    BY <1>0, <2>5 DEF trainVars
  <2>6. QED
    BY <2>1, <2>2, <2>3, <2>4, <2>5 DEF TrainNext
<1>2. TypeOK'
  BY <1>1, TypeStep DEF TrainTypeOK
<1>3. QED
  BY <1>1, <1>2 DEF TrainTypeOK, Typed

LEMMA TrainStart == TrainInit => Init /\ TrainTypeOK
BY TypeInit DEF TrainInit, TrainTypeOK

(* A train stands on one or two sections and has passed the signal of a     *)
(* route, for any number of trains; the interlocking keeps its types.       *)
THEOREM TrainTypes ==
    ASSUME ApproachFirst
    PROVE  TrainSpec => []TrainTypeOK
<1>1. QED
  BY TrainStart, TrainStepIsStep, PTL DEF TrainSpec

(* The interlocking with trains is an interlocking with restarts: every     *)
(* theorem about RecoverySpec holds of it, too.                             *)
THEOREM TrainsUseInterlocking ==
    ASSUME ApproachFirst
    PROVE  TrainSpec => RecoverySpec
<1>1. QED
  BY TrainStart, TrainStepIsStep, PTL DEF TrainSpec, RecoverySpec

-----------------------------------------------------------------------------
(* What the interlocking keeps ready for a train, as long as its operators  *)
(* keep the rules.                                                          *)

(* A step under the rules that acts on a route of G, or reports a section   *)
(* of O occupied or one of C clear.                                         *)
Ruled(G, O, C) ==
    \/ \E r \in G : RouteStep(r)
    \/ \E w \in Switch : Reverse(w) \/ SetIndication(w, FALSE)
    \/ \E w \in Switch : IndicationRule(w) /\ SetIndication(w, TRUE)
    \/ \E s \in O : Occupy(s)
    \/ \E s \in C : ClearSection(s) \/ ClearTerminal(s)
    \/ Tick
    \/ RecoveryRule /\ Replay
    \/ UNCHANGED vars

MarksInPath == \A r \in Route : once[r] \subseteq Sections(r)

(* The log knows of a cancel that runs, and so does the timer.              *)
CancellingLogged ==
    \A r \in Route : routeState[r] = "cancelling" => logged[r] = "cancelling"

HolderTimed ==
    \A s \in Section : secLock[s] # None /\ logged[secLock[s]] = "cancelling"
                           => timer[secLock[s]] # None

(* No train has run over x since r locked it.                               *)
Fresh(x, r) == secLock[x] = r /\ \A q \in Route : x \notin once[q]

(* r is set, all the way, for a new train.                                  *)
Ready(r) ==
    /\ logged[r] = "established"
    /\ \A x \in OwnSections(r) : Fresh(x, r) /\ x \notin occupied

(* An open signal shows a route that is ready.                              *)
OpenIsSet ==
    \A g \in Signal : aspect[g] # "R" => \E r \in Route : Source[r] = g /\ Ready(r)

RoadInv ==
    /\ HolderInv
    /\ MarksInPath /\ MarksOfLocked
    /\ CancellingLogged /\ HolderTimed
    /\ OpenIsSet

LEMMA PathFacts ==
    ASSUME NEW r \in Route
    PROVE  /\ Sections(r) \subseteq Section /\ OwnSections(r) \subseteq Section
           /\ \A i, j \in 1..Len(Path[r]) : Path[r][i] = Path[r][j] => i = j
BY PathAssumption DEF Sections, OwnSections

(* The sections behind the home signal are the route's own, and it has one. *)
LEMMA OwnFacts ==
    ASSUME ApproachFirst, NEW r \in Route
    PROVE  /\ \A i \in 2..Len(Path[r]) : Path[r][i] \in OwnSections(r)
           /\ Path[r][Entry(r)] \in OwnSections(r)
           /\ Terminal(r) \in OwnSections(r)
<1>1. Path[r] \in Seq(Section) /\ Len(Path[r]) \in Nat \ {0}
  BY PathAssumption
<1>2. 1 \in 1..Len(Path[r]) /\ Len(Path[r]) \in 1..Len(Path[r])
  BY <1>1
<1>3. ASSUME NEW i \in 2..Len(Path[r]) PROVE Path[r][i] \in OwnSections(r)
  <2>1. i \in 1..Len(Path[r]) /\ i # 1
    BY <1>1
  <2>2. Path[r][i] # Path[r][1]
    BY <1>2, <2>1, PathFacts
  <2>3. QED
    BY <2>1, <2>2 DEF ApproachFirst, OwnSections, Sections
<1>4. Path[r][1] # Approach[r] => Path[r][1] \in OwnSections(r)
  BY <1>2 DEF OwnSections, Sections
<1>5. Path[r][1] = Approach[r] => Len(Path[r]) > 1
  BY <1>2 DEF ApproachFirst, Sections
<1>6. Path[r][Entry(r)] \in OwnSections(r)
  BY <1>1, <1>3, <1>4, <1>5 DEF Entry
<1>7. Terminal(r) \in OwnSections(r)
  BY <1>1, <1>3, <1>4, <1>5 DEF Terminal
<1>8. QED
  BY <1>3, <1>6, <1>7

LEMMA RuledIsStep ==
    ASSUME NEW G \in SUBSET Route, NEW O \in SUBSET Section,
           NEW C \in SUBSET Section, Ruled(G, O, C)
    PROVE  [RecoveryNext]_vars
BY DEF Ruled, RecoveryNext, Next, SwitchStep, TrainStep

LEMMA HolderFacts ==
    ASSUME LockInv, NEW r \in Route, NEW x \in Section, secLock[x] = r
    PROVE  /\ IsLocked(r) /\ Defined(r) /\ ~CheckEstablish(r) /\ HoldsLock(r)
           /\ logged[r] \in {"established", "cancelling"}
BY NoneAssumption
DEF LockInv, LocksHaveOwners, LockHoldersLogged, IsLocked, LockedState, Defined,
    CheckEstablish, RestState, HoldsLock

(* What the log says of a route set and not yet run through is not changed  *)
(* unless the route is itself acted on or its terminal is reported clear    *)
(* behind a train.                                                          *)
LEMMA LoggedStays ==
    ASSUME LockInv, NEW r \in Route, NEW O \in SUBSET Section,
           NEW C \in SUBSET Section, Ruled(Route \ {r}, O, C),
           Terminal(r) \notin once[r] \/ Terminal(r) \notin C
    PROVE  logged'[r] = logged[r]
<1> USE DEF LockInv, TypeOK
<1>1. ASSUME NEW q \in Route \ {r}, RouteStep(q) PROVE logged'[r] = logged[r]
  BY <1>1 DEF RouteStep, DefineRoute, Establish, CancelImmediate, CancelTimed,
              CompleteDelayedCancel, FaultUnlock
<1>2. ASSUME NEW s \in C, ClearTerminal(s) PROVE logged'[r] = logged[r]
  <2>1. PICK q \in MovedIn(s) : /\ RouteComplete(q, s)
                                /\ logged' = [logged EXCEPT ![q] = "unlocked"]
    BY <1>2 DEF ClearTerminal
  <2>2. q \in Route /\ q # r
    BY <2>1 DEF RouteComplete, MovedIn
  <2>3. QED
    BY <2>1, <2>2
<1>3. QED
  BY <1>1, <1>2
  DEF Ruled, Reverse, SetIndication, Occupy, ClearSection, Tick, Replay, vars

(* Marks are made by trains inside a locked route, on its path, and go with *)
(* the route.  A recovery under its rule gives no other route up.           *)
LEMMA MarksStep ==
    ASSUME RoadInv, Ruled(Route, Section, Section)
    PROVE  MarksInPath' /\ MarksOfLocked'
<1> USE DEF RoadInv, HolderInv, LockInv, TypeOK, MarksInPath, MarksOfLocked,
            IsLocked, ClearOnceOccupied
<1>1. ASSUME NEW r \in Route, RouteStep(r) PROVE MarksInPath' /\ MarksOfLocked'
  <2>1. \A q \in Route : once'[q] \in {once[q], {}}
    BY <1>1 DEF RouteStep, DefineRoute, Establish, CancelImmediate, CancelTimed,
                CompleteDelayedCancel, FaultUnlock
  <2>2. \A q \in Route : once'[q] # {} /\ routeState[q] \in LockedState =>
                             routeState'[q] \in LockedState
    BY <1>1 DEF RouteStep, DefineRoute, Defined, Establish, CancelImmediate,
                CancelTimed, CompleteDelayedCancel, FaultUnlock, LockedState
  <2>3. QED
    BY <2>1, <2>2 DEF Sections
<1>2. ASSUME NEW w \in Switch, SwitchStep(w)
      PROVE  MarksInPath' /\ MarksOfLocked'
  BY <1>2 DEF SwitchStep, Reverse, SetIndication, Sections
<1>3. ASSUME NEW s \in Section, Occupy(s) PROVE MarksInPath' /\ MarksOfLocked'
  <2>1. \A r \in Route : \/ once'[r] = once[r]
                         \/ r \in MovedIn(s) /\ once'[r] = once[r] \cup {s}
    BY <1>3, NoneAssumption DEF Occupy, AnyOf
  <2>2. \A r \in Route : routeState'[r] \in {routeState[r], "approach_locked"}
    BY <1>3 DEF Occupy
  <2>3. \A r \in MovedIn(s) : r \in Route /\ IsLocked(r) /\ s \in Sections(r)
    BY DEF MovedIn
  <2>4. MarksInPath'
    BY <2>1, <2>3 DEF Sections
  <2>5. MarksOfLocked'
    BY <2>1, <2>2, <2>3 DEF LockedState
  <2>6. QED
    BY <2>4, <2>5
<1>4. ASSUME NEW s \in Section, ClearSection(s) \/ ClearTerminal(s)
      PROVE  MarksInPath' /\ MarksOfLocked'
  BY <1>4 DEF ClearSection, ClearTerminal, Sections
<1>5. ASSUME RecoveryRule, Replay PROVE MarksInPath' /\ MarksOfLocked'
  BY <1>5 DEF RecoveryRule, Replay, Sections
<1>6. ASSUME Tick \/ UNCHANGED vars PROVE MarksInPath' /\ MarksOfLocked'
  BY <1>6 DEF Tick, vars, Sections
<1>7. QED
  BY <1>1, <1>2, <1>3, <1>4, <1>5, <1>6 DEF Ruled, SwitchStep

(* A cancel is logged and timed as it starts, and its timer goes with the   *)
(* locks of its route.                                                      *)
LEMMA CancelStep ==
    ASSUME LockInv, CancellingLogged, HolderTimed, [RecoveryNext]_vars
    PROVE  CancellingLogged' /\ HolderTimed'
<1> DEFINE Timed == CancellingLogged' /\ HolderTimed'
<1> USE NoneAssumption, RouteAssumption
    DEF LockInv, TypeOK, CancellingLogged, HolderTimed, locks
<1>1. ASSUME NEW r \in Route, DefineRoute(r) PROVE Timed
  BY <1>1 DEF DefineRoute
<1>2. ASSUME NEW r \in Route, Establish(r) PROVE Timed
  BY <1>2 DEF Establish
<1>3. ASSUME NEW r \in Route,
             CancelImmediate(r) \/ CompleteDelayedCancel(r) \/ FaultUnlock(r)
      PROVE  Timed
  <2>1. \A s \in Section : secLock'[s] \in {None, secLock[s]} /\ secLock'[s] # r
    BY <1>3 DEF CancelImmediate, CompleteDelayedCancel, FaultUnlock,
                ReleaseRouteLocks, ReleasedSections, LocksHaveOwners
  <2>2. \A q \in Route \ {r} : /\ routeState'[q] = routeState[q]
                               /\ logged'[q] = logged[q]
                               /\ timer'[q] = timer[q]
    BY <1>3 DEF CancelImmediate, CompleteDelayedCancel, FaultUnlock
  <2>3. routeState'[r] = "cancelled"
    BY <1>3 DEF CancelImmediate, CompleteDelayedCancel, FaultUnlock
  <2>4. QED
    BY <2>1, <2>2, <2>3
<1>4. ASSUME NEW r \in Route, CancelTimed(r) PROVE Timed
  BY <1>4 DEF CancelTimed, StartTimer
<1>5. ASSUME NEW w \in Switch, SwitchStep(w) PROVE Timed
  BY <1>5 DEF SwitchStep, Reverse, SetIndication
<1>6. ASSUME NEW s \in Section, Occupy(s) \/ ClearSection(s) PROVE Timed
  BY <1>6 DEF Occupy, ClearSection, ReleasedAfterClear
<1>7. ASSUME NEW s \in Section, ClearTerminal(s) PROVE Timed
  <2>1. PICK r \in Route :
            /\ secLock' = ReleasedSections(r, ReleasedAfterClear(s))
            /\ routeState' = [routeState EXCEPT ![r] = "unlocked"]
            /\ logged' = [logged EXCEPT ![r] = "unlocked"]
            /\ timer' = timer
    BY <1>7 DEF ClearTerminal, MovedIn
  <2>2. \A x \in Section : secLock'[x] \in {None, secLock[x]}
    BY <2>1 DEF ReleasedSections, ReleasedAfterClear
  <2>3. QED
    BY <2>1, <2>2
<1>8. ASSUME Replay PROVE Timed
  BY <1>8 DEF Replay, Replayed
<1>9. ASSUME Tick \/ UNCHANGED vars PROVE Timed
  <2>1. routeState' = routeState /\ logged' = logged /\ secLock' = secLock
    BY <1>9 DEF Tick, vars
  <2>2. ASSUME NEW c \in Route PROVE timer'[c] = timer[c] \/ timer'[c] \in Nat
    <3>1. CASE Tick /\ timer[c] \in Nat \ {0}
      <4>1. timer'[c] = timer[c] - 1
        BY <3>1 DEF Tick
      <4>2. timer[c] - 1 \in Nat
        BY <3>1
      <4>3. QED
        BY <4>1, <4>2
    <3>2. CASE Tick /\ timer[c] \notin Nat \ {0}
      BY <3>2 DEF Tick
    <3>3. QED
      BY <1>9, <3>1, <3>2 DEF vars
  <2>3. QED
    BY <2>1, <2>2
<1>10. QED
  BY <1>1, <1>2, <1>3, <1>4, <1>5, <1>6, <1>7, <1>8, <1>9
  DEF RecoveryNext, Next, RouteStep, TrainStep

(* Three-point release frees, of another route's sections, marked ones.     *)
LEMMA ReleaseNeedsMark ==
    ASSUME NEW s \in Section, NEW x \in Section, NEW r \in Route,
           Fresh(x, r), Terminal(r) \notin once[r]
    PROVE  /\ \A q \in MovedIn(s) : x \notin ReleasedBehind(q, s)
           /\ ReleasedAfterClear(s)[x] = r
<1>1. \A q \in MovedIn(s) : q \in Route
  BY DEF MovedIn
<1>2. \A q \in MovedIn(s) : x \notin ReleasedByClear(q, s)
  BY <1>1 DEF Fresh, ReleasedByClear, RouteComplete
<1>3. QED
  BY <1>1, <1>2 DEF Fresh, ReleasedBehind, ReleasedAfterClear

(* No method takes a section from the route that holds it, but the ones     *)
(* that act on this route and the reports of trains.                        *)
LEMMA LockStays ==
    ASSUME LockInv, NEW r \in Route, NEW x \in Section, secLock[x] = r,
           NEW q \in Route \ {r}, RouteStep(q)
    PROVE  secLock'[x] = r
<1> USE NoneAssumption DEF LockInv, TypeOK, locks
<1>1. CASE Establish(q)
  <2>1. x \notin OwnSections(q)
    BY <1>1 DEF Establish, CheckEstablish, SectionsReady, OwnSections
  <2>2. QED
    BY <1>1, <2>1 DEF Establish
<1>2. QED
  BY <1>1
  DEF RouteStep, DefineRoute, CancelImmediate, CancelTimed,
      CompleteDelayedCancel, FaultUnlock, ReleaseRouteLocks, ReleasedSections

(* What a route has ready for a train stays ready until the train comes,    *)
(* whatever is done to other routes and reported of other sections.         *)
LEMMA FreshStays ==
    ASSUME LockInv, NEW r \in Route, NEW x \in Section,
           Ruled(Route \ {r}, Section \ {x}, Section),
           Terminal(r) \notin once[r], Fresh(x, r)
    PROVE  Fresh(x, r)'
<1> USE NoneAssumption DEF LockInv, TypeOK, Fresh, locks, ClearOnceOccupied
<1>1. ASSUME NEW q \in Route \ {r}, RouteStep(q) PROVE Fresh(x, r)'
  <2>1. \A p \in Route : once'[p] \subseteq once[p]
    BY <1>1 DEF RouteStep, DefineRoute, Establish, CancelImmediate, CancelTimed,
                CompleteDelayedCancel, FaultUnlock
  <2>2. secLock'[x] = r
    BY <1>1, LockStays
  <2>3. QED
    BY <2>1, <2>2
<1>2. ASSUME NEW w \in Switch, SwitchStep(w) PROVE Fresh(x, r)'
  BY <1>2 DEF SwitchStep, Reverse, SetIndication
<1>3. ASSUME NEW s \in Section \ {x}, Occupy(s) PROVE Fresh(x, r)'
  <2>1. \A q \in Route : once'[q] \subseteq once[q] \cup {s}
    BY <1>3 DEF Occupy
  <2>2. secLock'[x] = r
    BY <1>3, ReleaseNeedsMark DEF Occupy
  <2>3. QED
    BY <2>1, <2>2
<1>4. ASSUME NEW s \in Section, ClearSection(s) PROVE Fresh(x, r)'
  BY <1>4, ReleaseNeedsMark DEF ClearSection
<1>5. ASSUME NEW s \in Section, ClearTerminal(s) PROVE Fresh(x, r)'
  <2>1. PICK q \in Route :
            /\ RouteComplete(q, s)
            /\ secLock' = ReleasedSections(q, ReleasedAfterClear(s))
            /\ once' = [once EXCEPT ![q] = {}]
    BY <1>5 DEF ClearTerminal, MovedIn
  <2>2. q # r
    BY <2>1 DEF RouteComplete
  <2>3. secLock'[x] = r
    BY <2>1, <2>2, ReleaseNeedsMark DEF ReleasedSections
  <2>4. QED
    BY <2>1, <2>3
<1>6. ASSUME Tick \/ Replay \/ UNCHANGED vars PROVE Fresh(x, r)'
  BY <1>6 DEF Tick, Replay, vars
<1>7. QED
  BY <1>1, <1>2, <1>3, <1>4, <1>5, <1>6 DEF Ruled, SwitchStep

(* Only an occupy report makes a section occupied, only a clear report      *)
(* takes it from the occupied ones.                                         *)
LEMMA OccupiedStays ==
    ASSUME NEW G \in SUBSET Route, NEW O \in SUBSET Section,
           NEW C \in SUBSET Section, Ruled(G, O, C)
    PROVE  /\ \A s \in occupied : s \notin C => s \in occupied'
           /\ \A s \in occupied' : s \notin O => s \in occupied
<1> DEFINE Kept == /\ \A s \in occupied : s \notin C => s \in occupied'
                   /\ \A s \in occupied' : s \notin O => s \in occupied
<1>1. ASSUME NEW r \in G, RouteStep(r) PROVE Kept
  BY <1>1 DEF RouteStep, DefineRoute, Establish, CancelImmediate, CancelTimed,
              CompleteDelayedCancel, FaultUnlock
<1>2. ASSUME NEW w \in Switch, SwitchStep(w) PROVE Kept
  BY <1>2 DEF SwitchStep, Reverse, SetIndication
<1>3. ASSUME NEW x \in O, Occupy(x) PROVE Kept
  BY <1>3 DEF Occupy
<1>4. ASSUME NEW x \in C, ClearSection(x) \/ ClearTerminal(x) PROVE Kept
  BY <1>4 DEF ClearSection, ClearTerminal
<1>5. ASSUME Tick \/ Replay \/ UNCHANGED vars PROVE Kept
  BY <1>5 DEF Tick, Replay, vars
<1>6. QED
  BY <1>1, <1>2, <1>3, <1>4, <1>5 DEF Ruled, SwitchStep

(* A route that is ready stays ready while nobody acts on it and no train   *)
(* enters it.                                                               *)
LEMMA ReadyStays ==
    ASSUME ApproachFirst, LockInv, NEW r \in Route, Ready(r),
           NEW O \in SUBSET Section, O \cap OwnSections(r) = {},
           Ruled(Route \ {r}, O, Section)
    PROVE  Ready(r)'
<1>1. Terminal(r) \notin once[r]
  BY OwnFacts DEF Ready, Fresh
<1>2. logged'[r] = "established"
  BY <1>1, LoggedStays DEF Ready
<1>3. ASSUME NEW x \in OwnSections(r) PROVE Fresh(x, r)' /\ x \notin occupied'
  <2>1. Ruled(Route \ {r}, Section \ {x}, Section)
    BY DEF Ruled
  <2>2. x \in Section /\ Fresh(x, r) /\ x \notin occupied /\ x \notin O
    BY PathFacts DEF Ready
  <2>3. Fresh(x, r)'
    BY <1>1, <2>1, <2>2, FreshStays
  <2>4. QED
    BY <2>2, <2>3, OccupiedStays
<1>4. QED
  BY <1>2, <1>3 DEF Ready, OwnSections, Sections

(* No train has been on the sections of a route that is to be established,  *)
(* and none is.                                                             *)
LEMMA EstablishIsReady ==
    ASSUME RoadInv, NEW r \in Route, Establish(r)
    PROVE  Ready(r)'
<1> USE DEF RoadInv, HolderInv, LockInv, TypeOK, MarksInPath, MarksOfLocked
<1>1. ASSUME NEW x \in OwnSections(r), NEW q \in Route, x \in once[q] PROVE FALSE
  <2>1. x \in Sections(q) /\ IsLocked(q) /\ x \in Sections(r)
    BY <1>1 DEF OwnSections
  <2>2. q # r
    BY <2>1 DEF Establish, CheckEstablish, IsLocked, LockedState, RestState
  <2>3. Conflicts(r, q) /\ Defined(q)
    BY <2>1, <2>2 DEF Conflicts, ShareSection, IsLocked, LockedState, Defined
  <2>4. QED
    BY <2>1, <2>3 DEF Establish, CheckEstablish, NoConflictLocked
<1>2. ASSUME NEW x \in OwnSections(r)
      PROVE  secLock'[x] = r /\ once' = once /\ x \notin occupied'
  BY PathFacts DEF Establish, CheckEstablish, SectionsReady, OwnSections
<1>3. logged'[r] = "established"
  BY DEF Establish
<1>4. QED
  BY <1>1, <1>2, <1>3 DEF Ready, Fresh, OwnSections, Sections

(* A regained indication opens only the signal of a route that is ready.    *)
LEMMA RegainedIsReady ==
    ASSUME ApproachFirst, RoadInv, NEW w \in Switch, IndicationRule(w),
           NEW r \in Route, IsLocked(r), w \in Required(r),
           OwnSections(r) \cap occupied = {}
    PROVE  Ready(r)
<1>1. timer[r] = None /\ \A x \in OwnSections(r) : Fresh(x, r)
  BY DEF IndicationRule, Fresh
<1>2. secLock[Terminal(r)] = r /\ Terminal(r) \in Section
  BY <1>1, OwnFacts, PathFacts DEF Fresh
<1>3. logged[r] \in {"established", "cancelling"}
  BY <1>2, HolderFacts DEF RoadInv, HolderInv
<1>4. logged[r] # "cancelling"
  BY <1>1, <1>2, NoneAssumption DEF RoadInv, HolderTimed
<1>5. QED
  BY <1>1, <1>3, <1>4 DEF Ready

(* A signal opens only over a road that is ready.                           *)
LEMMA OpenIsSetStep ==
    ASSUME ApproachFirst, RoadInv, Ruled(Route, Section, Section)
    PROVE  OpenIsSet'
<1> SUFFICES ASSUME NEW g \in Signal, aspect'[g] # "R"
             PROVE  \E r \in Route : Source[r] = g /\ Ready(r)'
  BY DEF OpenIsSet
<1> DEFINE Shown == \E r \in Route : Source[r] = g /\ Ready(r)'
<1> USE RouteAssumption DEF RoadInv, HolderInv, LockInv, TypeOK
<1>0. ASSUME NEW r \in Route, Ready(r)
      PROVE  IsLocked(r) /\ Defined(r) /\ ~CheckEstablish(r)
  <2>1. secLock[Terminal(r)] = r /\ Terminal(r) \in Section
    BY <1>0, OwnFacts, PathFacts DEF Ready, Fresh
  <2>2. QED
    BY <2>1, HolderFacts
<1>1. ASSUME aspect[g] # "R"
      PROVE  \E r \in Route : Source[r] = g /\ Ready(r)
  BY <1>1 DEF OpenIsSet
<1>2. ASSUME NEW q \in Route, RouteStep(q) PROVE Shown
  <2>1. CASE Establish(q) /\ Source[q] = g
    BY <2>1, EstablishIsReady
  <2>2. CASE ~(Establish(q) /\ Source[q] = g)
    <3>1. aspect'[g] = aspect[g]
      BY <1>2, <2>2
      DEF RouteStep, DefineRoute, Establish, CancelImmediate, CancelTimed,
          CompleteDelayedCancel, FaultUnlock, CloseAndUnbindSignal, signals
    <3>2. PICK r \in Route : Source[r] = g /\ Ready(r)
      BY <1>1, <3>1
    <3>3. q # r
      <4>1. SUFFICES ASSUME RouteStep(r) PROVE FALSE
        BY <1>2
      <4>2. ~DefineRoute(r) /\ ~Establish(r)
        BY <1>0, <3>2 DEF DefineRoute, Establish
      <4>3. ~CompleteDelayedCancel(r)
        BY <3>2 DEF CompleteDelayedCancel, CancellingLogged, Ready
      <4>4. QED
        BY <3>2, <4>1, <4>2, <4>3
        DEF RouteStep, CancelImmediate, CancelTimed, FaultUnlock,
            CloseAndUnbindSignal
    <3>4. Ruled(Route \ {r}, {}, Section)
      BY <1>2, <3>3 DEF Ruled
    <3>5. QED
      BY <3>2, <3>4, ReadyStays
  <2>3. QED
    BY <2>1, <2>2
<1>3. ASSUME aspect'[g] = aspect[g],
             NEW O \in SUBSET Section,
             \A r \in Route : Ready(r) /\ Source[r] = g =>
                 O \cap OwnSections(r) = {} /\ Ruled(Route \ {r}, O, Section)
      PROVE  Shown
  BY <1>1, <1>3, ReadyStays
<1>4. ASSUME NEW w \in Switch, Reverse(w) PROVE Shown
  <2>1. aspect' = aspect /\ \A r : Ruled(Route \ {r}, {}, Section)
    BY <1>4 DEF Ruled, Reverse, signals
  <2>2. QED
    BY <1>3, <2>1
<1>5. ASSUME NEW w \in Switch, NEW ok \in BOOLEAN, SetIndication(w, ok),
             ok => IndicationRule(w)
      PROVE  Shown
  <2>1. CASE Refreshed(w, g) = {}
    <3>1. aspect'[g] = aspect[g]
      BY <1>5, <2>1 DEF SetIndication, RefreshSignals
    <3>2. \A r : Ruled(Route \ {r}, {}, Section)
      BY <1>5 DEF Ruled
    <3>3. QED
      BY <1>3, <3>1, <3>2
  <2>2. CASE Refreshed(w, g) # {}
    <3>1. PICK r \in Refreshed(w, g) : aspect'[g] = ComputeAspect(r, swInd')
      BY <1>5, <2>2, Zenon DEF SetIndication, RefreshSignals
    <3>2. r \in Route /\ Source[r] = g /\ IsLocked(r) /\ w \in Required(r)
      BY DEF Refreshed
    <3>3. swInd'[w] /\ OwnSections(r) \cap occupied = {}
      BY <3>1, <3>2 DEF ComputeAspect
    <3>4. ok
      BY <1>5, <3>3 DEF SetIndication
    <3>5. Ready(r)
      BY <1>5, <3>2, <3>3, <3>4, RegainedIsReady
    <3>6. Ruled(Route \ {r}, {}, Section)
      BY <1>5, <3>4 DEF Ruled
    <3>7. Ready(r)'
      BY <3>2, <3>5, <3>6, ReadyStays
    <3>8. QED
      BY <3>2, <3>7
  <2>3. QED
    BY <2>1, <2>2
<1>6. ASSUME NEW s \in Section, Occupy(s) PROVE Shown
  <2>1. aspect'[g] = aspect[g] /\ \A r \in MovedIn(s) : Source[r] # g
    BY <1>6 DEF Occupy
  <2>2. ASSUME NEW r \in Route, Ready(r), Source[r] = g
        PROVE  {s} \cap OwnSections(r) = {} /\ Ruled(Route \ {r}, {s}, Section)
    <3>1. s \notin Sections(r)
      BY <1>0, <2>1, <2>2 DEF MovedIn
    <3>2. QED
      BY <1>6, <3>1 DEF Ruled, OwnSections
  <2>3. QED
    BY <1>3, <2>1, <2>2
<1>7. ASSUME NEW s \in Section, ClearSection(s) \/ ClearTerminal(s) PROVE Shown
  <2>1. aspect'[g] = aspect[g]
    BY <1>7 DEF ClearSection, ClearTerminal, MovedIn, CloseAndUnbindSignal,
                signals
  <2>2. \A r : Ruled(Route \ {r}, {}, Section)
    BY <1>7 DEF Ruled
  <2>3. QED
    BY <1>3, <2>1, <2>2
<1>8. ASSUME Tick \/ (RecoveryRule /\ Replay) \/ UNCHANGED vars PROVE Shown
  <2>1. aspect' = aspect /\ \A r : Ruled(Route \ {r}, {}, Section)
    BY <1>8 DEF Tick, Replay, vars, signals, Ruled
  <2>2. QED
    BY <1>3, <2>1
<1>9. QED
  BY <1>2, <1>4, <1>5, <1>6, <1>7, <1>8 DEF Ruled

(* So the interlocking keeps roads ready in every step under the rules.     *)
LEMMA RoadInvInductive ==
    ASSUME SharedSwitchesConflict, ApproachFirst, RoadInv,
           Ruled(Route, Section, Section)
    PROVE  RoadInv'
<1>1. [RecoveryNext]_vars
  BY RuledIsStep
<1>2. HolderInv'
  BY <1>1, HolderInvInductive DEF RoadInv
<1>3. MarksInPath' /\ MarksOfLocked'
  BY MarksStep
<1>4. CancellingLogged' /\ HolderTimed'
  BY <1>1, CancelStep DEF RoadInv, HolderInv
<1>5. QED
  BY <1>2, <1>3, <1>4, OpenIsSetStep DEF RoadInv

LEMMA RoadInit ==
    ASSUME Init
    PROVE  RoadInv
<1>1. HolderInv
  BY TypeInit, NoneAssumption
  DEF Init, HolderInv, HolderHoldsSwitches, HoldsLock, LockInv,
      LocksHaveOwners, LockedSwitchesInPosition, LockHoldersLogged
<1>2. QED
  BY <1>1
  DEF Init, RoadInv, MarksInPath, MarksOfLocked, CancellingLogged, HolderTimed,
      OpenIsSet

-----------------------------------------------------------------------------
(* Trains on the roads that are kept ready for them.                        *)

StandingOccupied == \A s \in Section : Standing(s) => s \in occupied

(* The route of a train is set: it holds the section under the front of the *)
(* train, and is fresh in front of it.                                      *)
SetAhead(t) ==
    /\ logged[t.road] = "established"
    /\ \A i \in AheadOf(t) : Fresh(Path[t.road][i], t.road)

SetUnder(t) == Front(t) \in OwnSections(t.road) /\ secLock[Front(t)] = t.road

InsideIsSet == \A t \in trains : t.road # None => SetAhead(t) /\ SetUnder(t)

NoneAhead ==
    \A t, u \in trains : t.road # None =>
        \A i \in AheadOf(t) : ~StandsOn(u, Path[t.road][i])

Alone == \A t, u \in trains : t.road # None /\ t.road = u.road => t = u

TrainInv ==
    /\ TrainTypeOK
    /\ RoadInv
    /\ StandingOccupied
    /\ InsideIsSet /\ NoneAhead /\ Alone
    /\ NoCollision

(* What is in front of a train is its route's own, down to the terminal,    *)
(* which is under its front when nothing is in front of it.                 *)
LEMMA AheadFacts ==
    ASSUME ApproachFirst, NEW t, t.road \in Route, Front(t) \in OwnSections(t.road)
    PROVE  /\ \A i \in AheadOf(t) : Path[t.road][i] \in OwnSections(t.road)
           /\ AheadOf(t) # {} => Len(Path[t.road]) \in AheadOf(t)
           /\ AheadOf(t) = {} => Front(t) = Terminal(t.road)
           /\ \A i \in AheadOf(t) : Path[t.road][i] # Front(t)
<1> DEFINE r == t.road
           n == Len(Path[r])
<1>1. n \in Nat /\ n > 0
  BY PathAssumption
<1>2. ASSUME NEW i \in AheadOf(t) PROVE n \in AheadOf(t)
  BY <1>1 DEF AheadOf
<1>3. PICK k \in 1..n : Path[r][k] = Front(t)
  BY DEF OwnSections, Sections
<1>4. \A j \in 1..n : Path[r][j] = Front(t) => j = k
  BY <1>3, PathFacts
<1>5. ASSUME AheadOf(t) = {} PROVE Front(t) = Terminal(r)
  <2>1. n \notin AheadOf(t) /\ n \in 1..n
    BY <1>1, <1>5
  <2>2. ~(n > k)
    BY <1>4, <2>1 DEF AheadOf
  <2>3. k = n
    BY <1>1, <2>2
  <2>4. QED
    BY <1>3, <2>3 DEF Terminal
<1>6. ASSUME NEW i \in AheadOf(t)
      PROVE  Path[r][i] \in OwnSections(r) /\ Path[r][i] # Front(t)
  <2>1. i \in 1..n /\ i > k
    BY <1>3 DEF AheadOf
  <2>2. i \in 2..n /\ i # k
    BY <1>1, <2>1
  <2>3. QED
    BY <1>4, <2>1, <2>2, OwnFacts
<1>7. QED
  BY <1>2, <1>5, <1>6

(* A train finds its route set as long as nobody acts on the route, no      *)
(* train enters it in front of this one, and neither the section under its  *)
(* front nor, behind the last train, its terminal is reported clear.        *)
LEMMA SetStays ==
    ASSUME ApproachFirst, LockInv, NEW t, t.road \in Route,
           SetAhead(t), SetUnder(t), Front(t) \in occupied,
           NEW O \in SUBSET Section, NEW C \in SUBSET Section,
           Ruled(Route \ {t.road}, O, C),
           \A i \in AheadOf(t) : Path[t.road][i] \notin O,
           Front(t) \notin C
    PROVE  SetAhead(t)' /\ SetUnder(t)'
<1> DEFINE r == t.road
           f == Front(t)
<1> USE NoneAssumption DEF LockInv, TypeOK, locks
<1>1. /\ f \in OwnSections(r) /\ f \in Section /\ secLock[f] = r
      /\ logged[r] = "established"
  BY PathFacts DEF SetUnder, SetAhead
<1>2. AheadOf(t) # {} => Terminal(r) \notin once[r]
  BY <1>1, AheadFacts DEF SetAhead, Fresh, Terminal
<1>3. Terminal(r) \notin once[r] \/ Terminal(r) \notin C
  BY <1>1, <1>2, AheadFacts
<1>4. logged'[r] = "established"
  BY <1>1, <1>3, LoggedStays
<1>5. ASSUME NEW i \in AheadOf(t) PROVE Fresh(Path[r][i], r)'
  <2>1. Path[r][i] \in Section
    BY <1>1, AheadFacts, PathFacts
  <2>2. Ruled(Route \ {r}, Section \ {Path[r][i]}, Section)
    BY DEF Ruled
  <2>3. Fresh(Path[r][i], r)
    BY DEF SetAhead
  <2>4. Terminal(r) \notin once[r]
    BY <1>2, <1>5
  <2>5. QED
    BY <2>1, <2>2, <2>3, <2>4, FreshStays
<1>6. secLock'[f] = r
  <2>1. ASSUME NEW s \in C, NEW q \in MovedIn(s) PROVE f \notin ReleasedByClear(q, s)
    <3>1. q \in Route /\ f # s
      BY <2>1 DEF MovedIn
    <3>2. RouteComplete(q, s) => q # r
      BY <1>3, <2>1 DEF RouteComplete
    <3>3. QED
      BY <1>1, <3>1, <3>2 DEF ReleasedByClear
  <2>2. ASSUME NEW s \in C PROVE ReleasedAfterClear(s)[f] = r
    BY <1>1, <2>1, <2>2 DEF ReleasedAfterClear
  <2>3. ASSUME NEW s \in O, Occupy(s) PROVE secLock'[f] = r
    <3>1. \A q \in MovedIn(s) : f \notin ReleasedBehind(q, s)
      BY DEF ReleasedBehind
    <3>2. QED
      BY <1>1, <2>3, <3>1 DEF Occupy
  <2>4. ASSUME NEW s \in C, ClearTerminal(s) PROVE secLock'[f] = r
    <3>1. PICK q \in MovedIn(s) :
              /\ RouteComplete(q, s)
              /\ secLock' = ReleasedSections(q, ReleasedAfterClear(s))
      BY <2>4 DEF ClearTerminal
    <3>2. q # r
      BY <1>3, <2>4, <3>1 DEF RouteComplete
    <3>3. QED
      BY <1>1, <2>2, <2>4, <3>1, <3>2 DEF ReleasedSections
  <2>5. ASSUME NEW s \in C, ClearSection(s) PROVE secLock'[f] = r
    BY <2>2, <2>5 DEF ClearSection
  <2>6. ASSUME NEW q \in Route \ {r}, RouteStep(q) PROVE secLock'[f] = r
    BY <1>1, <2>6, LockStays
  <2>7. QED
    BY <1>1, <2>3, <2>4, <2>5, <2>6
    DEF Ruled, Reverse, SetIndication, Tick, Replay, vars
<1>7. QED
  BY <1>1, <1>4, <1>5, <1>6 DEF SetAhead, SetUnder, AheadOf, Front

LEMMA InsideFacts ==
    ASSUME TrainInv, NEW t \in trains
    PROVE  /\ StandsOn(t, Front(t)) /\ t \in Train
           /\ t.road # None =>
                  /\ t.road \in Route /\ SetAhead(t) /\ SetUnder(t)
                  /\ Front(t) \in Section /\ Front(t) \in occupied
<1>1. t \in Train /\ Len(t.on) \in 1..2
  BY DEF TrainInv, TrainTypeOK
<1>2. StandsOn(t, Front(t))
  BY <1>1 DEF StandsOn, Front
<1>3. ASSUME t.road # None
      PROVE  /\ t.road \in Route /\ SetAhead(t) /\ SetUnder(t)
             /\ Front(t) \in Section /\ Front(t) \in occupied
  <2>1. t.road \in Route /\ SetAhead(t) /\ SetUnder(t)
    BY <1>1, <1>3 DEF Train, TrainInv, InsideIsSet
  <2>2. Front(t) \in Section
    BY <2>1, PathFacts DEF SetUnder
  <2>3. QED
    BY <1>2, <2>1, <2>2 DEF TrainInv, StandingOccupied, Standing
<1>4. QED
  BY <1>1, <1>2, <1>3

(* While trains stand still, operators who keep the rules, and reports that *)
(* are true, leave the roads ready in front of them.                        *)
LEMMA StillStep ==
    ASSUME ApproachFirst, TrainInv, TrainTypeOK', RoadInv', trains' = trains,
           NEW O \in SUBSET {s \in Section : Standing(s)},
           NEW C \in SUBSET {s \in Section : ~Standing(s)},
           NEW G \in SUBSET {r \in Route : ~Inside(r)}, Ruled(G, O, C)
    PROVE  TrainInv'
<1>1. StandingOccupied'
  <2> SUFFICES ASSUME NEW s \in Section, Standing(s) PROVE s \in occupied'
    BY DEF StandingOccupied, Standing, StandsOn
  <2>1. s \in occupied /\ s \notin C
    BY DEF TrainInv, StandingOccupied
  <2>2. QED
    BY <2>1, OccupiedStays
<1>2. InsideIsSet'
  <2> SUFFICES ASSUME NEW t \in trains, t.road # None
               PROVE  SetAhead(t)' /\ SetUnder(t)'
    BY DEF InsideIsSet
  <2>1. /\ t.road \in Route /\ SetAhead(t) /\ SetUnder(t)
        /\ Front(t) \in occupied /\ StandsOn(t, Front(t))
    BY InsideFacts
  <2>2. Ruled(Route \ {t.road}, O, C)
    BY DEF Ruled, Inside
  <2>3. \A i \in AheadOf(t) : Path[t.road][i] \notin O
    BY DEF TrainInv, NoneAhead, Standing
  <2>4. Front(t) \notin C
    BY <2>1 DEF Standing
  <2>5. QED
    BY <2>1, <2>2, <2>3, <2>4, SetStays DEF TrainInv, RoadInv, HolderInv
<1>3. NoneAhead' /\ Alone' /\ NoCollision'
  BY DEF TrainInv, NoneAhead, Alone, NoCollision, StandsOn, AheadOf, Front
<1>4. QED
  BY <1>1, <1>2, <1>3 DEF TrainInv

(* A train that enters x leaves x locked for the route that holds it.       *)
LEMMA EnteredStaysLocked ==
    ASSUME LockInv, NEW x \in Section, Occupy(x)
    PROVE  secLock'[x] = secLock[x]
<1>1. \A q \in MovedIn(x) : x \notin ReleasedBehind(q, x)
  BY BehindIsClear DEF MovedIn
<1>2. QED
  BY <1>1 DEF Occupy

(* A train whose front enters x, free and in front of it, with the road set *)
(* behind x: the road stays set in front of this train and of the others.   *)
LEMMA EnterStep ==
    ASSUME ApproachFirst, TrainInv, TrainTypeOK', RoadInv',
           NEW t \in trains, NEW v,
           trains' = (trains \ {t}) \cup {v},
           v.road \in Route,
           NEW x \in OwnSections(v.road), Occupy(x), Front(v) = x,
           secLock[x] = v.road,
           \A s : StandsOn(v, s) <=> StandsOn(t, s) \/ s = x,
           \A u \in trains : ~StandsOn(u, x) /\ (u.road = v.road => u = t),
           \A u \in trains : \A i \in AheadOf(v) : ~StandsOn(u, Path[v.road][i]),
           SetAhead(v)
    PROVE  TrainInv'
<1> DEFINE r == v.road
<1> USE NoneAssumption
<1>0. r # None /\ x \in Section /\ Ruled({}, {x}, {}) /\ LockInv
  BY PathFacts DEF Ruled, TrainInv, RoadInv, HolderInv
<1>1. StandingOccupied'
  <2> SUFFICES ASSUME NEW s \in Section, NEW u \in trains', StandsOn(u, s)
               PROVE  s \in occupied'
    BY DEF StandingOccupied, Standing, StandsOn
  <2>1. Standing(s) \/ s = x
    BY DEF Standing
  <2>2. occupied' = occupied \cup {x}
    BY DEF Occupy
  <2>3. QED
    BY <2>1, <2>2 DEF TrainInv, StandingOccupied
<1>2. SetAhead(v)' /\ SetUnder(v)'
  <2>1. \A i \in AheadOf(v) : /\ Path[r][i] \in Section /\ Path[r][i] # x
                              /\ Fresh(Path[r][i], r)
    BY AheadFacts, PathFacts DEF SetAhead
  <2>2. logged' = logged /\ logged[r] = "established"
    BY DEF Occupy, SetAhead
  <2>3. AheadOf(v) # {} => Terminal(r) \notin once[r]
    BY <2>1, AheadFacts DEF Fresh, Terminal
  <2>4. ASSUME NEW i \in AheadOf(v) PROVE Fresh(Path[r][i], r)'
    <3>1. Ruled(Route \ {r}, Section \ {Path[r][i]}, Section)
      BY <1>0, <2>1 DEF Ruled
    <3>2. QED
      BY <1>0, <2>1, <2>3, <3>1, FreshStays
  <2>5. secLock'[x] = r
    BY <1>0, EnteredStaysLocked
  <2>6. QED
    BY <2>2, <2>4, <2>5 DEF SetAhead, SetUnder, AheadOf, Front
<1>3. ASSUME NEW u \in trains, u # t, u.road # None
      PROVE  /\ u.road # r
             /\ \A i \in AheadOf(u) : Path[u.road][i] # x
             /\ SetAhead(u)' /\ SetUnder(u)'
  <2>1. /\ u.road \in Route /\ SetAhead(u) /\ SetUnder(u)
        /\ Front(u) \in occupied
    BY <1>3, InsideFacts
  <2>2. u.road # r
    BY <1>3
  <2>3. \A i \in AheadOf(u) : Path[u.road][i] # x
    BY <2>1, <2>2 DEF SetAhead, Fresh
  <2>4. \A i \in AheadOf(u) : Path[u.road][i] \notin {x}
    BY <2>3
  <2>5. Ruled(Route \ {u.road}, {x}, {})
    BY <1>0 DEF Ruled
  <2>6. QED
    BY <1>0, <2>1, <2>2, <2>3, <2>4, <2>5, SetStays
<1>4. InsideIsSet'
  <2> SUFFICES ASSUME NEW u \in trains', u.road # None
               PROVE  SetAhead(u)' /\ SetUnder(u)'
    BY DEF InsideIsSet
  <2>1. QED
    BY <1>2, <1>3
<1>5. NoneAhead'
  <2> SUFFICES ASSUME NEW a \in trains', NEW b \in trains', a.road # None,
                      NEW i \in AheadOf(a)
               PROVE  ~StandsOn(b, Path[a.road][i])
    BY DEF NoneAhead, AheadOf, Front, StandsOn
  <2>1. CASE a = v
    <3>1. Path[r][i] # x
      BY <2>1, AheadFacts
    <3>2. QED
      BY <2>1, <3>1
  <2>2. CASE a # v
    <3>1. a \in trains /\ a # t
      BY <2>2
    <3>2. \A u \in trains : ~StandsOn(u, Path[a.road][i])
      BY <3>1 DEF TrainInv, NoneAhead
    <3>3. Path[a.road][i] # x
      BY <1>3, <3>1
    <3>4. QED
      BY <3>2, <3>3
  <2>3. QED
    BY <2>1, <2>2
<1>6. Alone'
  BY DEF TrainInv, Alone
<1>7. NoCollision'
  <2> SUFFICES ASSUME NEW s \in Section, NEW a \in trains', NEW b \in trains',
                      StandsOn(a, s), StandsOn(b, s)
               PROVE  a = b
    BY DEF NoCollision, StandsOn
  <2>1. CASE s = x
    BY <2>1
  <2>2. CASE s # x
    <3>1. /\ a = v \/ a \in trains \ {t}
          /\ b = v \/ b \in trains \ {t}
      OBVIOUS
    <3>2. \A u, w \in trains : StandsOn(u, s) /\ StandsOn(w, s) => u = w
      BY DEF TrainInv, NoCollision
    <3>3. QED
      BY <2>2, <3>1, <3>2
  <2>3. QED
    BY <2>1, <2>2
<1>8. QED
  BY <1>1, <1>4, <1>5, <1>6, <1>7 DEF TrainInv

(* The sections of a train whose front has entered s.                       *)
LEMMA Entered ==
    ASSUME NEW t \in Train, Len(t.on) = 1, NEW s \in Section,
           NEW v, v.on = Append(t.on, s)
    PROVE  /\ Front(v) = s
           /\ \A x : StandsOn(v, x) <=> StandsOn(t, x) \/ x = s
<1>1. t.on \in Seq(Section)
  BY DEF Train
<1>2. Len(v.on) = 2 /\ v.on[1] = t.on[1] /\ v.on[2] = s
  BY <1>1
<1>3. 1..2 = {1, 2} /\ 1..1 = {1}
  OBVIOUS
<1>4. QED
  BY <1>2, <1>3 DEF Front, StandsOn

(* Of the routes from an open signal the one that is ready is the one that  *)
(* is set.                                                                  *)
LEMMA PassedIsReady ==
    ASSUME SharedSignalsConflict, ApproachFirst, RoadInv,
           ConflictingLocksExclude, NEW t, NEW r \in Route, PassSignal(t, r)
    PROVE  Ready(r)
<1>1. PICK q \in Route : Source[q] = Source[r] /\ Ready(q)
  BY RouteAssumption DEF PassSignal, RoadInv, OpenIsSet
<1>2. Terminal(q) \in Section /\ secLock[Terminal(q)] = q
  BY <1>1, OwnFacts, PathFacts DEF Ready, Fresh
<1>3. HoldsLock(q)
  BY <1>2 DEF HoldsLock
<1>4. IsSet(q)
  <2> SUFFICES ASSUME NEW w \in Required(q) PROVE swPos[w] = Needs[q][w]
    BY <1>3 DEF IsSet
  <2>1. w \in Switch
    BY NeedsAssumption DEF Required
  <2>2. swLock[w] = q
    BY <1>3 DEF RoadInv, HolderInv, HolderHoldsSwitches
  <2>3. QED
    BY <2>1, <2>2, NoneAssumption
    DEF RoadInv, HolderInv, LockInv, LockedSwitchesInPosition
<1>5. HoldsLock(r)
  BY <1>1, <1>4 DEF PassSignal, IsSet
<1>6. q = r
  BY <1>1, <1>3, <1>5 DEF SharedSignalsConflict, ConflictingLocksExclude
<1>7. QED
  BY <1>1, <1>6

(* A train passes an open signal only: the road is set, fresh and clear.    *)
LEMMA PassSignalStep ==
    ASSUME SharedSignalsConflict, ApproachFirst, TrainInv,
           ConflictingLocksExclude, TrainTypeOK', RoadInv',
           NEW t \in trains, NEW r \in Route, PassSignal(t, r)
    PROVE  TrainInv'
<1> DEFINE x == Path[r][Entry(r)]
           v == [on |-> Append(t.on, x), road |-> r]
<1>1. /\ t.on = <<Approach[r]>> /\ t \in Train
      /\ trains' = (trains \ {t}) \cup {v}
      /\ Occupy(x)
  BY DEF PassSignal, WaitsFor, Becomes, TrainInv, TrainTypeOK
<1>2. Len(t.on) = 1 /\ v.on = Append(t.on, x) /\ v.road = r
  BY <1>1
<1>3. x \in OwnSections(r) /\ x \in Section
  BY OwnFacts, PathFacts
<1> HIDE DEF v, x
<1>4. Front(v) = x /\ \A s : StandsOn(v, s) <=> StandsOn(t, s) \/ s = x
  BY <1>1, <1>2, <1>3, Entered
<1>5. Ready(r)
  BY PassedIsReady DEF TrainInv
<1>6. \A i \in AheadOf(v) : Path[r][i] \in OwnSections(r)
  BY <1>2, <1>3, <1>4, AheadFacts
<1>7. SetAhead(v) /\ secLock[x] = r
  BY <1>2, <1>3, <1>5, <1>6 DEF SetAhead, Ready, Fresh
<1>8. \A s \in OwnSections(r) : \A u \in trains : ~StandsOn(u, s)
  BY <1>5, PathFacts DEF Ready, TrainInv, StandingOccupied, Standing
<1>9. ASSUME NEW u \in trains PROVE ~StandsOn(u, x) /\ u.road # r
  <2>1. StandsOn(u, Front(u))
    BY InsideFacts
  <2>2. u.road = r => Front(u) \in OwnSections(r)
    BY InsideFacts, NoneAssumption DEF SetUnder
  <2>3. QED
    BY <1>3, <1>8, <2>1, <2>2
<1>10. \A u \in trains : \A i \in AheadOf(v) : ~StandsOn(u, Path[r][i])
  BY <1>6, <1>8
<1>11. QED
  BY <1>1, <1>2, <1>3, <1>4, <1>7, <1>9, <1>10, EnterStep

(* A train that goes on enters what is in front of it.                      *)
LEMMA AdvanceStep ==
    ASSUME ApproachFirst, TrainInv, TrainTypeOK', RoadInv',
           NEW t \in trains, Advance(t)
    PROVE  TrainInv'
<1> DEFINE r == t.road
<1>1. /\ r \in Route /\ t \in Train /\ Len(t.on) = 1 /\ r # None
      /\ SetAhead(t) /\ SetUnder(t)
  BY InsideFacts DEF Advance
<1>2. PICK i \in 2..Len(Path[r]) :
          /\ Path[r][i - 1] = Front(t)
          /\ trains' = (trains \ {t}) \cup
                           {[t EXCEPT !.on = Append(t.on, Path[r][i])]}
          /\ Occupy(Path[r][i])
  BY DEF Advance, Becomes
<1> DEFINE x == Path[r][i]
           v == [t EXCEPT !.on = Append(t.on, x)]
<1>3. Len(Path[r]) \in Nat /\ i \in 1..Len(Path[r]) /\ i - 1 \in 1..Len(Path[r])
  BY <1>1, <1>2, PathAssumption
<1>4. x \in OwnSections(r) /\ x \in Section
  BY <1>1, OwnFacts, PathFacts
<1>5. /\ v.on = Append(t.on, x) /\ v.road = r
      /\ trains' = (trains \ {t}) \cup {v}
  BY <1>1, <1>2 DEF Train
<1> HIDE DEF v
<1>6. Front(v) = x /\ \A s : StandsOn(v, s) <=> StandsOn(t, s) \/ s = x
  BY <1>1, <1>4, <1>5, Entered
<1>7. \A j \in 1..Len(Path[r]) : Path[r][j] = Front(t) => j = i - 1
  BY <1>1, <1>2, <1>3, PathFacts
<1>8. i \in AheadOf(t)
  BY <1>3, <1>7 DEF AheadOf
<1>9. AheadOf(v) \subseteq AheadOf(t)
  <2> SUFFICES ASSUME NEW k \in AheadOf(v) PROVE k \in AheadOf(t)
    OBVIOUS
  <2>1. k \in 1..Len(Path[r]) /\ k > i
    BY <1>3, <1>5, <1>6 DEF AheadOf
  <2>2. k > i - 1
    BY <1>3, <2>1
  <2>3. QED
    BY <1>7, <2>1, <2>2 DEF AheadOf
<1>10. SetAhead(v) /\ secLock[x] = r
  BY <1>1, <1>5, <1>8, <1>9 DEF SetAhead, Fresh
<1>11. \A u \in trains : \A k \in AheadOf(t) : ~StandsOn(u, Path[r][k])
  BY <1>1 DEF TrainInv, NoneAhead
<1>12. \A u \in trains : ~StandsOn(u, x) /\ (u.road = r => u = t)
  BY <1>1, <1>8, <1>11 DEF TrainInv, Alone
<1>13. \A u \in trains : \A k \in AheadOf(v) : ~StandsOn(u, Path[r][k])
  BY <1>9, <1>11
<1>14. Occupy(x)
  BY <1>2
<1> HIDE DEF x
<1>15. QED
  BY <1>1, <1>4, <1>5, <1>6, <1>10, <1>12, <1>13, <1>14, EnterStep

(* A train that arrives waits where no other train stands, in nobody's way. *)
LEMMA ArriveStep ==
    ASSUME ApproachFirst, TrainInv, TrainTypeOK', RoadInv',
           NEW s \in Section, Arrive(s)
    PROVE  TrainInv'
<1> DEFINE v == [on |-> <<s>>, road |-> None]
<1>1. /\ trains' = trains \cup {v} /\ Occupy(s) /\ ~Standing(s)
      /\ \A r \in Route : s \notin OwnSections(r)
      /\ Ruled({}, {s}, {}) /\ LockInv
  BY DEF Arrive, Ruled, TrainInv, RoadInv, HolderInv
<1>2. v.road = None /\ \A x : StandsOn(v, x) <=> x = s
  <2>1. Len(<<s>>) = 1 /\ <<s>>[1] = s /\ 1..1 = {1}
    OBVIOUS
  <2>2. QED
    BY <2>1 DEF StandsOn
<1> HIDE DEF v
<1>3. StandingOccupied'
  <2> SUFFICES ASSUME NEW x \in Section, NEW u \in trains', StandsOn(u, x)
               PROVE  x \in occupied'
    BY DEF StandingOccupied, Standing, StandsOn
  <2>1. Standing(x) \/ x = s
    BY <1>1, <1>2 DEF Standing
  <2>2. occupied' = occupied \cup {s}
    BY <1>1 DEF Occupy
  <2>3. QED
    BY <2>1, <2>2 DEF TrainInv, StandingOccupied
<1>4. ASSUME NEW u \in trains, u.road # None
      PROVE  /\ \A i \in AheadOf(u) : Path[u.road][i] # s
             /\ SetAhead(u)' /\ SetUnder(u)'
  <2>1. /\ u.road \in Route /\ SetAhead(u) /\ SetUnder(u)
        /\ Front(u) \in occupied
    BY <1>4, InsideFacts
  <2>2. \A i \in AheadOf(u) : Path[u.road][i] # s
    BY <1>1, <2>1, AheadFacts DEF SetUnder
  <2>3. \A i \in AheadOf(u) : Path[u.road][i] \notin {s}
    BY <2>2
  <2>4. Ruled(Route \ {u.road}, {s}, {})
    BY <1>1 DEF Ruled
  <2>5. QED
    BY <1>1, <2>1, <2>2, <2>3, <2>4, SetStays
<1>5. InsideIsSet'
  <2> SUFFICES ASSUME NEW u \in trains', u.road # None
               PROVE  SetAhead(u)' /\ SetUnder(u)'
    BY DEF InsideIsSet
  <2>1. QED
    BY <1>1, <1>2, <1>4
<1>6. NoneAhead'
  <2> SUFFICES ASSUME NEW a \in trains', NEW b \in trains', a.road # None,
                      NEW i \in AheadOf(a)
               PROVE  ~StandsOn(b, Path[a.road][i])
    BY DEF NoneAhead, AheadOf, Front, StandsOn
  <2>1. a \in trains /\ Path[a.road][i] # s
    BY <1>1, <1>2, <1>4
  <2>2. QED
    BY <1>1, <1>2, <2>1 DEF TrainInv, NoneAhead
<1>7. Alone'
  BY <1>1, <1>2 DEF TrainInv, Alone
<1>8. NoCollision'
  <2> SUFFICES ASSUME NEW x \in Section, NEW a \in trains', NEW b \in trains',
                      StandsOn(a, x), StandsOn(b, x)
               PROVE  a = b
    BY DEF NoCollision, StandsOn
  <2>1. CASE x = s
    BY <1>1, <1>2, <2>1 DEF Standing
  <2>2. CASE x # s
    BY <1>1, <1>2, <2>2 DEF TrainInv, NoCollision
  <2>3. QED
    BY <2>1, <2>2
<1>9. QED
  BY <1>3, <1>5, <1>6, <1>7, <1>8 DEF TrainInv

(* The sections of a train whose rear has cleared.                          *)
LEMMA RearCleared ==
    ASSUME NEW t \in Train, Len(t.on) = 2, NEW v, v.on = Tail(t.on)
    PROVE  /\ Front(v) = Front(t)
           /\ \A x : StandsOn(v, x) => StandsOn(t, x)
<1>1. t.on \in Seq(Section)
  BY DEF Train
<1>2. Len(v.on) = 1 /\ v.on[1] = t.on[2]
  BY <1>1
<1>3. 1..1 = {1} /\ 2 \in 1..2
  OBVIOUS
<1>4. QED
  BY <1>2, <1>3 DEF Front, StandsOn

(* A train that clears its rear, or leaves, is in nobody's way.             *)
LEMMA LeaveStep ==
    ASSUME TrainInv, TrainTypeOK', RoadInv', NEW t \in trains,
           RearClears(t) \/ Depart(t)
    PROVE  TrainInv'
<1> DEFINE v == [t EXCEPT !.on = Tail(t.on)]
<1>1. trains' \subseteq (trains \ {t}) \cup {v} /\ UNCHANGED vars
  BY DEF RearClears, Becomes, Depart
<1>2. ASSUME v \in trains', v \notin trains \ {t}
      PROVE  /\ v.road = t.road /\ Front(v) = Front(t)
             /\ \A s : StandsOn(v, s) => StandsOn(t, s)
  <2>1. Len(t.on) = 2 /\ t \in Train
    BY <1>2 DEF RearClears, Depart, TrainInv, TrainTypeOK
  <2>2. v.road = t.road /\ v.on = Tail(t.on)
    BY <2>1 DEF Train
  <2>3. QED
    BY <2>1, <2>2, RearCleared
<1> HIDE DEF v
(* Whatever train there is was there, with its front at the same place.     *)
<1> DEFINE Was(u) == IF u \in trains \ {t} THEN u ELSE t
<1>3. ASSUME NEW u \in trains'
      PROVE  /\ Was(u) \in trains
             /\ u.road = Was(u).road /\ Front(u) = Front(Was(u))
             /\ \A s : StandsOn(u, s) => StandsOn(Was(u), s)
  BY <1>1, <1>2, <1>3
<1>4. \A u, w \in trains' : Was(u) = Was(w) => u = w
  BY <1>1
<1> HIDE DEF Was
<1>5. \A u \in trains' : AheadOf(u) = AheadOf(Was(u))
  BY <1>3 DEF AheadOf
<1>6. StandingOccupied'
  BY <1>1, <1>3 DEF TrainInv, StandingOccupied, Standing, StandsOn, vars
<1>7. InsideIsSet'
  <2> SUFFICES ASSUME NEW u \in trains', u.road # None
               PROVE  SetAhead(u)' /\ SetUnder(u)'
    BY DEF InsideIsSet
  <2>1. SetAhead(Was(u)) /\ SetUnder(Was(u))
    BY <1>3 DEF TrainInv, InsideIsSet
  <2>2. SetAhead(u) /\ SetUnder(u)
    BY <1>3, <1>5, <2>1 DEF SetAhead, SetUnder
  <2>3. QED
    BY <1>1, <2>2 DEF SetAhead, SetUnder, Fresh, AheadOf, Front, OwnSections,
                      Sections, vars, locks
<1>8. NoneAhead'
  <2> SUFFICES ASSUME NEW a \in trains', NEW b \in trains', a.road # None,
                      NEW i \in AheadOf(a)
               PROVE  ~StandsOn(b, Path[a.road][i])
    BY DEF NoneAhead, AheadOf, Front, StandsOn
  <2>1. QED
    BY <1>3, <1>5 DEF TrainInv, NoneAhead
<1>9. Alone'
  BY <1>3, <1>4 DEF TrainInv, Alone
<1>10. NoCollision'
  <2> SUFFICES ASSUME NEW s \in Section, NEW a \in trains', NEW b \in trains',
                      StandsOn(a, s), StandsOn(b, s)
               PROVE  a = b
    BY DEF NoCollision, StandsOn
  <2>1. StandsOn(Was(a), s) /\ StandsOn(Was(b), s)
    BY <1>3
  <2>2. Was(a) = Was(b)
    BY <1>3, <2>1 DEF TrainInv, NoCollision
  <2>3. QED
    BY <1>4, <2>2
<1>11. QED
  BY <1>6, <1>7, <1>8, <1>9, <1>10 DEF TrainInv

-----------------------------------------------------------------------------
(* Operators and trains keep the rules.                                     *)
LEMMA TrainStepIsRuled ==
    ASSUME ApproachFirst, TrainTypeOK, [TrainNext]_trainVars
    PROVE  Ruled(Route, Section, Section)
<1>1. ASSUME NEW t \in trains, Run(t) PROVE Ruled(Route, Section, Section)
  BY <1>1, RunStep DEF Ruled
<1>2. QED
  BY <1>1 DEF TrainNext, Operate, RouteStep, Arrive, ReportOccupied,
              ReportClear, Ruled, trainVars

(* The route of a train is locked and no cancel of it runs, so that nobody  *)
(* defines, establishes or completes it.                                    *)
LEMMA OperatorsStayOutside ==
    ASSUME TrainInv, Operate
    PROVE  Ruled({r \in Route : ~Inside(r)}, {}, {})
<1>1. ASSUME NEW r \in Route, Inside(r)
      PROVE  ~DefineRoute(r) /\ ~Establish(r) /\ ~CompleteDelayedCancel(r)
  <2>1. PICK t \in trains : t.road = r
    BY <1>1 DEF Inside
  <2>2. SetAhead(t) /\ SetUnder(t) /\ Front(t) \in Section
    BY <2>1, InsideFacts, NoneAssumption
  <2>3. secLock[Front(t)] = r /\ logged[r] = "established"
    BY <2>1, <2>2 DEF SetAhead, SetUnder
  <2>4. Defined(r) /\ ~CheckEstablish(r)
    BY <2>2, <2>3, HolderFacts DEF TrainInv, RoadInv, HolderInv
  <2>5. routeState[r] # "cancelling"
    BY <2>3 DEF TrainInv, RoadInv, CancellingLogged
  <2>6. QED
    BY <2>4, <2>5 DEF DefineRoute, Establish, CompleteDelayedCancel
<1>2. QED
  BY <1>1 DEF Operate, RouteRule, RouteStep, Ruled

(* Every step of trains and operators keeps trains apart and their roads    *)
(* set.                                                                     *)
LEMMA TrainInvInductive ==
    ASSUME SharedSwitchesConflict, SharedSignalsConflict, ApproachFirst,
           TrainInv, ConflictingLocksExclude, [TrainNext]_trainVars
    PROVE  TrainInv'
<1>1. TrainTypeOK' /\ RoadInv'
  BY TrainStepIsStep, TrainStepIsRuled, RoadInvInductive DEF TrainInv
<1>2. CASE Operate /\ UNCHANGED trains
  <2>1. Ruled({r \in Route : ~Inside(r)}, {}, {})
    BY <1>2, OperatorsStayOutside
  <2>2. QED
    BY <1>1, <1>2, <2>1, StillStep
<1>3. ASSUME NEW t \in trains, Run(t) PROVE TrainInv'
  BY <1>1, <1>3, PassSignalStep, AdvanceStep, LeaveStep DEF Run
<1>4. ASSUME NEW s \in Section, Arrive(s) PROVE TrainInv'
  BY <1>1, <1>4, ArriveStep
<1>5. ASSUME NEW s \in Section, ReportOccupied(s) PROVE TrainInv'
  <2>1. trains' = trains /\ Standing(s) /\ Ruled({}, {s}, {})
    BY <1>5 DEF ReportOccupied, Ruled
  <2>2. QED
    BY <1>1, <2>1, StillStep
<1>6. ASSUME NEW s \in Section, ReportClear(s) PROVE TrainInv'
  <2>1. trains' = trains /\ ~Standing(s) /\ Ruled({}, {}, {s})
    BY <1>6 DEF ReportClear, Ruled
  <2>2. QED
    BY <1>1, <2>1, StillStep
<1>7. CASE UNCHANGED trainVars
  <2>1. trains' = trains /\ Ruled({}, {}, {})
    BY <1>7 DEF trainVars, Ruled
  <2>2. QED
    BY <1>1, <2>1, StillStep
<1>8. QED
  BY <1>2, <1>3, <1>4, <1>5, <1>6, <1>7 DEF TrainNext

LEMMA TrainInvAlways ==
    ASSUME SharedSwitchesConflict, SharedSignalsConflict, ApproachFirst
    PROVE  TrainSpec => []TrainInv
<1>1. TrainInit => TrainInv
  BY TrainStart, RoadInit
  DEF TrainInit, TrainInv, StandingOccupied, Standing, InsideIsSet, NoneAhead,
      Alone, NoCollision
<1>2. TrainInv /\ ConflictingLocksExclude /\ [TrainNext]_trainVars => TrainInv'
  BY TrainInvInductive
<1>3. QED
  BY <1>1, <1>2, ConflictingLocks, TrainsUseInterlocking, PTL DEF TrainSpec

(* Trains never meet, however many there are, on any yard where routes that *)
(* share a switch or a home signal conflict and a path that lists the       *)
(* approach section begins with it.                                         *)
THEOREM TrainsApart ==
    ASSUME SharedSwitchesConflict, SharedSignalsConflict, ApproachFirst
    PROVE  TrainSpec => []NoCollision
<1>1. TrainInv => NoCollision
  BY DEF TrainInv
<1>2. QED
  BY <1>1, TrainInvAlways, PTL

(* The road in front of a train stays locked, and its switches stay in      *)
(* position in front of it and under it, on any such yard.                  *)
THEOREM RoadsStaySet ==
    ASSUME SharedSwitchesConflict, SharedSignalsConflict, ApproachFirst
    PROVE  TrainSpec => []RoadStaysSet
<1>1. TrainInv => RoadStaysSet
  <2> SUFFICES ASSUME TrainInv, NEW t \in trains, t.road # None
               PROVE  /\ \A i \in AheadOf(t) : secLock[Path[t.road][i]] = t.road
                      /\ \A w \in Required(t.road) :
                             swLock[w] = t.road /\ swPos[w] = Needs[t.road][w]
    BY DEF RoadStaysSet
  <2>1. /\ t.road \in Route /\ SetAhead(t) /\ SetUnder(t)
        /\ Front(t) \in Section
    BY InsideFacts
  <2>2. HoldsLock(t.road)
    BY <2>1 DEF SetUnder, HoldsLock
  <2>3. Required(t.road) \subseteq Switch
    BY <2>1, NeedsAssumption DEF Required
  <2>4. \A w \in Required(t.road) :
            swLock[w] = t.road /\ swPos[w] = Needs[t.road][w]
    BY <2>1, <2>2, <2>3, NoneAssumption
    DEF TrainInv, RoadInv, HolderInv, HolderHoldsSwitches, LockInv,
        LockedSwitchesInPosition
  <2>5. QED
    BY <2>1, <2>4 DEF SetAhead, Fresh
<1>2. QED
  BY <1>1, TrainInvAlways, PTL
=============================================================================
