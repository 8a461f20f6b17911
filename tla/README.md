# A verification project for railblock

`railblock` is the server of a railway interlocking: it keeps the track sections,
switches, signals and routes of stations in SQLite, sets and releases routes over
an HTTP API, follows trains by occupy and clear reports, and recovers its state
from an event log when it starts. This directory holds TLA+ modules of that
interlocking, the TLC runs that check them on small yards, and TLAPS proofs of
the main results for every yard.

Paths below are relative to `src/`. `PROJECT.json` lists components, runs,
mutants, findings, hazards and theorems, and maps every definition to the lines
of code it models.

## 1. The system

### Components, their state and operations

| component | code | state | operations |
|---|---|---|---|
| station model | `internal/model` | types only | `IsLocked`, `Opposite`, `SectionIDs`, `RequiredPositionOf`, delays per route kind |
| route table | `internal/routeplan` | routes and two-way conflict adjacency, built anew for every snapshot | `Add`, `Conflicts`, `ConflictsOf`; `Remove`, `FindByTerminal` (unused) |
| interlocking rules | `internal/interlocking` | none (pure) | `CheckEstablish`, `CheckSwitchMove`, `ThreePointRelease`, `DecideCancel`, `OnApproachOccupied` (unused) |
| signal aspects | `internal/signaling`, `service/signal_helper.go` | `signals.aspect` | `ComputeAspect`, `AspectForOpen`, `refreshSignal` |
| train movements | `internal/trainops`, `service/train_service.go` | occupancy, once-occupied marks | `Occupy`, `Clear` through `ApplyMove` and `applyMove` |
| route service | `service/route_service.go` | route states, locks, bindings, timers | `DefineRoute`, `Establish`, `Cancel`, `CompleteDelayedCancel`, `AbandonDelayedCancel` (unreachable), `FaultUnlock` |
| switch service | `service/switch_service.go` | switch position and indication | `Reverse`, `SetIndication` |
| restart recovery | `service/diagram_reconcile_service.go`, `main.go` | what it has read: a replayed log, the rows, the timers | `ReconcileAll` at the start and on `POST /admin/rebuild`, `GET /admin/reconcile-report` |
| event log | `store/event_store.go` | `events` | `AppendEventJSON`, `ListEventsByStation` |
| store | `internal/store` | all tables of `schema.go` | one row writer per column, `InTx` |
| yard loading | `service/loadyard.go` | none | builds the snapshot every operation reads |
| station view | `service/diagram_reconcile_service.go` | none | `StationView`, read only |
| clock | `internal/clock` | wall time, or the fake time of the tests | `Now`, `Advance` |
| HTTP API | `internal/httpapi` | none | handlers, one service call each |
| identifiers, self-check, web files, trains and block sections | `idlib`, `selfcheck`, `webfs`, `store/train_store.go` | not read by a rule | |

The handlers call the services. A service method opens one IMMEDIATE transaction
(`store.InTx`; the pool has a single connection), loads the yard in it, asks the
pure rules, writes rows, appends events, and commits; an error rolls everything
back. Recovery is the exception: it reads the log, then the rows, then writes one
transaction per correction and one per overdue cancel. At the start it runs before
the server listens; as a rebuild it runs among other requests. The process keeps
nothing else between two requests. So the interleavings that exist are those of
whole methods, of train reports in any order, of time, of the steps of a recovery
with crashes or with requests, and of the trains on the track, which the code
does not see but through reports.

### What is hard, and what makes the parts correct

- *Route table*: the conflict relation. Every snapshot builds its table anew and adds
  each route once, so the edges are the relation; nothing maintains them over time.
- *Rules and route service*: locks are ownership columns on rows that several
  routes mention. No sequence of establishments, cancels, releases and
  fault-unlocks may leave a lock without owner, lock a switch in the wrong
  position, or let conflicting routes hold locks together.
- *Signals*: the aspect is denormalized, written by five operations, recomputed
  by two, and recomputed once more for the view; an open signal must show a route
  that is locked, clear and indicated, and be shown as it is.
- *Train movements*: `ApplyMove` keeps one approached and one completed route
  while it ranges over a Go map in random order; three-point release trusts marks
  made by earlier reports. What counts is the train: nothing may be released or
  moved under it or in front of it, and its route must be free behind it.
- *Timed cancel*: races with the train, with manual completion, with restarts, and
  ends only if somebody completes it or runs recovery.
- *Recovery*: rewrites the route states from the log and leaves locks, signals and
  marks alone; they must still fit, wherever the process stops in between, and it
  must not undo what is committed while it runs.
- *Event log*: replayed in the order of texts, written in the order of time.

## 2. The modules

| module | models |
|---|---|
| `Yard` | the static part of a station: sections, switches, signals, route definitions, conflicts, and the assumptions on them |
| `Interlocking` | every state-changing operation of the services, over `Yard` |
| `Recovery` | `Interlocking` with the replay of the log as one step |
| `RouteLocking` | abstract: routes are set and given up, conflicting ones never together, no switch moves under a set route |
| `Server` | the process: `Establish` as a transaction, recovery in its steps, crashes, rebuilds |
| `TrainRun` | trains that run on the track and cause the reports, operators who keep rules |
| `StationView` | the aspects a station diagram shows |
| `EventLog` | timestamps as texts, and the order they list events in |
| `Claims` | what comments say of the program and the program does not do |
| `InterlockingProofs` | theorems about locks and positions |
| `BindingProofs` | theorems about bound routes, open signals and the view |
| `ReleaseProofs` | theorems about cancels, marks and sectional release |
| `PromiseProofs`, `RouteLockingProofs` | the implementation of `RouteLocking`, and what that promises |
| `RunProofs` | theorems about trains |
| `ServerProofs` | theorems about the steps of the process |
| `MCYards`, `MCInterlocking`, `MCRecovery`, `MCServer`, `MCTrainRun`, `MCClaims` | the yards and instances TLC runs on |

`Recovery` extends `Interlocking` extends `Yard`; `TrainRun` and `Server` extend
`Recovery`; `StationView` extends `Interlocking`, and `MCRecovery` puts it beside
`Recovery`. There are two refinements:

- `Recovery` instantiates `RouteLocking` with `held <- {r : HoldsLock(r)}` and
  `pos <- swPos`: the interlocking implements the promise.
- `Server` instantiates `Recovery` with the route states that are visible from outside
  (`routeState <- Shown`): the steps of the process implement the atomic methods, and
  all the corrections of a start one `Replay`.

Both are checked by TLC and proved (`Implementation`, `Atomicity`).

`EventLog` stands alone.

### State and actions against the code

| variable | column |
|---|---|
| `routeState` | `routes.state`, `"absent"` before `DefineRoute` |
| `occupied` | `sections.occupied` |
| `secLock`, `swLock` | `sections.locked_by_route`, `switches.locked_by_route` (`locked` is always written with it) |
| `swPos`, `swInd` | `switches.current_position`, `has_indication` |
| `aspect`, `protects` | `signals.aspect`, `protects_route_id` |
| `once` | rows of `route_section_occupied` |
| `timer` | row of `delay_unlock_timers`: how much of `delay` is left, that is `delay - (now - started_at)`, 0 when it has elapsed |
| `logged` | what `replayEvents` computes for the route from the `events` table |

| action of `Interlocking`, `Recovery` | code |
|---|---|
| `DefineRoute`, `Establish`, `CompleteDelayedCancel`, `FaultUnlock` | the methods of the same names |
| `CancelImmediate`, `CancelTimed` | the two branches of `Cancel` on `DecideCancel` |
| `Reverse`, `SetIndication` | the methods of `SwitchService` |
| `Occupy`, `ClearSection`, `ClearTerminal` | `applyMove` of an occupy report, of a clear report, of a clear report that completes a route (`releaseNormal`) |
| `Tick` | time passing |
| `Replay` | the corrections of `ReconcileAll`; the cancels it completes afterwards are `CompleteDelayedCancel` |

| variable of `Server` | stands for |
|---|---|
| `tx` | the open transaction: its route, the rows as it sees them, the next statement |
| `starting` | `main` has not come to `ListenAndServe` |
| `phase`, `log0`, `todo`, `due` | the local variables of `ReconcileAll`: where it is, the replayed states, what is left to do, the route whose timer it has read and found elapsed |
| `saved` | history: the route states that the corrections of this start found |

| action of `Server` | code |
|---|---|
| `BeginEstablish`, `MoveSwitches`, `LockElements`, `SetEstablished`, `OpenSignal`, `MarkFailed` | the writes of `Establish`, in their order |
| `Commit`, `Rollback` | `InTx` |
| `ReadLog`, `ReadRows`, `Correct`, `ListTimers`, `ReadTimer`, `CompleteDue`, `Finish` | `ReconcileAll`, statement by statement; the transactions of `Correct` and `CompleteDue` are one step each |
| `Crash`, `StartRebuild`, `AbandonRebuild` | the process ends and is started; the rebuild handler; its context is cancelled |
| `Serve` | one of the methods that stay single steps |
| `Clock` | time passes, whatever the process is doing |

In `TrainRun`, `trains` holds the sections each train stands on and the route whose
signal it has passed. `Arrive`, `PassSignal` and `Advance` move a train and report
the section it enters (`Occupy`); a train at the end of one route goes on by
`PassSignal` when the next begins there; `RearClears` and `Depart` only move it.
`ReportClear` comes at any time after the train has left and before the next one
enters, and `ReportOccupied`, `ReportClear` may be repeated as long as they are true.
Two kinds of report are not made: an occupy report that arrives after the train has
gone further, and a clear report that arrives after the next train has entered. Both
contradict the track, `TrainService` takes them as they come
(`internal/service/train_service.go:29`), and nothing in the code could hold them off.
(`Interlocking` alone, in the runs `line` and `recovery_fork`, takes any report at any
time.) Everything else is a method of the code under a rule:

| rule | keeps out | because |
|---|---|---|
| `RouteRule` | cancels and fault-unlocks of a route with a train in it | nothing abandons such a cancel, the locks go under the train (`claim_abandon`) |
| `IndicationRule` | regaining an indication while a route over the switch is in a locking state without its sections, or has a delay timer, or has been run through | the refresh opens its signal (`claim_open_signal`), in the last case over marks of a train that has left |
| `RecoveryRule` | a replay that disagrees with the rows on whether a route is in a locking state | it revives routes that have no locks (`claim_recovery`) |

Without any one of them TLC finds `RoadStaysSet` violated on Merge; the last clause of
`IndicationRule` matters on other yards only (see *Run through* below). They are rules
*for operators*: the code enforces none of them. What they leave — late clear reports,
repeated reports, cancels in front of a train, indication losses, phantom approach locks,
recoveries — the code withstands.

### Abstractions

- Identifiers are model values; the order of a route's sections is a sequence.
  Names, codes, texts of errors, train rows and their positions are left out: no
  rule reads them. `Terminal` is the last section of the path, as in
  `ThreePointRelease`, not the `terminal` column, which no rule reads.
- One station, alone in its database. No rule relates the elements of two stations, but
  recovery does: it makes one pass for each station, and each pass lists the timers of
  all of them (`store/event_store.go:123` selects by `completed=0` alone), so that the
  pass of another station may complete a cancel of this one before its log is replayed.
- Sections, switches and signals exist from the start; routes are defined at any
  time, once each. References are valid, as `DefineRoute` checks.
- The event log is `logged`, the state its last replayed event gives the route, in
  the order of appending. That the code replays in another order is modelled apart,
  in `EventLog`; the other modules describe a server in whose zone the orders agree.
- The code stores when a delay started and compares the time elapsed since with the
  delay; `timer` is the difference, and stays 0 when it is over, since nothing tests by
  how much. Delays are 0 to 2 in the runs.
- Where Go's map order decides (the route to mark, the route to approach-lock, the
  completed route, the last signal refresh), the model chooses any of them.
- A rejected call changes nothing. For a refused `Establish`, which writes a state
  `failed` and an event before it returns the error, `Server` models how they are rolled
  back; that its comments promise the opposite is the run `claim_failed`.
- A repeated `SetIndication` of the same value returns early and changes nothing: the
  guard `swInd[w] # ok` leaves it out.
- `Server` splits `Establish`, the longest method and the only one that writes
  before it fails; the others are single steps by the same argument. The `Rollback`
  of a switch that turns out not to move needs a lock on it that
  `CheckEstablish` does not see; no behaviour has one.
- A commit lasts. (With `synchronous=NORMAL` a power failure may lose the last
  commits, always a suffix of them, so that rows and log still agree.)
- Trains in `TrainRun` are shorter than any section, keep to open signals, and do not
  turn back. From the open line a train comes onto a free approach section only, one
  that belongs to no route. Of two routes from one signal a train runs over the one that
  is set, since the switches lie for it. A train obeys a signal at the moment it changes:
  the distance it needs to stop, for which the delay of a cancel is there, has no model.
- `StationView` reads everything in one step.

## 3. The runs

The bounds are the yards (`MCYards`), `MaxTrains` = 2 in `TrainRun`, and the instants
and events of `EventLog`; no other counter exists but `timer`, which starts at
`Delay` and is 0 when the delay has elapsed.

- *Line*: a three-section route and an opposing shunt over two of its sections that
  lists its approach section in its path. Three sections are what three-point release
  needs for every one of its cases.
- *Fork*: two routes from one signal that diverge over a switch. The smallest yard
  with conflicting routes, opposed switch positions, a shared signal and a shared
  approach.
- *Face*: two routes that meet on one section, for the steps of the process. It has no
  switch, which multiplies the states and adds nothing to the order of the
  steps: `MoveSwitches` writes to the same staged rows as the steps after it.
- *Merge*: two routes from two signals over a trailing switch to one platform: the
  smallest yard where trains can meet, with a shared terminal.
- *Crossover*: two routes that need the same switch in the same position and do not
  conflict.
- *Stub*: one route of one section.

| run | specification | yard | distinct states | shows |
|---|---|---|---|---|
| `line` | `Spec` | Line | 136,348 | conflicting locks exclude, freed sections are clear, marks are of this establishment, timed cancels have timers, approach locks are kept |
| `recovery_fork` | `RecoverySpec` | Fork | 263,052 | owners, positions, bindings, open signals, with replays at any time; the view shows open signals as they are; `RouteLocking` is implemented |
| `server` | `FairServerSpec` | Face | 278,056 | `Recovery` is implemented by transactions and recoveries that crash anywhere; a process that serves has every state as the log replays it; a timed cancel ends |
| `train_run` | `FairTrainSpec` | Merge, 2 trains | 92,864 | trains do not meet, the road stays set in front of them, a train releases its route |

Two trains are enough to meet; a third could only meet one of the two in the same
way. Two routes are enough for every step in which one route disturbs another, since
no method touches more than the route it is called for, one it conflicts with, and
the ones a movement completes or approaches. Sequences of such steps may involve more
routes (*Run through* below needs three); what depends on them is covered
by the proofs, which hold for every yard.

Every property has a mutant: a faulty variant of a definition, kept in the module
next to it, with which TLC finds the property violated.

*Seen from outside* (`StepsAreAtomic`): while a starting process corrects route states one
by one, those it found stand for them (`saved`). A recovery that crashes half-way, is
begun again, and crashes again, must in the end have made one `Replay` of what the first
crash left, and complete only cancels that this replay leaves cancelling. `StartConverges`
says where it must have arrived when the process serves, whatever cancels it completed
in between: no stored state differs from the log. The mutant of both lists the timers
before the last correction is written, as a loop that merges the two passes would.

What the runs do not see, although a property's name may suggest it:

- `CancellingHasTimer` and `ApproachLockRespected` compare states. A timed cancel that is
  completed before its delay satisfies both, and a route that is never approach-locked
  (below) satisfies the second.
- `LockedSwitchesInPosition` on Fork never meets a lock that is taken over, since the two
  routes need opposite positions. The theorem `SwitchesInPosition` covers the case.
- In `recovery_fork` the routes that share a signal diverge, so that the refresh for one
  of them can only close the signal of the other; nested routes are told of below.

`BoundRouteHoldsSwitches` is not checked on Crossover, where it fails for the
reason given under `claim_established` below.

### Disagreements between comments and code

Each is a run that expects a violation; TLC's counterexample is told in short.

| run | yard | comment | what happens |
|---|---|---|---|
| `claim_established` | Crossover | `model.go:145`: switches locked while established | Both routes are established; the second takes over the lock of the switch, which needs no move; it is cancelled and frees it; the first is established over an unlocked switch. |
| `claim_approach` | Fork | `model.go:148`: approach-locked is an established route with a train on its approach | r1 is established, r2 only defined; a train enters the common approach section; `ApplyMove` approach-locks r2 and leaves r1 established. |
| `claim_open_signal` | Stub | `signaling.go:3`: red unless its route is established with switches locked | r1 is only defined; its switch loses the indication; a train on the approach makes r1 `approach_locked`; the indication returns and the refresh opens the signal, with nothing locked. |
| `claim_abandon` | Stub | `model.go:152`: the cancel is abandoned if the train passes | `ApplyMove` never sets `AbandonCancelRoute`; the route stays cancelling with the train in it. |
| `claim_failed` | Face | `route_service.go:39`: a refused route is set `failed`; `:66`: the failure is recorded; `model.go:162` | A section of r1 is occupied and its `Establish` is refused; it writes `failed` and the event, returns the error, and `InTx` rolls both back. No route is ever `failed`, and no refusal is in the log. |
| `claim_recovery` | Stub | `diagram_reconcile_service.go:97`: recovery converges to the state of the events | r1 is established and cancelled at once, which leaves the event `cancel_requested`; a replay makes it `cancelling`, without a timer. Approach locks and fault-unlocks leave no replayed event at all, and are forgotten. |
| `claim_rebuild_race` | Stub | `model.go:177`: `IsLocked` tells whether a route holds locks | A rebuild reads the log, in which r1's timed cancel is complete; r1 is established again; the rebuild reads the rows and writes `cancelled` over the route that holds its locks. |
| `claim_event_order` | `Zone` = `"Z"`, 2 binary digits, 3 events | `event_store.go:43`: events in timestamp order | An event on the full second is stamped without a fraction, `…0Z`, and listed after one stamped `…0.01Z`, because `.` sorts before `Z`. |

`EventLog` has two digits of base 2 where the code has nine decimal ones: the order of
texts is decided at the first character that differs, and two digits give
every case of dropping none, one and all. With `Zone` `"+"` or `"-"`, which sort
before the point and the digits, TLC finds `ListedInTimeOrder` to hold.

Met while modelling, of the same kind, without a run of their own:

- `CompleteDelayedCancel` does not look at the timer, although `route_service.go:192`
  says the delay has elapsed; `POST /routes/{id}/complete-cancel` serves it at once.
- *Nested routes*: of two routes `<<x>>` and `<<x, b>>` from one signal over one position
  of a switch, the longer is set, and the shorter defined only. The switch loses its
  indication, a train comes on the approach, and the shorter route is approach-locked.
  When another train is on b and the indication returns, both are refreshed, in map order;
  if the shorter comes last, it opens the signal to which the longer is bound and whose
  section b is occupied. TLC finds this, and it is the root of `claim_open_signal` again:
  the refresh (`switch_service.go:82`) does not ask to which route the signal is bound.
- A `CompleteDelayedCancel` after the refresh of a cancelling route has reopened its
  signal unbinds the signal without closing it.
- An occupy report of the approach section that comes again during the timed cancel
  makes the cancelling route `approach_locked`; its timer runs on and is of no use.
- A route that was never set but is approach-locked can take the once-occupied marks
  of a train in a conflicting route, which then never completes. `TrainReleasesRoute`
  excepts this case. On Line, the phantom blocks the other route's next
  establishment until it is cancelled with the full delay.
- *Run through*: a route keeps the lock of a section that a train has run over when
  another, phantom route over that section has taken the train's mark; nothing
  releases it, and when the train has gone the route is still bound and locked. An
  indication that is lost and regained then opens its signal again, for a second train,
  and the marks of the first let the phantom release sections in front of it. It takes
  three routes (`<<x, y>>`; `<<x, y, b>>` from the same approach; `<<b>>` from another)
  and 17 steps. The proof of `RoadsStaySet` failed here, and TLC showed why; the last
  clause of `IndicationRule` keeps it out.
- Two routes that end on one section can both be completed by one clear report. Both
  are unlocked and one is given up; the other stays in a locking state and, when set
  again, can lose a section under a train. `FreedSectionIsClear` excepts the clear report
  that completes two routes (`OtherCompleted`) for this reason; without the exception TLC
  finds it violated on Merge. What becomes of the trains there is the run `train_run`.
- `FaultUnlock` writes no event that is replayed: after a recovery the route is
  established again, without locks, perhaps next to a conflicting route set meanwhile.
- Recovery takes a route that was approach-locked without being set back to its
  terminal state and keeps its once-occupied marks, so that with restarts
  `OnceSinceEstablished` fails. The run `line` checks it without restarts.
- `StationView` shows the signal of a cancelling route open, although it is closed.
  `OpenSignalsAreShown` is stated for open signals only.
- `CheckSwitchMove` looks at the occupancy of the switch's section, not at its lock,
  although `model.go:204` says "unoccupied and unlocked": a switch that a route
  traverses without naming it can be moved under the route.
- `ReconcileAll` says it corrects signal aspects, locks and occupancy; it corrects route states.
- No background task completes an overdue timed cancel.

### Fairness

The safety runs use none. The code has no background task: it guarantees that a
request that is served is answered, and nothing else happens by itself.

`FairServerSpec` says what its operators must do for a timed cancel to end: the clock
runs (`WF` of `Clock`: time passes whether or not the process is up), the process is
stopped and started again and again (`WF` of a `Crash` of a serving process), and it does
not crash for ever while it starts (`[]<>(~starting)`). The crashes during recovery are
not restricted otherwise.
Nothing is assumed of clients: in particular nobody need call `complete-cancel`.
`CancelEnds` speaks of cancelling routes that have a timer; those that a recovery
makes without one (`claim_recovery`) never end by themselves.

`FairTrainSpec` is about the world outside: a train that can go on goes on, and
some section that is stored as occupied and is free is reported clear, as long as
there is one. Operators, time and recoveries have no fairness, so that
`TrainReleasesRoute` holds whether or not anybody intervenes.

## 4. The proofs

The theorems hold for every yard that satisfies the assumptions of `Yard`: `None` is
no element, a path is a non-empty repetition-free sequence of sections, and the
definitions are well typed. Those about `RecoverySpec` include recoveries, and hold of
`Spec`, whose behaviours are among its own, of `TrainSpec` (`TrainsUseInterlocking`), and
of what a `ServerSpec` shows to the outside (`Atomicity`).

What some theorems assume further are readings of a yard that `DefineRoute` does not
check, named in `Yard`:

- `SharedSwitchesConflict`: routes that require the same switch conflict. True of a
  yard where a switch lies on the path of each route that requires it; false where
  routes require a switch outside their path for flank protection (Crossover).
- `SharedSignalsConflict`: so do routes from the same signal.
- `SignalsTellRoads`: of two routes from the same signal either both are one road, defined
  twice, or they require a switch in opposite positions. False of nested routes (above),
  for which `OpenSignalIsSafe` is false, too.
- `ApproachFirst`: a path that lists the approach section begins with it and goes on, as
  `model.go:265` says of seq 0.

The yards that `internal/selfcheck` builds satisfy all four: single routes, and in
`scenario_conflict.go` two routes with one path, one signal and one terminal. So do Fork,
Line, Merge, Face and Stub. Routes may share signals, approaches and terminals, and a
route may begin on the section where another ends, or on its own approach.

| theorem | of | establishes | assumes further |
|---|---|---|---|
| `TypeCorrect` | `RecoverySpec` | `TypeOK` | |
| `LocksOwned` | `RecoverySpec` | `LocksHaveOwners` | |
| `SwitchesInPosition` | `RecoverySpec` | `LockedSwitchesInPosition` | |
| `ConflictingLocks` | `RecoverySpec` | `ConflictingLocksExclude` | |
| `BoundSwitches` | `RecoverySpec` | `BoundRouteHoldsSwitches` | `SharedSwitchesConflict` |
| `OpenSignals` | `RecoverySpec` | `OpenSignalIsSafe` | `SharedSwitchesConflict`, `SignalsTellRoads` |
| `SignalsShown` | `RecoverySpec` | `OpenSignalsAreShown` | `SharedSwitchesConflict`, `SignalsTellRoads` |
| `Implementation` | `RecoverySpec` | it implements `RouteLocking` | `SharedSwitchesConflict` |
| `SafeRoutes` | `RouteLocking` | what it promises | `SharedSwitchesConflict` |
| `ReleaseBehindTrains` | `RecoverySpec` | `FreedSectionIsClear` | |
| `TimersOfCancels` | `Spec` | `CancellingHasTimer` | |
| `MarksStartFresh` | `Spec` | `OnceSinceEstablished` | |
| `ApproachLocks` | `Spec` | `ApproachLockRespected` | |
| `TrainTypes` | `TrainSpec` | `TrainTypeOK`, for any number of trains | `ApproachFirst` |
| `TrainsUseInterlocking` | `TrainSpec` | `RecoverySpec` | `ApproachFirst` |
| `TrainsApart` | `TrainSpec` | `NoCollision`, for any number of trains | `SharedSwitchesConflict`, `SharedSignalsConflict`, `ApproachFirst` |
| `RoadsStaySet` | `TrainSpec` | `RoadStaysSet`, for any number of trains | `SharedSwitchesConflict`, `SharedSignalsConflict`, `ApproachFirst` |
| `ServerTypes` | `ServerSpec` | `ServerTypeOK` | |
| `Convergence` | `ServerSpec` | `StartConverges` | |
| `Atomicity` | `ServerSpec` | `StepsAreAtomic`: it implements `RecoverySpec` | |
| `ProcessLocks` | `ServerSpec` | `LocksHaveOwners`, `LockedSwitchesInPosition`, `ConflictingLocksExclude` | |
| `ProcessBoundSwitches` | `ServerSpec` | `BoundRouteHoldsSwitches` | `SharedSwitchesConflict` |
| `ProcessSignals` | `ServerSpec` | `OpenSignalIsSafe` | `SharedSwitchesConflict`, `SignalsTellRoads` |
| `ProcessImplementation` | `ServerSpec` | it implements `RouteLocking` | `SharedSwitchesConflict` |
| `RebuildKeepsSwitches` | `RebuildSpec` | `LockedSwitchesInPosition` | |

*The locks.* The inductive invariant is `LockInv`: types, `LocksHaveOwners`,
`LockedSwitchesInPosition` and `LockHoldersLogged` (the log knows a route that
holds a lock as established or cancelling). The last conjunct is what recoveries need: `Replay`
sets the state to the logged one, and without it the owner of a lock might be taken
out of its locking state. `ConflictingLocks` follows with the lemma
`LocksOnlyByEstablish`: a route that holds no lock gets one in no other way, and
`Establish` refuses while a conflicting route is in a locking state, which by
`LocksHaveOwners` every lock holder is.

*The signals.* `BoundInv` adds that the route a signal is bound to starts there, is
locked and logged as such. Where any two routes over one switch conflict
(`SharedSwitchesConflict`), no lock is stolen, and a bound route keeps its switches.
`OpenSignals` has to exclude that the refresh for one route opens the signal while it is
bound to another. By `SignalsTellRoads` the two routes are one road, and then the refresh
has looked at the switches and sections of the bound route, too; or they oppose each
other at a switch, which the bound route holds in its own position (`BoundSwitches`), so
that the refresh for the other shows red.

*The view.* `SignalsShown` rests on both. The route of an open bound signal is locked
(`BoundInv`), clear, indicated (`OpenSignals`) and in position (`BoundSwitches`), so that
the view computes its open aspect; any other route the view may choose shows the same, or
red. That the stored aspect of a bound signal is red or the open one of its route
is an invariant of its own, `AspectOfBound`.

*The implementation.* `HolderInv` adds that whoever holds any lock holds all its
switches. A step of `Establish` is `Set`, `Reverse` is `Move`, all others are
`Release` or stutter, since locks are gained by `Establish` alone. With
`SafeRoutes` the interlocking inherits that set routes never conflict and have
their switches in place.

*Cancels.* `CancelInv` is the inductive invariant without restarts: types,
`CancellingHasTimer`, and `MarksOfLocked` (a route at rest has no marks). From the last,
an `Establish` starts on no marks, and nothing in between adds one outside a movement.
`Replay` breaks both conjuncts, as told above, and this is why the three theorems
are about `Spec`. `ApproachLocks` is an action property that follows from the guards
of the methods once the cases of `Next` are taken apart.

*Release.* `ReleaseBehindTrains` shows that each way a movement frees a section of a
route leaves it behind the train: the rules of `ThreePointRelease` free what is one
or two places behind and neither occupied nor entered, or the section just left. The
completion of a route frees all its sections, but the route is then given up, which the
property excepts. Where two routes end on one section, one
report may complete both and give up one: the property excepts this step for the other
route, and for none that ends elsewhere. No assumption on the yard is left.

*The trains.* A step of a train is an `Occupy`, a clear report, or nothing for the
interlocking, so `TrainSpec` implies `RecoverySpec`. The invariant for `TrainsApart` and
`RoadsStaySet` has two layers:

- `RoadInv` is about the interlocking alone, under the rules (`Ruled`). It adds to the
  invariant of the implementation that marks lie on the path of a route in a locking state,
  that a cancel is logged, and timed while the route holds sections, and `OpenIsSet`: an
  open signal has a route that is *ready*, logged as established, with every section of
  its own clear and *fresh*, that is locked for it and without the mark of any route. The
  marks matter because `ReleasedBehind` frees what any route over the section has marked:
  fresh sections stay fresh until a train enters them or their route is given up
  (`FreshStays`). Where the proof that a regained indication keeps `OpenIsSet` needed it,
  `IndicationRule` got its last clause.
- `TrainInv` adds the trains: they stand on occupied sections (`StandingOccupied`), one to
  a road (`Alone`); the route of each holds the section under its front, and in front of
  it the road is fresh (`InsideIsSet`) and free of trains (`NoneAhead`). A train passes a
  signal that is open, so some route from it is ready. It is the one the train runs over:
  the train prefers one that is set, and since routes that share a signal conflict, no
  other holds locks. A ready road is not occupied, hence nobody stands on it, and no train is
  inside the route, for the section under its front would be occupied. A train that waits at
  the end of one road for the next is one of them, and needs no case of its own.

No bound on the number of trains is used: the theorems hold for every `MaxTrains`.

*The process.* `TxInv` says that an open transaction holds the rows as they were with
the writes up to its next statement (`Staged`), that what it has checked still holds, and
that nobody else writes meanwhile; hence `Commit` is `Establish`. `StartInv` is about a
start: while it corrects, every route state is the one found (`saved`) or the one to
come (`Goal`, which the log decides and the corrections do not change); what has been
read of the log is still the log, since nobody else writes before the process serves; and
a route that is passed over, or done with, is right. So at `ListTimers` all states are as
replayed: the step is the `Replay` that is seen from outside, and every other step of
the job but `CompleteDue` is invisible. A crash keeps `StartInv`, with the same `saved`
while it corrects, and with the states as they are once they have been replayed. A
completed cancel is logged as cancelled in the transaction that makes it so, hence
nothing is left to replay when the process serves (`Convergence`). No method
runs while states are hidden, but `Clock` does. The lemmas `SameStation`, `SameRules` and
`SameRouteStep` to `SameTrainStep` carry the single steps over to the instance.

*Between two statements.* `StepsAreAtomic` says nothing of the rows while the process
starts. A second crash, or an operator who opens the database, finds them partly
corrected. That the invariants hold even then is proved directly: each step of the process
is a step of `Recovery` or one `Correct` (`RowsStep`), and a correction at a start writes
the state that the log has *now*, which is a locking state for every route that holds a
lock or a signal (`LockHoldersLogged`, `BoundRouteIsLocked`). This is what a rebuild beside
other requests loses, as `claim_rebuild_race` shows; positions of locked switches are
safe even so (`RebuildKeepsSwitches`), since what lets a switch move is its own lock and not
the state of a route.

Only model-checked: the liveness properties `TrainReleasesRoute` and `CancelEnds`, which
are outside what the proof system supports. Every other property of a passing run
is stated by a theorem. The properties of the violated runs are, of course, not proved.

## 5. Not modelled

- `Table.Remove`, `FindByTerminal`, `OnApproachOccupied`, `AbandonDelayedCancel`: nothing
  in the program calls them, or nothing that can happen does.
- Train and block-section rows: no rule reads them. The trains of `TrainRun` are those
  on the track.
- A statement that fails while others of its transaction succeed: the code ignores the
  errors of `AppendEventJSON`, and `main` serves after a recovery that failed. Both
  need a database that fails.
- A diagram read in several statements with a method committed in between: nothing is
  decided from it.
- HTTP, JSON and tokens; `idlib`; `selfcheck` (scenario tests); `webfs`; the fake
  clock, which only its own tests use; creation of elements at run time; a second
  station.

## 6. Plan

Done: everything in sections 2 to 4. What could follow, in this order:

1. The safety part of `TrainReleasesRoute` for every yard: a tracked train keeps its marks
   unless a conflicting route is in a locking state.
2. A run with trains that go on from one route to the next: the theorems `TrainsApart` and
   `RoadsStaySet` cover it, the yard of `train_run` does not.
3. Two stations in one database, for the timers that each pass of a recovery lists.
4. Rows that fail to be written, when the code starts to look at the errors of
   `AppendEventJSON`.
