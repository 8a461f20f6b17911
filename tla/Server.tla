------------------------------- MODULE Server -------------------------------
(***************************************************************************)
(* The server process around the interlocking: what Interlocking and       *)
(* Recovery take as one step, in the steps the process makes of it.        *)
(*                                                                         *)
(* Two things take several steps.  Establish stages its writes in an       *)
(* IMMEDIATE transaction that is committed or rolled back as a whole       *)
(* (store/db.go InTx); the pool has one connection, so that every other    *)
(* access to the database waits for it.  ReconcileAll reads the event log, *)
(* then the route rows, then writes one transaction for each correction,   *)
(* then lists the timers, reads them one by one and completes the cancels  *)
(* that are due, each in a transaction of its own.  The process may crash  *)
(* between any two of these steps, and time passes all along.              *)
(*                                                                         *)
(* At the start main runs ReconcileAll before it serves requests.  The     *)
(* POST /admin/rebuild and GET /admin/reconcile-report handlers run it     *)
(* while other requests are served, and give it up when the client goes.   *)
(*                                                                         *)
(* Abstractions: the remaining methods are single steps, by the argument   *)
(* that this module checks for Establish.  The station is alone in its     *)
(* database: ReconcileAll makes one pass for each station, and each pass   *)
(* lists the timers of all of them (ListPendingDelayTimers has no WHERE    *)
(* for the station), so that the pass of another station may complete a    *)
(* cancel of this one before its log has been replayed.                    *)
(***************************************************************************)
EXTENDS Recovery

VARIABLES
    tx,       \* the open transaction of an Establish, or NoTx
    starting, \* main is still in ReconcileAll: no request is served
    phase,    \* where ReconcileAll is, "idle" when it is not running
    log0,     \* the states it has replayed from the log it read
    todo,     \* the routes it has still to correct, or to look at
    due,      \* the route whose cancel it has found due, or None
    saved     \* history: the route states it found when it started

job == <<phase, log0, todo, due>>
serverVars == <<vars, tx, starting, job, saved>>

NoTx == [step |-> "none"]

(* The rows and the log, as a transaction copies them on its first write.   *)
Rows ==
    [routeState |-> routeState, secLock |-> secLock, swLock |-> swLock,
     swPos |-> swPos, aspect |-> aspect, protects |-> protects,
     logged |-> logged]

NoLog == [r \in Route |-> "none"]

ServerTypeOK ==
    /\ TypeOK
    /\ starting \in BOOLEAN
    /\ phase \in {"idle", "log", "rows", "correct", "timers"}
    /\ log0 \in [Route -> {"none"} \cup RouteState]
    /\ todo \in SUBSET Route
    /\ due \in Route \cup {None}

ServerInit ==
    /\ Init
    /\ tx = NoTx
    /\ starting = FALSE
    /\ phase = "idle" /\ log0 = NoLog /\ todo = {} /\ due = None
    /\ saved = NoLog

-----------------------------------------------------------------------------
(* Establish: internal/service/route_service.go *)

(* The step from of the transaction writes rows and goes on at to.          *)
Stage(from, to, rows) ==
    /\ tx.step = from
    /\ tx' = [tx EXCEPT !.step = to, !.rows = rows]
    /\ UNCHANGED <<vars, starting, job, saved>>

BeginEstablish(r) ==
    /\ ~starting
    /\ tx = NoTx
    /\ Defined(r)
    /\ tx' = [route |-> r, rows |-> Rows,
              step |-> IF CheckEstablish(r) THEN "move" ELSE "refuse"]
    /\ UNCHANGED <<vars, starting, job, saved>>

MoveSwitches ==
    /\ tx.step = "move"
    /\ \A w \in SwitchMoves(tx.route) : CheckSwitchMove(w)
    /\ Stage("move", "lock",
             [tx.rows EXCEPT !.swPos =
                 [w \in Switch |-> IF w \in Required(tx.route)
                                   THEN Needs[tx.route][w] ELSE @[w]]])

LockElements ==
    /\ Stage("lock", "state",
             [tx.rows EXCEPT
                !.swLock = [w \in Switch |->
                    IF w \in Required(tx.route) THEN tx.route ELSE @[w]],
                !.secLock = [s \in Section |->
                    IF s \in OwnSections(tx.route) THEN tx.route ELSE @[s]]])

SetEstablished ==
    /\ Stage("state", "signal",
             [tx.rows EXCEPT !.routeState[tx.route] = "established",
                             !.logged[tx.route] = "established"])

OpenSignal ==
    /\ Stage("signal", "commit",
             [tx.rows EXCEPT !.protects[Source[tx.route]] = tx.route,
                             !.aspect[Source[tx.route]] = OpenAspect(tx.route)])

(* A refused route is marked failed; then the error is returned.            *)
MarkFailed ==
    /\ Stage("refuse", "rollback",
             [tx.rows EXCEPT !.routeState[tx.route] = "failed",
                             !.logged[tx.route] = "failed"])

Write(rows) ==
    /\ routeState' = rows.routeState /\ logged' = rows.logged
    /\ secLock' = rows.secLock /\ swLock' = rows.swLock
    /\ swPos' = rows.swPos
    /\ aspect' = rows.aspect /\ protects' = rows.protects
    /\ UNCHANGED <<occupied, swInd, once, timer>>

Commit ==
    /\ tx.step = "commit"
    /\ tx' = NoTx
    /\ Write(tx.rows)
    /\ UNCHANGED <<starting, job, saved>>

(* InTx rolls back when the method returns an error: after MarkFailed, or   *)
(* when a switch turns out not to move.                                     *)
Rollback ==
    /\ \/ tx.step = "rollback"
       \/ /\ tx.step = "move"
          /\ \E w \in SwitchMoves(tx.route) : ~CheckSwitchMove(w)
    /\ tx' = NoTx
    /\ UNCHANGED <<vars, starting, job, saved>>

TxStep ==
    \/ \E r \in Route : BeginEstablish(r)
    \/ MoveSwitches
    \/ LockElements
    \/ SetEstablished
    \/ OpenSignal
    \/ MarkFailed
    \/ Commit
    \/ Rollback

-----------------------------------------------------------------------------
(* ReconcileAll: internal/service/diagram_reconcile_service.go *)

(* The connection is free for a statement of the job.                       *)
At(p) == phase = p /\ tx = NoTx

ReadLog ==
    /\ At("log")
    /\ log0' = logged
    /\ phase' = "rows"
    /\ UNCHANGED <<vars, tx, starting, todo, due, saved>>

(* Routes without a replayed event are passed over.                         *)
ReadRows ==
    /\ At("rows")
    /\ todo' = {r \in Route : /\ Defined(r)
                              /\ log0[r] \notin {"none", routeState[r]}}
    /\ phase' = "correct"
    /\ UNCHANGED <<vars, tx, starting, log0, due, saved>>

(* Writes the state column of one route, whatever it holds by now.          *)
Correct(r) ==
    /\ At("correct")
    /\ r \in todo
    /\ routeState' = [routeState EXCEPT ![r] = log0[r]]
    /\ todo' = todo \ {r}
    /\ UNCHANGED <<occupied, locks, switches, signals, once, timer, logged,
                   tx, starting, phase, log0, due, saved>>

ListTimersBeforeLast ==
    /\ At("correct")
    /\ todo' = {r \in Route : timer[r] # None}
    /\ phase' = "timers"
    /\ saved' = NoLog
    /\ UNCHANGED <<vars, tx, starting, log0, due>>

ListTimersForgotten ==
    /\ At("correct")
    /\ todo = {}
    /\ phase' = "timers"
    /\ saved' = NoLog
    /\ UNCHANGED <<vars, tx, starting, log0, todo, due>>

ListTimers ==
    /\ At("correct")
    /\ todo = {}
    /\ todo' = {r \in Route : timer[r] # None}
    /\ phase' = "timers"
    /\ saved' = NoLog
    /\ UNCHANGED <<vars, tx, starting, log0, due>>

(* GetDelayTimer, and a look at the clock.                                  *)
ReadTimer(r) ==
    /\ At("timers")
    /\ due = None
    /\ r \in todo
    /\ todo' = todo \ {r}
    /\ due' = IF timer[r] = 0 THEN r ELSE None
    /\ UNCHANGED <<vars, tx, starting, phase, log0, saved>>

(* The cancel is completed, if it has not ended by now: the error of a      *)
(* route that is not cancelling is passed over.                             *)
CompleteDue ==
    /\ At("timers")
    /\ due # None
    /\ due' = None
    /\ IF routeState[due] = "cancelling" THEN CompleteDelayedCancel(due)
       ELSE UNCHANGED vars
    /\ UNCHANGED <<tx, starting, phase, log0, todo, saved>>

Finish ==
    /\ At("timers")
    /\ todo = {} /\ due = None
    /\ phase' = "idle" /\ log0' = NoLog
    /\ starting' = FALSE
    /\ UNCHANGED <<vars, tx, todo, due, saved>>

JobStep ==
    \/ ReadLog
    \/ ReadRows
    \/ \E r \in Route : Correct(r)
    \/ ListTimers
    \/ \E r \in Route : ReadTimer(r)
    \/ CompleteDue
    \/ Finish

-----------------------------------------------------------------------------
(* The process *)

(* What of the route states is seen from outside: while a starting process  *)
(* corrects them one by one, those it has found.                            *)
Shown ==
    IF starting /\ phase \in {"log", "rows", "correct"} THEN saved
    ELSE routeState

(* A crash drops the open transaction; a new process starts its recovery.   *)
Crash ==
    /\ saved' = Shown
    /\ starting' = TRUE
    /\ tx' = NoTx
    /\ phase' = "log" /\ log0' = NoLog /\ todo' = {} /\ due' = None
    /\ UNCHANGED vars

(* The requests that are single steps.                                      *)
Serve ==
    /\ ~starting
    /\ tx = NoTx
    /\ \/ \E r \in Route : \/ DefineRoute(r)
                           \/ CancelImmediate(r)
                           \/ CancelTimed(r)
                           \/ CompleteDelayedCancel(r)
                           \/ FaultUnlock(r)
       \/ \E w \in Switch : SwitchStep(w)
       \/ \E s \in Section : TrainStep(s)
    /\ UNCHANGED <<tx, starting, job, saved>>

(* Time does not wait for the process.                                      *)
Clock == Tick /\ UNCHANGED <<tx, starting, job, saved>>

ServerNext == TxStep \/ JobStep \/ Crash \/ Serve \/ Clock

ServerSpec == ServerInit /\ [][ServerNext]_serverVars

(* The process is stopped and started again and again; it may crash as it   *)
(* starts, but not so often that it never serves, and the clock runs.       *)
FairServerSpec ==
    /\ ServerSpec
    /\ WF_serverVars(Clock)
    /\ WF_serverVars(~starting /\ Crash)
    /\ []<>(~starting)

(* A rebuild that runs while other requests are served.                     *)
StartRebuild ==
    /\ ~starting
    /\ phase = "idle"
    /\ phase' = "log"
    /\ UNCHANGED <<vars, tx, starting, log0, todo, due, saved>>

AbandonRebuild ==
    /\ ~starting
    /\ phase # "idle"
    /\ phase' = "idle" /\ log0' = NoLog /\ todo' = {} /\ due' = None
    /\ UNCHANGED <<vars, tx, starting, saved>>

RebuildSpec ==
    ServerInit /\ [][ServerNext \/ StartRebuild \/ AbandonRebuild]_serverVars

-----------------------------------------------------------------------------
(* Properties *)

(* Seen from outside, the server is Recovery: an Establish happens when it  *)
(* is committed or not at all, and the corrections of a start, with the     *)
(* crashes among them, are one Replay.                                      *)
Atomic == INSTANCE Recovery WITH routeState <- Shown

StepsAreAtomic == Atomic!RecoverySpec

(* A process that serves has recovered: as it begins, every stored route    *)
(* state is the one replayed from the log, however often it crashed in the  *)
(* middle of its corrections and whatever cancels it completed.             *)
StartConverges ==
    [][starting /\ ~starting' =>
          \A r \in Route : Replayed'[r] = routeState'[r]]_serverVars

(* A timed cancel ends although the process crashes while it recovers.      *)
CancelEnds ==
    \A r \in Route :
        routeState[r] = "cancelling" /\ timer[r] # None
            ~> routeState[r] # "cancelling"

(* internal/model/model.go:177: IsLocked reports whether a route holds      *)
(* locks.  A rebuild that read its log before an Establish writes the state *)
(* from before it over the route that now holds locks.                      *)
HolderIsLocked == \A r \in Route : HoldsLock(r) => IsLocked(r)

(* internal/service/route_service.go:39: an Establish that is refused sets  *)
(* the route failed and returns the error.  The error rolls the transaction *)
(* back, and with it the state failed and the event that records why.       *)
RefusedIsFailed ==
    [][tx.step = "rollback" /\ tx' = NoTx /\ ~starting' =>
          routeState'[tx.route] = "failed"]_serverVars
=============================================================================
