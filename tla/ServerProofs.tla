---------------------------- MODULE ServerProofs ----------------------------
(***************************************************************************)
(* Proofs about the steps of the process: the transaction of an Establish, *)
(* and the recovery at a start with the crashes in it, amount to the       *)
(* atomic steps of Recovery; and what Recovery keeps of locks and signals  *)
(* holds between any two statements too.                                   *)
(***************************************************************************)
EXTENDS PromiseProofs, BindingProofs, Server

RebuildNext == ServerNext \/ StartRebuild \/ AbandonRebuild

(* The rows as the transaction of an Establish of r sees them before the    *)
(* statement st.                                                            *)
Staged(r, st) ==
    [routeState |-> IF st \in {"signal", "commit"}
                    THEN [routeState EXCEPT ![r] = "established"]
                    ELSE routeState,
     secLock |-> IF st \in {"state", "signal", "commit"}
                 THEN [s \in Section |-> IF s \in OwnSections(r) THEN r
                                         ELSE secLock[s]]
                 ELSE secLock,
     swLock |-> IF st \in {"state", "signal", "commit"}
                THEN [w \in Switch |-> IF w \in Required(r) THEN r
                                       ELSE swLock[w]]
                ELSE swLock,
     swPos |-> IF st = "move" THEN swPos
               ELSE [w \in Switch |-> IF w \in Required(r) THEN Needs[r][w]
                                      ELSE swPos[w]],
     aspect |-> IF st = "commit"
                THEN [aspect EXCEPT ![Source[r]] = OpenAspect(r)]
                ELSE aspect,
     protects |-> IF st = "commit" THEN [protects EXCEPT ![Source[r]] = r]
                  ELSE protects,
     logged |-> IF st \in {"signal", "commit"}
                THEN [logged EXCEPT ![r] = "established"]
                ELSE logged]

TxFields == tx = [route |-> tx.route, rows |-> tx.rows, step |-> tx.step]

(* While a transaction is open the rows are those it has read, it has       *)
(* staged its writes up to the next statement, and what it checked holds.   *)
TxInv ==
    \/ tx = NoTx
    \/ /\ TxFields /\ tx.route \in Route
       /\ ~starting
       /\ \/ tx.step \in {"refuse", "rollback"}
          \/ /\ tx.step \in {"move", "lock", "state", "signal", "commit"}
             /\ tx.rows = Staged(tx.route, tx.step)
             /\ CheckEstablish(tx.route)
             /\ tx.step # "move" =>
                    \A w \in SwitchMoves(tx.route) : CheckSwitchMove(w)

(* What a transaction reads: all but the marks and the timers.              *)
ReadByTx == <<routeState, occupied, locks, switches, signals, logged>>

(* What a transaction has read and checked is not changed beside it.        *)
LEMMA StillChecked ==
    ASSUME UNCHANGED ReadByTx
    PROVE  /\ \A r, st : Staged(r, st)' = Staged(r, st)
           /\ \A r : CheckEstablish(r)' <=> CheckEstablish(r)
           /\ \A r : SwitchMoves(r)' = SwitchMoves(r)
           /\ \A w : CheckSwitchMove(w)' <=> CheckSwitchMove(w)
<1>1. \A r, st : Staged(r, st)' = Staged(r, st)
  BY DEF Staged, ReadByTx, locks, switches, signals
<1>2. \A r : CheckEstablish(r)' <=> CheckEstablish(r)
  BY DEF CheckEstablish, SwitchesReady, NoConflictLocked, SectionsReady,
         SwitchMoves, Defined, IsLocked, ReadByTx, locks, switches
<1>3. /\ \A r : SwitchMoves(r)' = SwitchMoves(r)
      /\ \A w : CheckSwitchMove(w)' <=> CheckSwitchMove(w)
  BY DEF SwitchMoves, CheckSwitchMove, ReadByTx, locks, switches
<1>4. QED
  BY <1>1, <1>2, <1>3

(* No other step touches the rows while a transaction is open.              *)
LEMMA TxStill ==
    ASSUME TxInv, UNCHANGED <<ReadByTx, tx>>, tx # NoTx => ~starting'
    PROVE  TxInv'
<1>1. CASE tx = NoTx
  BY <1>1 DEF TxInv, NoTx
<1>2. CASE tx # NoTx
  BY <1>2, StillChecked DEF TxInv, TxFields
<1>3. QED
  BY <1>1, <1>2

(* A statement brings the staged rows from those before it to those before  *)
(* the next.                                                                *)
LEMMA StageStep ==
    ASSUME TxInv, NEW from \in {"move", "lock", "state", "signal"},
           NEW to \in {"lock", "state", "signal", "commit"},
           NEW rows, Stage(from, to, rows),
           rows = Staged(tx.route, to),
           \A w \in SwitchMoves(tx.route) : CheckSwitchMove(w)
    PROVE  TxInv'
<1>1. /\ TxFields /\ tx.route \in Route /\ ~starting
      /\ CheckEstablish(tx.route)
  BY DEF TxInv, NoTx, Stage
<1>2. /\ tx' = [route |-> tx.route, rows |-> rows, step |-> to]
      /\ UNCHANGED ReadByTx /\ ~starting'
  BY <1>1 DEF Stage, TxFields, vars, ReadByTx
<1>3. /\ TxFields' /\ tx'.route = tx.route /\ tx'.step = to
      /\ tx'.rows = Staged(tx.route, to)
  BY <1>2 DEF TxFields
<1>4. QED
  BY <1>1, <1>2, <1>3, StillChecked DEF TxInv

(* The rows at every stage have the same columns.                           *)
LEMMA StagedColumns ==
    ASSUME NEW r, NEW st, NEW u
    PROVE  /\ Staged(r, st) = [c \in DOMAIN Staged(r, u) |-> Staged(r, st)[c]]
           /\ DOMAIN Staged(r, st) =
                 {"routeState", "secLock", "swLock", "swPos", "aspect",
                  "protects", "logged"}
BY DEF Staged

LEMMA TxInvStep ==
    ASSUME TxInv, [RebuildNext]_serverVars
    PROVE  TxInv'
<1>1. ASSUME tx' = NoTx PROVE TxInv'
  BY <1>1 DEF TxInv
<1>2. ASSUME NEW r \in Route, BeginEstablish(r) PROVE TxInv'
  <2>1. /\ tx'.route = r /\ tx'.rows = Rows
        /\ tx'.step = IF CheckEstablish(r) THEN "move" ELSE "refuse"
        /\ TxFields'
        /\ ~starting' /\ UNCHANGED ReadByTx
    BY <1>2 DEF BeginEstablish, TxFields, vars, ReadByTx
  <2>2. Rows = Staged(r, "move")
    BY DEF Rows, Staged
  <2>3. QED
    BY <2>1, <2>2, StillChecked DEF TxInv
<1>3. ASSUME tx.step \in {"move", "lock", "state", "signal"}, tx # NoTx
      PROVE  tx.rows = Staged(tx.route, tx.step)
  BY <1>3 DEF TxInv
<1>4. ASSUME MoveSwitches PROVE TxInv'
  <2> DEFINE rows == [tx.rows EXCEPT !.swPos =
                         [w \in Switch |-> IF w \in Required(tx.route)
                                           THEN Needs[tx.route][w] ELSE @[w]]]
  <2>1. rows = Staged(tx.route, "lock")
    BY <1>3, <1>4 DEF MoveSwitches, NoTx, Staged
  <2>2. QED
    BY <1>4, <2>1, StageStep DEF MoveSwitches
<1>5. ASSUME LockElements PROVE TxInv'
  <2> DEFINE rows == [tx.rows EXCEPT
                !.swLock = [w \in Switch |->
                    IF w \in Required(tx.route) THEN tx.route ELSE @[w]],
                !.secLock = [s \in Section |->
                    IF s \in OwnSections(tx.route) THEN tx.route ELSE @[s]]]
  <2>1. tx.step = "lock" /\ tx # NoTx
    BY <1>5 DEF LockElements, Stage, NoTx
  <2>2. rows = Staged(tx.route, "state")
    <3>1. tx.rows = Staged(tx.route, "lock")
      BY <1>3, <2>1
    <3>2. \A c \in DOMAIN tx.rows \ {"swLock", "secLock"} :
              Staged(tx.route, "state")[c] = tx.rows[c]
      BY <3>1, StagedColumns DEF Staged
    <3>3. Staged(tx.route, "state") = [c \in DOMAIN tx.rows |-> Staged(tx.route, "state")[c]]
      BY <3>1, StagedColumns
    <3>4. /\ Staged(tx.route, "state").swLock =
                  [w \in Switch |-> IF w \in Required(tx.route) THEN tx.route
                                 ELSE tx.rows.swLock[w]]
          /\ Staged(tx.route, "state").secLock =
                  [s \in Section |-> IF s \in OwnSections(tx.route)
                                  THEN tx.route ELSE tx.rows.secLock[s]]
      BY <3>1 DEF Staged
    <3>5. QED
      BY <3>2, <3>3, <3>4
  <2>3. \A w \in SwitchMoves(tx.route) : CheckSwitchMove(w)
    BY <2>1 DEF TxInv
  <2>4. QED
    BY <1>5, <2>2, <2>3, StageStep DEF LockElements
<1>6. ASSUME SetEstablished PROVE TxInv'
  <2> DEFINE rows == [tx.rows EXCEPT !.routeState[tx.route] = "established",
                                     !.logged[tx.route] = "established"]
  <2>1. tx.step = "state" /\ tx # NoTx
    BY <1>6 DEF SetEstablished, Stage, NoTx
  <2>2. rows = Staged(tx.route, "signal")
    <3>1. tx.rows = Staged(tx.route, "state")
      BY <1>3, <2>1
    <3>2. \A c \in DOMAIN tx.rows \ {"routeState", "logged"} :
              Staged(tx.route, "signal")[c] = tx.rows[c]
      BY <3>1, StagedColumns DEF Staged
    <3>3. Staged(tx.route, "signal") = [c \in DOMAIN tx.rows |-> Staged(tx.route, "signal")[c]]
      BY <3>1, StagedColumns
    <3>4. /\ Staged(tx.route, "signal").routeState =
                  [tx.rows.routeState EXCEPT ![tx.route] = "established"]
          /\ Staged(tx.route, "signal").logged =
                  [tx.rows.logged EXCEPT ![tx.route] = "established"]
      BY <3>1 DEF Staged
    <3>5. QED
      BY <3>2, <3>3, <3>4
  <2>3. \A w \in SwitchMoves(tx.route) : CheckSwitchMove(w)
    BY <2>1 DEF TxInv
  <2>4. QED
    BY <1>6, <2>2, <2>3, StageStep DEF SetEstablished
<1>7. ASSUME OpenSignal PROVE TxInv'
  <2> DEFINE rows == [tx.rows EXCEPT
                         !.protects[Source[tx.route]] = tx.route,
                         !.aspect[Source[tx.route]] = OpenAspect(tx.route)]
  <2>1. tx.step = "signal" /\ tx # NoTx
    BY <1>7 DEF OpenSignal, Stage, NoTx
  <2>2. rows = Staged(tx.route, "commit")
    <3>1. tx.rows = Staged(tx.route, "signal")
      BY <1>3, <2>1
    <3>2. \A c \in DOMAIN tx.rows \ {"protects", "aspect"} :
              Staged(tx.route, "commit")[c] = tx.rows[c]
      BY <3>1, StagedColumns DEF Staged
    <3>3. Staged(tx.route, "commit") = [c \in DOMAIN tx.rows |-> Staged(tx.route, "commit")[c]]
      BY <3>1, StagedColumns
    <3>4. /\ Staged(tx.route, "commit").protects =
                  [tx.rows.protects EXCEPT ![Source[tx.route]] = tx.route]
          /\ Staged(tx.route, "commit").aspect =
                  [tx.rows.aspect EXCEPT ![Source[tx.route]] = OpenAspect(tx.route)]
      BY <3>1 DEF Staged
    <3>5. QED
      BY <3>2, <3>3, <3>4
  <2>3. \A w \in SwitchMoves(tx.route) : CheckSwitchMove(w)
    BY <2>1 DEF TxInv
  <2>4. QED
    BY <1>7, <2>2, <2>3, StageStep DEF OpenSignal
<1>8. ASSUME MarkFailed PROVE TxInv'
  <2>1. tx.step = "refuse" /\ tx # NoTx
    BY <1>8 DEF MarkFailed, Stage, NoTx
  <2>2. TxFields /\ tx.route \in Route /\ ~starting
    BY <2>1 DEF TxInv
  <2>3. PICK rows : tx' = [tx EXCEPT !.step = "rollback", !.rows = rows]
    BY <1>8 DEF MarkFailed, Stage
  <2>4. tx' = [route |-> tx.route, rows |-> rows, step |-> "rollback"]
    BY <2>2, <2>3 DEF TxFields
  <2>5. tx'.route = tx.route /\ tx'.step = "rollback" /\ TxFields'
    BY <2>4 DEF TxFields
  <2>6. QED
    BY <1>8, <2>2, <2>5 DEF TxInv, MarkFailed, Stage
<1>9. ASSUME JobStep \/ Serve PROVE TxInv'
  <2>1. tx' = NoTx
    BY <1>9 DEF JobStep, Serve, ReadLog, ReadRows, Correct, ListTimers,
                ReadTimer, CompleteDue, Finish, At
  <2>2. QED
    BY <1>1, <2>1
<1>10. ASSUME StartRebuild \/ AbandonRebuild PROVE TxInv'
  BY <1>10, TxStill DEF StartRebuild, AbandonRebuild, vars, ReadByTx
<1>11. ASSUME Clock \/ UNCHANGED serverVars PROVE TxInv'
  <2>1. UNCHANGED <<ReadByTx, tx, starting>>
    BY <1>11 DEF Clock, Tick, serverVars, vars, ReadByTx
  <2>2. tx # NoTx => ~starting'
    BY <2>1 DEF TxInv
  <2>3. QED
    BY <2>1, <2>2, TxStill
<1>12. QED
  BY <1>1, <1>2, <1>4, <1>5, <1>6, <1>7, <1>8, <1>9, <1>10, <1>11
  DEF RebuildNext, ServerNext, TxStep, Commit, Rollback, Crash

(* What is committed is what the rules allowed when the transaction began.  *)
LEMMA CommitIsEstablish ==
    ASSUME TxInv, Commit
    PROVE  tx.route \in Route /\ Establish(tx.route)
<1> DEFINE r == tx.route
<1>1. /\ r \in Route /\ tx.rows = Staged(r, "commit")
      /\ CheckEstablish(r)
      /\ \A w \in SwitchMoves(r) : CheckSwitchMove(w)
  BY DEF TxInv, Commit, NoTx
<1>2. Write(Staged(r, "commit"))
  BY <1>1 DEF Commit
<1>3. QED
  BY <1>1, <1>2 DEF Write, Staged, Establish

-----------------------------------------------------------------------------
(* Types, with a rebuild among the requests or without.                     *)

(* What the recovery has still to correct, it has a state for.              *)
TodoLogged == phase = "correct" => \A r \in todo : log0[r] # "none"

JobTypeOK ==
    /\ starting \in BOOLEAN
    /\ phase \in {"idle", "log", "rows", "correct", "timers"}
    /\ log0 \in [Route -> {"none"} \cup RouteState]
    /\ todo \in SUBSET Route
    /\ due \in Route \cup {None}

StepsInv == ServerTypeOK /\ TxInv /\ TodoLogged

(* Whatever the process does to the rows is a step of the interlocking, or  *)
(* the correction of one route.                                             *)
LEMMA RowsStep ==
    ASSUME StepsInv, [RebuildNext]_serverVars
    PROVE  [RecoveryNext]_vars \/ \E r \in Route : Correct(r)
<1>1. ASSUME Commit PROVE [RecoveryNext]_vars
  BY <1>1, CommitIsEstablish DEF StepsInv, RecoveryNext, Next, RouteStep
<1>2. ASSUME Serve PROVE [RecoveryNext]_vars
  BY <1>2 DEF Serve, RecoveryNext, Next, RouteStep
<1>3. ASSUME CompleteDue PROVE [RecoveryNext]_vars
  <2>1. due \in Route
    BY <1>3 DEF CompleteDue, StepsInv, ServerTypeOK
  <2>2. QED
    BY <1>3, <2>1 DEF CompleteDue, RecoveryNext, Next, RouteStep
<1>4. ASSUME Clock PROVE [RecoveryNext]_vars
  BY <1>4 DEF Clock, RecoveryNext, Next
<1>5. QED
  BY <1>1, <1>2, <1>3, <1>4
  DEF RebuildNext, ServerNext, TxStep, BeginEstablish, MoveSwitches,
      LockElements, SetEstablished, OpenSignal, MarkFailed, Stage, Rollback,
      JobStep, ReadLog, ReadRows, ListTimers, ReadTimer, Finish, Crash,
      StartRebuild, AbandonRebuild, serverVars

LEMMA StepsInvStep ==
    ASSUME StepsInv, [RebuildNext]_serverVars
    PROVE  StepsInv'
<1> USE DEF StepsInv
<1>1. TxInv'
  BY TxInvStep
<1>2. TypeOK'
  <2>1. ASSUME NEW r \in Route, Correct(r) PROVE TypeOK'
    <3>1. log0[r] \in RouteState
      BY <2>1 DEF Correct, At, TodoLogged, ServerTypeOK
    <3>2. QED
      BY <2>1, <3>1
      DEF Correct, ServerTypeOK, TypeOK, locks, switches, signals
  <2>2. QED
    BY <2>1, RowsStep, TypeStep DEF ServerTypeOK
<1>3. JobTypeOK' /\ TodoLogged'
  <2> USE DEF ServerTypeOK, JobTypeOK, TodoLogged
  <2>1. ASSUME ReadLog PROVE JobTypeOK' /\ TodoLogged'
    BY <2>1 DEF ReadLog, At, TypeOK, RouteState, RestState, LockedState
  <2>2. ASSUME ReadRows PROVE JobTypeOK' /\ TodoLogged'
    BY <2>2 DEF ReadRows, At
  <2>3. ASSUME NEW r \in Route, Correct(r) \/ ReadTimer(r)
        PROVE  JobTypeOK' /\ TodoLogged'
    BY <2>3 DEF Correct, ReadTimer, At
  <2>4. ASSUME ListTimers PROVE JobTypeOK' /\ TodoLogged'
    BY <2>4 DEF ListTimers, At
  <2>5. ASSUME CompleteDue \/ Finish \/ Crash \/ StartRebuild \/ AbandonRebuild
        PROVE  JobTypeOK' /\ TodoLogged'
    BY <2>5
    DEF CompleteDue, Finish, Crash, StartRebuild, AbandonRebuild, At, NoLog
  <2>6. ASSUME UNCHANGED <<starting, job>> PROVE JobTypeOK' /\ TodoLogged'
    BY <2>6 DEF job
  <2>7. QED
    BY <2>1, <2>2, <2>3, <2>4, <2>5, <2>6
    DEF RebuildNext, ServerNext, TxStep, BeginEstablish, MoveSwitches,
        LockElements, SetEstablished, OpenSignal, MarkFailed, Stage, Commit,
        Rollback, JobStep, Serve, Clock, serverVars
<1>4. QED
  BY <1>1, <1>2, <1>3 DEF ServerTypeOK, JobTypeOK

LEMMA StepsInvInit == ServerInit => StepsInv
BY TypeInit
DEF ServerInit, StepsInv, ServerTypeOK, TxInv, TodoLogged, NoLog

LEMMA StepsInvAlways == RebuildSpec => []StepsInv
<1>1. StepsInv /\ [RebuildNext]_serverVars => StepsInv'
  BY StepsInvStep
<1>2. QED
  BY <1>1, StepsInvInit, PTL DEF RebuildSpec, RebuildNext

(* The server without rebuilds does nothing it would not do with them.      *)
LEMMA ServingIsSpecial == ServerSpec => RebuildSpec
<1>1. [ServerNext]_serverVars => [RebuildNext]_serverVars
  BY DEF RebuildNext
<1>2. QED
  BY <1>1, PTL DEF ServerSpec, RebuildSpec, RebuildNext

(* The rows and what the process keeps between two statements always have   *)
(* their types: no correction writes a state that no event has given.       *)
THEOREM ServerTypes == ServerSpec => []ServerTypeOK
<1>1. StepsInv => ServerTypeOK
  BY DEF StepsInv
<1>2. QED
  BY <1>1, StepsInvAlways, ServingIsSpecial, PTL

-----------------------------------------------------------------------------
(* A start of the process, with the crashes in it.                          *)

Correcting == starting /\ phase \in {"log", "rows", "correct"}

(* The state the corrections of this start bring a route to.                *)
Goal(r) == IF saved[r] # "absent" /\ logged[r] # "none" THEN logged[r]
           ELSE saved[r]

(* Every route state is the one found or the one to come; what ReconcileAll *)
(* has read is still so, what it has passed over is right, and once it is   *)
(* at the timers there is nothing left to replay.                           *)
StartInv ==
    /\ phase # "idle" <=> starting
    /\ starting => tx = NoTx
    /\ Correcting => /\ saved \in [Route -> RouteState]
                     /\ \A r \in Route : routeState[r] \in {saved[r], Goal(r)}
    /\ phase \in {"rows", "correct"} => log0 = logged
    /\ phase = "correct" =>
           /\ \A r \in todo : log0[r] = Goal(r)
           /\ \A r \in Route \ todo : routeState[r] = Goal(r)
    /\ phase = "timers" => \A r \in Route : Replayed[r] = routeState[r]

(* A crash finds the states as they are, some of them corrected.            *)
LEMMA CrashStep ==
    ASSUME StepsInv, StartInv, Crash
    PROVE  StartInv'
<1>1. /\ starting' /\ phase' = "log" /\ tx' = NoTx /\ saved' = Shown
      /\ routeState' = routeState /\ logged' = logged
  BY DEF Crash, vars
<1>2. CASE Correcting
  <2>1. saved' = saved
    BY <1>1, <1>2 DEF Shown, Correcting
  <2>2. QED
    BY <1>1, <1>2, <2>1 DEF StartInv, Correcting, Goal
<1>3. CASE ~Correcting
  <2>1. saved' = routeState
    BY <1>1, <1>3 DEF Shown, Correcting
  <2>2. QED
    BY <1>1, <2>1 DEF StartInv, Correcting, StepsInv, ServerTypeOK, TypeOK
<1>4. QED
  BY <1>2, <1>3

LEMMA ReadRowsStep ==
    ASSUME StepsInv, StartInv, ReadRows
    PROVE  StartInv'
<1> USE DEF StepsInv, StartInv, ServerTypeOK, TypeOK
<1>1. /\ phase = "rows" /\ phase' = "correct" /\ starting /\ starting'
      /\ tx' = NoTx /\ saved' = saved /\ log0' = log0 /\ log0 = logged
      /\ routeState' = routeState /\ logged' = logged
      /\ todo' = {r \in Route : Defined(r) /\ log0[r] \notin {"none", routeState[r]}}
      /\ \A r \in Route : routeState[r] \in {saved[r], Goal(r)}
  BY DEF ReadRows, At, Correcting, vars
<1>2. \A r \in todo' : log0[r] = Goal(r)
  BY <1>1 DEF Goal, Defined
<1>3. \A r \in Route \ todo' : routeState[r] = Goal(r)
  <2> SUFFICES ASSUME NEW r \in Route \ todo' PROVE routeState[r] = Goal(r)
    OBVIOUS
  <2>1. \/ routeState[r] = "absent"
        \/ logged[r] = "none"
        \/ logged[r] = routeState[r]
    BY <1>1 DEF Defined
  <2>2. logged[r] # "absent" /\ routeState[r] \in {saved[r], Goal(r)}
    BY <1>1
  <2>3. QED
    BY <2>1, <2>2 DEF Goal
<1>4. \A r \in Route : Goal(r)' = Goal(r)
  BY <1>1 DEF Goal
<1>5. QED
  BY <1>1, <1>2, <1>3, <1>4 DEF Correcting

LEMMA CorrectStep ==
    ASSUME StepsInv, StartInv, NEW c \in Route, Correct(c)
    PROVE  StartInv'
<1> USE DEF StepsInv, StartInv, ServerTypeOK, TypeOK
<1>1. /\ phase = "correct" /\ phase' = "correct" /\ starting /\ starting'
      /\ tx' = NoTx /\ saved' = saved /\ log0' = log0 /\ log0 = logged
      /\ logged' = logged /\ c \in todo /\ todo' = todo \ {c}
      /\ routeState' = [routeState EXCEPT ![c] = log0[c]]
  BY DEF Correct, At
<1>2. \A r \in Route : Goal(r)' = Goal(r)
  BY <1>1 DEF Goal
<1>3. /\ routeState'[c] = Goal(c)
      /\ \A r \in Route \ {c} : routeState'[r] = routeState[r]
  BY <1>1
<1>4. QED
  BY <1>1, <1>2, <1>3 DEF Correcting

(* When every route is corrected there is nothing left to replay.           *)
LEMMA ListTimersStep ==
    ASSUME StepsInv, StartInv, ListTimers
    PROVE  /\ StartInv'
           /\ starting => \A r \in Route : routeState[r] = Goal(r)
<1> USE DEF StepsInv, StartInv, ServerTypeOK, TypeOK
<1>1. /\ phase = "correct" /\ phase' = "timers" /\ starting /\ starting'
      /\ tx' = NoTx /\ todo = {}
      /\ routeState' = routeState /\ logged' = logged
  BY DEF ListTimers, At, vars
<1>2. \A r \in Route : routeState[r] = Goal(r)
  BY <1>1
<1>3. \A r \in Route : Replayed'[r] = routeState'[r]
  BY <1>1, <1>2 DEF Goal, Replayed, Defined
<1>4. QED
  BY <1>1, <1>2, <1>3 DEF Correcting

(* A cancel that is completed is replayed as it is.                         *)
LEMMA CompleteDueStep ==
    ASSUME StepsInv, StartInv, CompleteDue
    PROVE  StartInv'
<1> USE DEF StepsInv, StartInv, ServerTypeOK, TypeOK
<1>1. /\ phase = "timers" /\ phase' = "timers" /\ starting /\ starting'
      /\ tx' = NoTx /\ due \in Route
      /\ \A r \in Route : Replayed[r] = routeState[r]
  BY DEF CompleteDue, At
<1>2. \A r \in Route : Replayed'[r] = routeState'[r]
  <2>1. CASE CompleteDelayedCancel(due)
    <3>1. /\ routeState' = [routeState EXCEPT ![due] = "cancelled"]
          /\ logged' = [logged EXCEPT ![due] = "cancelled"]
      BY <2>1 DEF CompleteDelayedCancel
    <3>2. QED
      BY <1>1, <3>1 DEF Replayed, Defined
  <2>2. CASE UNCHANGED vars
    BY <1>1, <2>2 DEF Replayed, Defined, vars
  <2>3. QED
    BY <2>1, <2>2 DEF CompleteDue
<1>3. QED
  BY <1>1, <1>2 DEF Correcting

(* Steps that leave the states, the log and the job alone.                  *)
LEMMA StartStays ==
    ASSUME StartInv, UNCHANGED <<routeState, logged, tx, starting, phase, log0, saved>>,
           phase = "correct" => todo' = todo
    PROVE  StartInv'
BY DEF StartInv, Correcting, Goal, Replayed, Defined

LEMMA StartInvStep ==
    ASSUME StepsInv, StartInv, [ServerNext]_serverVars
    PROVE  StartInv'
<1>1. ASSUME Serve \/ TxStep PROVE StartInv'
  <2>1. ~starting /\ starting' = starting /\ phase' = phase
    BY <1>1
    DEF Serve, TxStep, BeginEstablish, MoveSwitches, LockElements,
        SetEstablished, OpenSignal, MarkFailed, Stage, Commit, Rollback, job,
        StepsInv, TxInv, NoTx
  <2>2. QED
    BY <2>1 DEF StartInv, Correcting
<1>2. ASSUME ReadLog PROVE StartInv'
  <2>1. /\ phase = "log" /\ phase' = "rows" /\ starting /\ starting'
        /\ tx' = NoTx /\ saved' = saved /\ log0' = logged'
        /\ routeState' = routeState /\ logged' = logged
    BY <1>2 DEF ReadLog, At, StartInv, vars
  <2>2. QED
    BY <2>1 DEF StartInv, Correcting, Goal
<1>3. ASSUME Finish PROVE StartInv'
  BY <1>3 DEF Finish, StartInv, Correcting
<1>4. ASSUME NEW r \in Route, ReadTimer(r) PROVE StartInv'
  BY <1>4, StartStays DEF ReadTimer, At, vars
<1>5. ASSUME Clock \/ UNCHANGED serverVars PROVE StartInv'
  BY <1>5, StartStays DEF Clock, Tick, serverVars, vars, job
<1>6. QED
  BY <1>1, <1>2, <1>3, <1>4, <1>5, CrashStep, ReadRowsStep, CorrectStep,
     ListTimersStep, CompleteDueStep
  DEF ServerNext, JobStep

LEMMA StartInvAlways == ServerSpec => [](StepsInv /\ StartInv)
<1>1. ServerInit => StepsInv /\ StartInv
  BY StepsInvInit DEF ServerInit, StartInv, Correcting
<1>2. StepsInv /\ StartInv /\ [ServerNext]_serverVars => StepsInv' /\ StartInv'
  BY StepsInvStep, StartInvStep DEF RebuildNext
<1>3. QED
  BY <1>1, <1>2, PTL DEF ServerSpec

(* Whatever the crashes in the middle of its corrections, a process begins  *)
(* to serve with every route state as the log has it.                       *)
THEOREM Convergence == ServerSpec => StartConverges
<1>1. ASSUME StepsInv, StartInv, [ServerNext]_serverVars, starting, ~starting'
      PROVE  \A r \in Route : Replayed'[r] = routeState'[r]
  <2>1. Finish
    <3>1. starting => ~TxStep /\ ~Serve
      <4>1. starting => tx.step = "none"
        BY <1>1 DEF StartInv, NoTx
      <4>2. QED
        BY <1>1, <4>1
        DEF TxStep, BeginEstablish, MoveSwitches, LockElements, SetEstablished,
            OpenSignal, MarkFailed, Stage, Commit, Rollback, Serve
    <3>2. QED
      BY <1>1, <3>1
      DEF ServerNext, JobStep, ReadLog, ReadRows, Correct, ListTimers,
          ReadTimer, CompleteDue, Crash, Clock, serverVars
  <2>2. phase = "timers" /\ routeState' = routeState /\ logged' = logged
    BY <2>1 DEF Finish, At, vars
  <2>3. QED
    BY <1>1, <2>2 DEF StartInv, Replayed, Defined
<1>2. StepsInv /\ StartInv /\ [ServerNext]_serverVars
        => [starting /\ ~starting' =>
               \A r \in Route : Replayed'[r] = routeState'[r]]_serverVars
  BY <1>1
<1>3. QED
  BY <1>2, StartInvAlways, PTL DEF ServerSpec, StartConverges

-----------------------------------------------------------------------------
(* Seen from outside, what the process does is a step of Recovery.          *)

(* Both modules speak of one yard ...                                       *)
LEMMA SameStation ==
    /\ Atomic!Position = Position
    /\ \A p : Atomic!Opposite(p) = Opposite(p)
    /\ \A r : /\ Atomic!Sections(r) = Sections(r)
              /\ Atomic!Required(r) = Required(r)
              /\ Atomic!Terminal(r) = Terminal(r)
              /\ Atomic!OwnSections(r) = OwnSections(r)
              /\ Atomic!OpenAspect(r) = OpenAspect(r)
    /\ \A a, b : Atomic!Conflicts(a, b) <=> Conflicts(a, b)
    /\ Atomic!RestState = RestState /\ Atomic!LockedState = LockedState
    /\ Atomic!Aspect = Aspect
    /\ \A S : Atomic!AnyOf(S) = AnyOf(S)
<1>1. /\ \A r : Atomic!Sections(r) = Sections(r)
      /\ \A r : Atomic!Required(r) = Required(r)
  BY DEF Atomic!Sections, Sections, Atomic!Required, Required
<1>2. \A a, b : Atomic!Conflicts(a, b) <=> Conflicts(a, b)
  BY <1>1 DEF Atomic!Conflicts, Conflicts, Atomic!ShareSection, ShareSection,
              Atomic!OpposeSwitch, OpposeSwitch
<1>3. \A r : /\ Atomic!Terminal(r) = Terminal(r)
             /\ Atomic!OwnSections(r) = OwnSections(r)
             /\ Atomic!OpenAspect(r) = OpenAspect(r)
  BY <1>1 DEF Atomic!Terminal, Terminal, Atomic!OwnSections, OwnSections,
              Atomic!OpenAspect, OpenAspect
<1>4. QED
  BY <1>1, <1>2, <1>3
  DEF Atomic!Position, Position, Atomic!Opposite, Opposite, Atomic!RestState,
      RestState, Atomic!LockedState, LockedState, Atomic!Aspect, Aspect,
      Atomic!AnyOf, AnyOf

(* ... and while the states are seen as they are, with the same rules.      *)
LEMMA SameRules ==
    ASSUME Shown = routeState
    PROVE  /\ \A r : /\ Atomic!IsLocked(r) <=> IsLocked(r)
                     /\ Atomic!Defined(r) <=> Defined(r)
                     /\ Atomic!CheckEstablish(r) <=> CheckEstablish(r)
                     /\ Atomic!SwitchMoves(r) = SwitchMoves(r)
                     /\ Atomic!Cancellable(r) <=> Cancellable(r)
                     /\ Atomic!NeedTimedDelay(r) <=> NeedTimedDelay(r)
           /\ \A w : Atomic!CheckSwitchMove(w) <=> CheckSwitchMove(w)
           /\ \A r, ind : Atomic!ComputeAspect(r, ind) = ComputeAspect(r, ind)
           /\ \A r, h : Atomic!ReleasedSections(r, h) = ReleasedSections(r, h)
           /\ \A r : Atomic!ReleasedSwitches(r) = ReleasedSwitches(r)
           /\ \A w, g : Atomic!Refreshed(w, g) = Refreshed(w, g)
           /\ \A s : /\ Atomic!MovedIn(s) = MovedIn(s)
                     /\ Atomic!Approached(s) = Approached(s)
                     /\ Atomic!ReleasedAfterClear(s) = ReleasedAfterClear(s)
           /\ \A r, s : /\ Atomic!RouteComplete(r, s) <=> RouteComplete(r, s)
                        /\ Atomic!ReleasedBehind(r, s) = ReleasedBehind(r, s)
<1>1. /\ \A r : Atomic!IsLocked(r) <=> IsLocked(r)
      /\ \A r : Atomic!Defined(r) <=> Defined(r)
      /\ \A r : Atomic!Cancellable(r) <=> Cancellable(r)
      /\ \A r : Atomic!NeedTimedDelay(r) <=> NeedTimedDelay(r)
      /\ \A r : Atomic!SwitchMoves(r) = SwitchMoves(r)
      /\ \A w : Atomic!CheckSwitchMove(w) <=> CheckSwitchMove(w)
  BY SameStation
  DEF Atomic!IsLocked, IsLocked, Atomic!Defined, Defined, Atomic!Cancellable,
      Cancellable, Atomic!NeedTimedDelay, NeedTimedDelay, Atomic!SwitchMoves,
      SwitchMoves, Atomic!CheckSwitchMove, CheckSwitchMove
<1>2. \A r : Atomic!CheckEstablish(r) <=> CheckEstablish(r)
  <2>1. \A r : Atomic!SwitchesReady(r) <=> SwitchesReady(r)
    BY <1>1, SameStation DEF Atomic!SwitchesReady, SwitchesReady
  <2>2. \A r : Atomic!NoConflictLocked(r) <=> NoConflictLocked(r)
    BY <1>1, SameStation DEF Atomic!NoConflictLocked, NoConflictLocked
  <2>3. \A r : Atomic!SectionsReady(r) <=> SectionsReady(r)
    BY SameStation DEF Atomic!SectionsReady, SectionsReady
  <2>4. QED
    BY <2>1, <2>2, <2>3, SameStation
    DEF Atomic!CheckEstablish, CheckEstablish
<1>3. \A r, ind : Atomic!ComputeAspect(r, ind) = ComputeAspect(r, ind)
  BY <1>1, SameStation DEF Atomic!ComputeAspect, ComputeAspect
<1>4. /\ \A r, h : Atomic!ReleasedSections(r, h) = ReleasedSections(r, h)
      /\ \A r : Atomic!ReleasedSwitches(r) = ReleasedSwitches(r)
      /\ \A w, g : Atomic!Refreshed(w, g) = Refreshed(w, g)
  BY <1>1, SameStation
  DEF Atomic!ReleasedSections, ReleasedSections, Atomic!ReleasedSwitches,
      ReleasedSwitches, Atomic!Refreshed, Refreshed
<1>5. /\ \A s : Atomic!MovedIn(s) = MovedIn(s)
      /\ \A r, s : Atomic!RouteComplete(r, s) <=> RouteComplete(r, s)
      /\ \A r, s : Atomic!ReleasedBehind(r, s) = ReleasedBehind(r, s)
  BY <1>1, SameStation
  DEF Atomic!MovedIn, MovedIn, Atomic!RouteComplete, RouteComplete,
      Atomic!ReleasedBehind, ReleasedBehind
<1>6. \A s : Atomic!Approached(s) = Approached(s)
  BY <1>1, <1>5 DEF Atomic!Approached, Approached
<1>7. \A s : Atomic!ReleasedAfterClear(s) = ReleasedAfterClear(s)
  <2>1. \A r, s : Atomic!ReleasedByClear(r, s) = ReleasedByClear(r, s)
    BY <1>5, SameStation DEF Atomic!ReleasedByClear, ReleasedByClear
  <2>2. QED
    BY <1>5, <2>1 DEF Atomic!ReleasedAfterClear, ReleasedAfterClear
<1>8. QED
  BY <1>1, <1>2, <1>3, <1>4, <1>5, <1>6, <1>7

LEMMA SameEffects ==
    ASSUME Shown = routeState, Shown' = routeState', NEW r
    PROVE  /\ ReleaseRouteLocks(r) => Atomic!ReleaseRouteLocks(r)
           /\ CloseAndUnbindSignal(r) => Atomic!CloseAndUnbindSignal(r)
           /\ ClearOnceOccupied(r) => Atomic!ClearOnceOccupied(r)
<1>1. /\ Atomic!ReleasedSections(r, secLock) = ReleasedSections(r, secLock)
      /\ Atomic!ReleasedSwitches(r) = ReleasedSwitches(r)
  BY SameRules
<1>2. ReleaseRouteLocks(r) => Atomic!ReleaseRouteLocks(r)
  BY <1>1 DEF ReleaseRouteLocks, Atomic!ReleaseRouteLocks
<1>3. /\ CloseAndUnbindSignal(r) => Atomic!CloseAndUnbindSignal(r)
      /\ ClearOnceOccupied(r) => Atomic!ClearOnceOccupied(r)
  BY DEF CloseAndUnbindSignal, Atomic!CloseAndUnbindSignal, ClearOnceOccupied,
         Atomic!ClearOnceOccupied
<1>4. QED
  BY <1>2, <1>3

LEMMA SameRouteStep ==
    ASSUME Shown = routeState, Shown' = routeState', NEW r \in Route, RouteStep(r)
    PROVE  Atomic!RouteStep(r)
<1>1. DefineRoute(r) => Atomic!DefineRoute(r)
  BY SameRules
  DEF DefineRoute, Atomic!DefineRoute, locks, switches, signals,
      Atomic!locks, Atomic!switches, Atomic!signals
<1>2. Establish(r) => Atomic!Establish(r)
  BY SameRules, SameStation DEF Establish, Atomic!Establish
<1>3. CancelImmediate(r) => Atomic!CancelImmediate(r)
  BY SameRules, SameEffects
  DEF CancelImmediate, Atomic!CancelImmediate, switches, Atomic!switches
<1>4. CancelTimed(r) => Atomic!CancelTimed(r)
  BY SameRules
  DEF CancelTimed, Atomic!CancelTimed, StartTimer, Atomic!StartTimer, locks,
      switches, Atomic!locks, Atomic!switches
<1>5. CompleteDelayedCancel(r) => Atomic!CompleteDelayedCancel(r)
  BY SameRules, SameEffects
  DEF CompleteDelayedCancel, Atomic!CompleteDelayedCancel, switches,
      Atomic!switches
<1>6. FaultUnlock(r) => Atomic!FaultUnlock(r)
  BY SameRules, SameEffects
  DEF FaultUnlock, Atomic!FaultUnlock, switches, Atomic!switches
<1>7. QED
  BY <1>1, <1>2, <1>3, <1>4, <1>5, <1>6 DEF RouteStep, Atomic!RouteStep

LEMMA SameSwitchStep ==
    ASSUME Shown = routeState, Shown' = routeState', NEW w \in Switch, SwitchStep(w)
    PROVE  Atomic!SwitchStep(w)
<1>1. Reverse(w) => Atomic!Reverse(w)
  BY SameRules, SameStation
  DEF Reverse, Atomic!Reverse, locks, signals, Atomic!locks, Atomic!signals
<1>2. ASSUME NEW ok \in BOOLEAN, SetIndication(w, ok)
      PROVE  Atomic!SetIndication(w, ok)
  <2>1. RefreshSignals(w, swInd')
    BY <1>2 DEF SetIndication
  <2>2. aspect' \in [Signal -> Atomic!Aspect]
    BY <2>1, SameStation DEF RefreshSignals
  <2>3. ASSUME NEW g \in Signal
        PROVE  IF Atomic!Refreshed(w, g) = {}
               THEN aspect'[g] = aspect[g]
               ELSE \E r \in Atomic!Refreshed(w, g) :
                        aspect'[g] = Atomic!ComputeAspect(r, swInd')
    <3>1. /\ Atomic!Refreshed(w, g) = Refreshed(w, g)
          /\ \A r : Atomic!ComputeAspect(r, swInd') = ComputeAspect(r, swInd')
      BY SameRules
    <3>2. IF Refreshed(w, g) = {}
          THEN aspect'[g] = aspect[g]
          ELSE \E r \in Refreshed(w, g) : aspect'[g] = ComputeAspect(r, swInd')
      BY <2>1 DEF RefreshSignals
    <3>3. QED
      BY <3>1, <3>2
  <2>4. Atomic!RefreshSignals(w, swInd')
    BY <2>2, <2>3 DEF Atomic!RefreshSignals
  <2>5. QED
    BY <1>2, <2>4
    DEF SetIndication, Atomic!SetIndication, locks, Atomic!locks
<1>3. QED
  BY <1>1, <1>2 DEF SwitchStep, Atomic!SwitchStep

LEMMA SameTrainStep ==
    ASSUME Shown = routeState, Shown' = routeState', NEW s \in Section, TrainStep(s)
    PROVE  Atomic!TrainStep(s)
<1>1. ASSUME Occupy(s) PROVE Atomic!Occupy(s)
  <2>1. PICK m \in AnyOf(MovedIn(s)), a \in AnyOf(Approached(s)) :
          /\ occupied' = occupied \cup {s}
          /\ once' = [r \in Route |-> IF r = m THEN once[r] \cup {s} ELSE once[r]]
          /\ routeState' = [r \in Route |-> IF r = a THEN "approach_locked"
                                            ELSE routeState[r]]
          /\ aspect' = [g \in Signal |-> IF \E r \in MovedIn(s) : Source[r] = g
                                         THEN "R" ELSE aspect[g]]
          /\ secLock' = [x \in Section |->
                            IF \E r \in MovedIn(s) : x \in ReleasedBehind(r, s)
                            THEN None ELSE secLock[x]]
          /\ UNCHANGED <<swLock, switches, protects, timer, logged>>
    BY <1>1 DEF Occupy
  <2>2. /\ m \in Atomic!AnyOf(Atomic!MovedIn(s))
        /\ a \in Atomic!AnyOf(Atomic!Approached(s))
    BY SameRules, SameStation
  <2>3. secLock' = [x \in Section |->
                       IF \E r \in Atomic!MovedIn(s) :
                              x \in Atomic!ReleasedBehind(r, s)
                       THEN None ELSE secLock[x]]
    BY <2>1, SameRules
  <2>4. aspect' = [g \in Signal |->
                      IF \E r \in Atomic!MovedIn(s) : Source[r] = g
                      THEN "R" ELSE aspect[g]]
    BY <2>1, SameRules
  <2>5. Shown' = [r \in Route |-> IF r = a THEN "approach_locked" ELSE Shown[r]]
    BY <2>1
  <2>6. UNCHANGED Atomic!switches
    BY <2>1 DEF switches, Atomic!switches
  <2>7. QED
    BY <2>1, <2>2, <2>3, <2>4, <2>5, <2>6 DEF Atomic!Occupy
<1>2. ClearSection(s) => Atomic!ClearSection(s)
  BY SameRules
  DEF ClearSection, Atomic!ClearSection, switches, signals,
      Atomic!switches, Atomic!signals
<1>3. ASSUME ClearTerminal(s) PROVE Atomic!ClearTerminal(s)
  <2>1. PICK r \in MovedIn(s) :
          /\ RouteComplete(r, s)
          /\ occupied' = occupied \ {s}
          /\ secLock' = ReleasedSections(r, ReleasedAfterClear(s))
          /\ swLock' = ReleasedSwitches(r)
          /\ CloseAndUnbindSignal(r)
          /\ routeState' = [routeState EXCEPT ![r] = "unlocked"]
          /\ logged' = [logged EXCEPT ![r] = "unlocked"]
          /\ ClearOnceOccupied(r)
          /\ UNCHANGED <<switches, timer>>
    BY <1>3 DEF ClearTerminal
  <2>2. r \in Atomic!MovedIn(s) /\ Atomic!RouteComplete(r, s)
    BY <2>1, SameRules
  <2>3. secLock' = Atomic!ReleasedSections(r, Atomic!ReleasedAfterClear(s))
    BY <2>1, SameRules
  <2>4. swLock' = Atomic!ReleasedSwitches(r)
    BY <2>1, SameRules
  <2>5. QED
    BY <2>1, <2>2, <2>3, <2>4, SameEffects
    DEF Atomic!ClearTerminal, switches, Atomic!switches
<1>4. QED
  BY <1>1, <1>2, <1>3 DEF TrainStep, Atomic!TrainStep

(* A step of the interlocking between two requests is seen as it is.        *)
LEMMA SameStep ==
    ASSUME Shown = routeState, Shown' = routeState', [Next]_vars
    PROVE  [Atomic!Next]_Atomic!vars
<1>1. CASE UNCHANGED vars
  BY <1>1
  DEF vars, locks, switches, signals, Atomic!vars, Atomic!locks,
      Atomic!switches, Atomic!signals
<1>2. Tick => Atomic!Tick
  BY DEF Tick, Atomic!Tick, locks, switches, signals, Atomic!locks,
         Atomic!switches, Atomic!signals
<1>3. QED
  BY <1>1, <1>2, SameRouteStep, SameSwitchStep, SameTrainStep
  DEF Next, Atomic!Next

(* The end of the corrections is the Replay they amount to.                 *)
LEMMA ListTimersIsReplay ==
    ASSUME StepsInv, StartInv, ListTimers
    PROVE  Atomic!Replay
<1> USE DEF StepsInv, StartInv, ServerTypeOK, TypeOK
<1>1. /\ starting /\ phase = "correct" /\ phase' = "timers" /\ UNCHANGED vars
  BY DEF ListTimers, At
<1>2. Shown = saved /\ Shown' = routeState
  BY <1>1 DEF Shown, vars
<1>3. Shown' = Atomic!Replayed
  <2>1. \A r \in Route : routeState[r] = Goal(r)
    BY <1>1, ListTimersStep
  <2>2. Atomic!Replayed = [r \in Route |-> Goal(r)]
    BY <1>2 DEF Atomic!Replayed, Atomic!Defined, Goal
  <2>3. routeState = [r \in Route |-> Goal(r)]
    BY <2>1
  <2>4. QED
    BY <1>2, <2>2, <2>3
<1>4. QED
  BY <1>1, <1>3
  DEF Atomic!Replay, vars, locks, switches, signals, Atomic!locks,
      Atomic!switches, Atomic!signals

(* The clock does not look at the states.                                   *)
LEMMA ClockIsTick ==
    ASSUME Clock
    PROVE  Atomic!Tick
<1>1. Shown' = Shown
  BY DEF Clock, Tick, Shown, job
<1>2. QED
  BY <1>1
  DEF Clock, Tick, Atomic!Tick, locks, switches, signals, Atomic!locks,
      Atomic!switches, Atomic!signals

LEMMA StepIsAtomic ==
    ASSUME StepsInv, StartInv, [ServerNext]_serverVars
    PROVE  [Atomic!RecoveryNext]_Atomic!vars
<1> USE DEF StartInv
<1>1. ASSUME Shown' = Shown,
             UNCHANGED <<occupied, locks, switches, signals, once, timer, logged>>
      PROVE  [Atomic!RecoveryNext]_Atomic!vars
  BY <1>1
  DEF locks, switches, signals, Atomic!vars, Atomic!locks, Atomic!switches,
      Atomic!signals
<1>2. ASSUME Shown = routeState, Shown' = routeState', [Next]_vars
      PROVE  [Atomic!RecoveryNext]_Atomic!vars
  BY <1>2, SameStep DEF Atomic!RecoveryNext
<1>3. ASSUME TxStep \/ Serve PROVE [Atomic!RecoveryNext]_Atomic!vars
  <2>1. ~starting
    <3>1. starting => tx.step = "none"
      BY DEF NoTx
    <3>2. QED
      BY <1>3, <3>1
      DEF TxStep, BeginEstablish, MoveSwitches, LockElements, SetEstablished,
          OpenSignal, MarkFailed, Stage, Commit, Rollback, Serve
  <2>2. ~starting'
    BY <1>3, <2>1
    DEF TxStep, BeginEstablish, MoveSwitches, LockElements, SetEstablished,
        OpenSignal, MarkFailed, Stage, Commit, Rollback, Serve
  <2>3. Serve => [Next]_vars
    BY DEF Serve, Next, RouteStep
  <2>4. Commit => [Next]_vars
    BY CommitIsEstablish DEF Next, RouteStep, StepsInv
  <2>5. [Next]_vars
    BY <1>3, <2>3, <2>4
    DEF TxStep, BeginEstablish, MoveSwitches, LockElements, SetEstablished,
        OpenSignal, MarkFailed, Stage, Rollback
  <2>6. Shown = routeState /\ Shown' = routeState'
    BY <2>1, <2>2 DEF Shown
  <2>7. QED
    BY <1>2, <2>5, <2>6
<1>4. ASSUME CompleteDue PROVE [Atomic!RecoveryNext]_Atomic!vars
  <2>1. Shown = routeState /\ Shown' = routeState'
    BY <1>4 DEF CompleteDue, At, Shown
  <2>2. due \in Route
    BY <1>4 DEF CompleteDue, StepsInv, ServerTypeOK
  <2>3. [Next]_vars
    BY <1>4, <2>2 DEF CompleteDue, Next, RouteStep
  <2>4. QED
    BY <1>2, <2>1, <2>3
<1>5. ASSUME \/ ReadLog
             \/ ReadRows
             \/ \E r \in Route : Correct(r) \/ ReadTimer(r)
             \/ Finish
             \/ Crash
             \/ UNCHANGED serverVars
      PROVE  [Atomic!RecoveryNext]_Atomic!vars
  <2>1. UNCHANGED <<occupied, locks, switches, signals, once, timer, logged>>
    BY <1>5 DEF ReadLog, ReadRows, Correct, ReadTimer, Finish, Crash, serverVars,
                vars
  <2>2. Shown' = Shown
    <3>1. CASE ReadLog \/ ReadRows \/ \E r \in Route : Correct(r)
      BY <3>1 DEF ReadLog, ReadRows, Correct, At, Shown
    <3>2. CASE Finish \/ \E r \in Route : ReadTimer(r)
      BY <3>2 DEF Finish, ReadTimer, At, Shown, vars
    <3>3. CASE Crash
      BY <3>3 DEF Crash, Shown
    <3>4. CASE UNCHANGED serverVars
      BY <3>4 DEF serverVars, vars, job, Shown
    <3>5. QED
      BY <1>5, <3>1, <3>2, <3>3, <3>4
  <2>3. QED
    BY <1>1, <2>1, <2>2
<1>6. QED
  BY <1>3, <1>4, <1>5, ListTimersIsReplay, ClockIsTick
  DEF ServerNext, JobStep, Atomic!RecoveryNext, Atomic!Next

(* The server that takes its methods and its recovery apart, and crashes    *)
(* between any two of their steps, is seen from outside as Recovery: every  *)
(* Establish happens as a whole or not at all, and the corrections of a     *)
(* start, with the crashes in them, are one Replay of the log over the      *)
(* states the first crash left.                                             *)
THEOREM Atomicity == ServerSpec => StepsAreAtomic
<1>1. ServerInit => Atomic!Init
  <2> SUFFICES ASSUME ServerInit PROVE Atomic!Init
    OBVIOUS
  <2>1. Init /\ Shown = routeState
    BY DEF ServerInit, Shown
  <2>2. QED
    BY <2>1, SameStation DEF Init, Atomic!Init
<1>2. StepsInv /\ StartInv /\ [ServerNext]_serverVars
        => [Atomic!RecoveryNext]_Atomic!vars
  BY StepIsAtomic
<1>3. QED
  BY <1>1, <1>2, StartInvAlways, PTL
  DEF ServerSpec, StepsAreAtomic, Atomic!RecoverySpec

-----------------------------------------------------------------------------
(* The rows themselves, at every step of the process: what Recovery keeps   *)
(* between two requests is kept halfway through a recovery too.             *)

(* A correction writes the state that the log has by now: a route that      *)
(* holds a lock, or a signal, stays in a locking state.                     *)
LEMMA CorrectKeepsBound ==
    ASSUME StepsInv, StartInv, BoundInv, NEW c \in Route, Correct(c)
    PROVE  BoundInv'
<1> USE DEF BoundInv, LockInv
<1>1. /\ routeState' = [routeState EXCEPT ![c] = logged[c]]
      /\ UNCHANGED <<secLock, swLock, swPos, protects, logged>>
  BY DEF Correct, At, StartInv, locks, switches, signals
<1>2. \A r \in Route : /\ logged[r] \in {"established", "cancelling"}
                       /\ IsLocked(r)
                       => IsLocked(r)'
  BY <1>1 DEF TypeOK, IsLocked, LockedState
<1>3. TypeOK'
  BY StepsInvStep DEF StepsInv, ServerTypeOK, RebuildNext, ServerNext, JobStep
<1>4. LocksHaveOwners' /\ LockHoldersLogged' /\ LockedSwitchesInPosition'
  BY <1>1, <1>2
  DEF TypeOK, LocksHaveOwners, LockHoldersLogged, LockedSwitchesInPosition
<1>5. BoundRouteIsLocked'
  BY <1>1, <1>2 DEF TypeOK, BoundRouteIsLocked
<1>6. QED
  BY <1>3, <1>4, <1>5

LEMMA ProcessStep ==
    ASSUME StepsInv, StartInv, BoundInv, [ServerNext]_serverVars
    PROVE  /\ StepsInv' /\ StartInv' /\ BoundInv'
           /\ [RecoveryNext]_vars \/ \E c \in Route : Correct(c)
<1>1. [RecoveryNext]_vars \/ \E c \in Route : Correct(c)
  BY RowsStep DEF RebuildNext, StepsInv
<1>2. QED
  BY <1>1, StepsInvStep, StartInvStep, BoundInvInductive, CorrectKeepsBound
  DEF RebuildNext

ProcessInv == StepsInv /\ StartInv /\ BoundInv

LEMMA ProcessInvAlways == ServerSpec => []ProcessInv
<1>1. ServerInit => ProcessInv
  BY StepsInvInit, TypeInit
  DEF ServerInit, ProcessInv, StartInv, Correcting, Init, BoundInv,
      BoundRouteIsLocked, LockInv, LocksHaveOwners, LockedSwitchesInPosition,
      LockHoldersLogged
<1>2. ProcessInv /\ [ServerNext]_serverVars => ProcessInv'
  BY ProcessStep DEF ProcessInv
<1>3. QED
  BY <1>1, <1>2, PTL DEF ServerSpec

(* No lock outlives its route, no locked switch leaves its position and no  *)
(* two conflicting routes hold locks, in any state between two statements   *)
(* of the process, crashes in the middle of a recovery included.            *)
THEOREM ProcessLocks ==
    ServerSpec => [](/\ LocksHaveOwners
                     /\ LockedSwitchesInPosition
                     /\ ConflictingLocksExclude)
<1>1. ServerInit => ConflictingLocksExclude
  BY NoneAssumption DEF ServerInit, Init, ConflictingLocksExclude, HoldsLock
<1>2. /\ ProcessInv /\ ProcessInv'
      /\ ConflictingLocksExclude
      /\ [ServerNext]_serverVars
      => ConflictingLocksExclude'
  <2> SUFFICES ASSUME ProcessInv, ProcessInv', ConflictingLocksExclude,
                      [ServerNext]_serverVars
               PROVE  ConflictingLocksExclude'
    OBVIOUS
  <2>1. [RecoveryNext]_vars \/ \E c \in Route : Correct(c)
    BY ProcessStep DEF ProcessInv
  <2>2. ASSUME NEW c \in Route, Correct(c) PROVE ConflictingLocksExclude'
    BY <2>2 DEF Correct, locks, ConflictingLocksExclude, HoldsLock
  <2>3. QED
    BY <2>1, <2>2, ConflictingLocksStep DEF ProcessInv, BoundInv
<1>3. ProcessInv => LocksHaveOwners /\ LockedSwitchesInPosition
  BY DEF ProcessInv, BoundInv, LockInv
<1>4. QED
  BY <1>1, <1>2, <1>3, ProcessInvAlways, PTL DEF ServerSpec

(* Halfway through a recovery, too, a bound route holds its switches.       *)
THEOREM ProcessBoundSwitches ==
    ASSUME SharedSwitchesConflict
    PROVE  ServerSpec => []BoundRouteHoldsSwitches
<1>1. ServerInit => BoundRouteHoldsSwitches
  BY DEF ServerInit, Init, BoundRouteHoldsSwitches
<1>2. /\ ProcessInv /\ ProcessInv'
      /\ BoundRouteHoldsSwitches
      /\ [ServerNext]_serverVars
      => BoundRouteHoldsSwitches'
  <2> SUFFICES ASSUME ProcessInv, ProcessInv', BoundRouteHoldsSwitches,
                      [ServerNext]_serverVars
               PROVE  BoundRouteHoldsSwitches'
    OBVIOUS
  <2>1. [RecoveryNext]_vars \/ \E c \in Route : Correct(c)
    BY ProcessStep DEF ProcessInv
  <2>2. ASSUME NEW c \in Route, Correct(c) PROVE BoundRouteHoldsSwitches'
    BY <2>2 DEF Correct, locks, switches, signals, BoundRouteHoldsSwitches
  <2>3. QED
    BY <2>1, <2>2, BoundSwitchesStep DEF ProcessInv
<1>3. QED
  BY <1>1, <1>2, ProcessInvAlways, PTL DEF ServerSpec

(* Halfway through a recovery, too, an open signal shows a safe route.      *)
THEOREM ProcessSignals ==
    ASSUME SharedSwitchesConflict, SignalsTellRoads
    PROVE  ServerSpec => []OpenSignalIsSafe
<1>1. ServerInit => OpenSignalIsSafe
  BY DEF ServerInit, Init, OpenSignalIsSafe
<1>2. /\ ProcessInv /\ ProcessInv'
      /\ BoundRouteHoldsSwitches
      /\ OpenSignalIsSafe
      /\ [ServerNext]_serverVars
      => OpenSignalIsSafe'
  <2> SUFFICES ASSUME ProcessInv, ProcessInv', BoundRouteHoldsSwitches,
                      OpenSignalIsSafe, [ServerNext]_serverVars
               PROVE  OpenSignalIsSafe'
    OBVIOUS
  <2>1. [RecoveryNext]_vars \/ \E c \in Route : Correct(c)
    BY ProcessStep DEF ProcessInv
  <2>2. ASSUME NEW c \in Route, Correct(c) PROVE OpenSignalIsSafe'
    BY <2>2
    DEF Correct, switches, signals, OpenSignalIsSafe, ProcessInv, BoundInv,
        BoundRouteIsLocked
  <2>3. QED
    BY <2>1, <2>2, OpenSignalStep DEF ProcessInv
<1>3. QED
  BY <1>1, <1>2, ProcessInvAlways, ProcessBoundSwitches, PTL DEF ServerSpec

(* The process with its statements, its crashes and its recoveries keeps    *)
(* the promise of RouteLocking.                                             *)
THEOREM ProcessImplementation ==
    ASSUME SharedSwitchesConflict
    PROVE  ServerSpec => KeepsPromise
<1> DEFINE Inv == ProcessInv /\ HolderInv
<1>1. ServerInit => HolderInv
  BY TypeInit, NoneAssumption
  DEF ServerInit, Init, HolderInv, HolderHoldsSwitches, HoldsLock, LockInv,
      LocksHaveOwners, LockedSwitchesInPosition, LockHoldersLogged
<1>2. ProcessInv /\ ProcessInv' /\ HolderInv /\ [ServerNext]_serverVars
        => HolderInv' /\ [Promise!Next]_<<Holders, swPos>>
  <2> SUFFICES ASSUME ProcessInv, ProcessInv', HolderInv,
                      [ServerNext]_serverVars
               PROVE  HolderInv' /\ [Promise!Next]_<<Holders, swPos>>
    OBVIOUS
  <2>1. [RecoveryNext]_vars \/ \E c \in Route : Correct(c)
    BY ProcessStep DEF ProcessInv
  <2>2. ASSUME NEW c \in Route, Correct(c)
        PROVE  HolderInv' /\ [Promise!Next]_<<Holders, swPos>>
    <3>1. UNCHANGED <<secLock, swLock, swPos>>
      BY <2>2 DEF Correct, locks, switches
    <3>2. Holders' = Holders /\ HolderHoldsSwitches'
      BY <3>1 DEF Holders, HoldsLock, HolderInv, HolderHoldsSwitches
    <3>3. QED
      BY <3>1, <3>2 DEF ProcessInv, BoundInv, HolderInv
  <2>3. CASE [RecoveryNext]_vars
    <3>1. HolderInv'
      BY <2>3, HolderInvInductive
    <3>2. QED
      BY <2>3, <3>1, StepKeepsPromise
  <2>4. QED
    BY <2>1, <2>2, <2>3
<1>3. ServerInit => Promise!Init
  BY NoneAssumption, SameYard DEF ServerInit, Init, Promise!Init, HoldsLock
<1>4. [Promise!Next]_<<Holders, swPos>>
        => [Promise!Next]_<<{r \in Route : HoldsLock(r)}, swPos>>
  BY DEF Holders
<1>5. QED
  BY <1>1, <1>2, <1>3, <1>4, ProcessInvAlways, PTL
  DEF ServerSpec, KeepsPromise, Promise!Spec

-----------------------------------------------------------------------------
(* With rebuilds among the requests.                                        *)

LEMMA SwitchesInPositionStep ==
    ASSUME TypeOK, LockedSwitchesInPosition, [RecoveryNext]_vars
    PROVE  LockedSwitchesInPosition'
<1> USE NoneAssumption, NeedsAssumption
    DEF TypeOK, LockedSwitchesInPosition, locks, switches, Required
<1>1. ASSUME NEW r \in Route, RouteStep(r)
      PROVE  LockedSwitchesInPosition'
  BY <1>1 DEF RouteStep, DefineRoute, Establish, CancelImmediate, CancelTimed,
              CompleteDelayedCancel, FaultUnlock, ReleaseRouteLocks,
              ReleasedSwitches
<1>2. ASSUME NEW w \in Switch, SwitchStep(w)
      PROVE  LockedSwitchesInPosition'
  BY <1>2 DEF SwitchStep, Reverse, SetIndication, CheckSwitchMove
<1>3. ASSUME NEW s \in Section, TrainStep(s)
      PROVE  LockedSwitchesInPosition'
  BY <1>3 DEF TrainStep, Occupy, ClearSection, ClearTerminal, ReleasedSwitches
<1>4. ASSUME Tick \/ Replay \/ UNCHANGED vars
      PROVE  LockedSwitchesInPosition'
  BY <1>4 DEF Tick, Replay, vars
<1>5. QED
  BY <1>1, <1>2, <1>3, <1>4 DEF RecoveryNext, Next

(* A rebuild that writes stale states over locked routes, abandoned halfway *)
(* or not, still lets no locked switch leave its position: the lock of the  *)
(* switch is looked at, not the state of the route.                         *)
THEOREM RebuildKeepsSwitches == RebuildSpec => []LockedSwitchesInPosition
<1>1. ServerInit => LockedSwitchesInPosition
  BY DEF ServerInit, Init, LockedSwitchesInPosition
<1>2. StepsInv /\ LockedSwitchesInPosition /\ [RebuildNext]_serverVars
        => LockedSwitchesInPosition'
  <2> SUFFICES ASSUME StepsInv, LockedSwitchesInPosition,
                      [RebuildNext]_serverVars
               PROVE  LockedSwitchesInPosition'
    OBVIOUS
  <2>1. [RecoveryNext]_vars \/ \E c \in Route : Correct(c)
    BY RowsStep DEF StepsInv
  <2>2. ASSUME NEW c \in Route, Correct(c) PROVE LockedSwitchesInPosition'
    BY <2>2 DEF Correct, locks, switches, LockedSwitchesInPosition
  <2>3. QED
    BY <2>1, <2>2, SwitchesInPositionStep DEF StepsInv, ServerTypeOK
<1>3. QED
  BY <1>1, <1>2, StepsInvAlways, PTL DEF RebuildSpec, RebuildNext
=============================================================================
