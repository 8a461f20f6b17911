------------------------------- MODULE Claims -------------------------------
(***************************************************************************)
(* What comments of the code say of the program and the program does not   *)
(* do.  Each property is checked by a run of its own that finds it         *)
(* violated; the README tells the story of each counterexample.            *)
(***************************************************************************)
EXTENDS Recovery

(* internal/model/model.go:148: approach_locked is an established route     *)
(* whose approach section is now occupied.  A train that enters the         *)
(* approach section turns one route into approach_locked, established or    *)
(* not, and leaves every other established route it approaches as it was.   *)
ApproachIsLocked ==
    [][\A r \in Route :
          routeState[r] = "established" /\ Approach[r] \in occupied' \ occupied
              => routeState'[r] = "approach_locked"]_vars

(* internal/model/model.go:145: an established route has its switches       *)
(* locked to their required positions.  A route that requires the switch in *)
(* the same position takes over the lock and gives it up.                   *)
EstablishedRouteIsSet ==
    \A r \in Route : routeState[r] = "established" =>
        \A w \in Required(r) : swLock[w] # None /\ swPos[w] = Needs[r][w]

(* internal/signaling/signaling.go:3: a signal shows red unless its route   *)
(* is established with switches locked in the required positions.  The      *)
(* refresh after an indication asks only for a locking state, which the     *)
(* approach lock of a route that was never set is, too.                     *)
OpenSignalIsSet ==
    \A g \in Signal : aspect[g] # "R" =>
        \E r \in Route :
            /\ Source[r] = g
            /\ IsLocked(r)
            /\ \A w \in Required(r) : swLock[w] # None

(* internal/model/model.go:151: if the train passes the home signal before  *)
(* the timer, the cancel is abandoned and the route returns to Established. *)
(* ApplyMove never sets AbandonCancelRoute.                                 *)
TrainAbandonsCancel ==
    [][\A r \in Route : \A s \in Sections(r) :
          /\ routeState[r] = "cancelling"
          /\ protects[Source[r]] = r
          /\ s \in occupied' \ occupied
          => routeState'[r] = "established"]_vars

(* internal/service/diagram_reconcile_service.go:97: recovery converges to  *)
(* the state as if every event had been applied, which is the state the     *)
(* methods left when they appended their events.  The replay knows neither  *)
(* approach locks nor fault-unlocks, and takes an immediate cancel for one  *)
(* in progress.                                                             *)
RestartKeepsState ==
    [][Replay => routeState' = routeState]_vars
=============================================================================
