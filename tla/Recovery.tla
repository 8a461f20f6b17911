------------------------------ MODULE Recovery ------------------------------
(***************************************************************************)
(* The interlocking with restarts: main runs ReconcileAll                  *)
(* (service/diagram_reconcile_service.go) over the database before it      *)
(* serves requests, and POST /admin/rebuild runs it again on demand.       *)
(*                                                                         *)
(* The process keeps no state outside SQLite and every method is one       *)
(* transaction, so a crash loses nothing that was committed.  ReconcileAll *)
(* first corrects the route states, which is the one action Replay here,   *)
(* and then completes the timed cancels that are due: each completion is a *)
(* CompleteDelayedCancel, which a client may call as well.  Module Server  *)
(* takes the recovery apart into the steps it makes.                       *)
(***************************************************************************)
EXTENDS Interlocking

(* Every route whose logged state differs from the stored one is corrected. *)
Replayed ==
    [r \in Route |-> IF Defined(r) /\ logged[r] # "none" THEN logged[r]
                     ELSE routeState[r]]

Replay ==
    /\ routeState' = Replayed
    /\ UNCHANGED <<occupied, locks, switches, signals, once, timer, logged>>

RecoveryNext == Next \/ Replay

RecoverySpec == Init /\ [][RecoveryNext]_vars

-----------------------------------------------------------------------------
(* Properties *)

(* Seen from outside, the interlocking with its restarts is RouteLocking:   *)
(* a route is set when it holds a lock.                                     *)
Promise == INSTANCE RouteLocking WITH held <- {r \in Route : HoldsLock(r)},
                                      pos <- swPos
KeepsPromise == Promise!Spec
=============================================================================
