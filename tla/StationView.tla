---------------------------- MODULE StationView ----------------------------
(***************************************************************************)
(* What a station diagram shows of the signals: StationView                *)
(* (service/diagram_reconcile_service.go) does not show the stored aspects *)
(* but recomputes each from a locked route that starts at the signal.      *)
(*                                                                         *)
(* Abstraction: the rows are read in one step; the code reads them in      *)
(* several statements, and a method may be committed between two of them.  *)
(***************************************************************************)
EXTENDS Interlocking

(* The loop takes only a route it finds established.                        *)
GuardedEstablished(g) ==
    {r \in Route : Source[r] = g /\ routeState[r] = "established"}

(* The first of these routes, by their codes, decides.                      *)
Guarded(g) == {r \in Route : Source[r] = g /\ IsLocked(r)}

ViewedAspects(g) ==
    IF Guarded(g) = {} THEN {"R"}
    ELSE {ComputeAspect(r, swInd) : r \in Guarded(g)}

-----------------------------------------------------------------------------
(* A signal that is open for the route it is bound to can be shown open,    *)
(* with the aspect it has, and with no other open aspect: the aspects that  *)
(* five methods write one by one agree with the one recomputed from states, *)
(* switches and sections.  It can be shown red where a second route from    *)
(* the signal is in a locking state without being set.  (Not the other way  *)
(* round: the closed signal of a cancelling route is shown open.)           *)
OpenSignalsAreShown ==
    \A g \in Signal : aspect[g] # "R" /\ protects[g] # None =>
        aspect[g] \in ViewedAspects(g) /\ ViewedAspects(g) \subseteq {"R", aspect[g]}
=============================================================================
