---------------------------- MODULE RouteLocking ----------------------------
(***************************************************************************)
(* What an interlocking promises, whatever its tables, timers and events:  *)
(* routes are set and given up, two conflicting routes are never set at    *)
(* the same time, and no switch moves under a set route.                   *)
(***************************************************************************)
EXTENDS Yard

VARIABLES
    held,  \* the routes that hold locks
    pos    \* the positions of the switches

Init == held = {} /\ pos \in [Switch -> Position]

(* r is set while no conflicting route is, with its switches moved into     *)
(* place.                                                                   *)
Set(r) ==
    /\ \A c \in held : ~Conflicts(r, c)
    /\ held' = held \cup {r}
    /\ pos' = [w \in Switch |-> IF w \in Required(r) THEN Needs[r][w]
                                ELSE pos[w]]

(* Routes are given up: a recovery may give up several at once.             *)
Release ==
    /\ held' \in SUBSET held
    /\ pos' = pos

(* A switch no set route requires is moved.                                 *)
Move(w) ==
    /\ \A r \in held : w \notin Required(r)
    /\ pos' = [pos EXCEPT ![w] = Opposite(@)]
    /\ held' = held

Next == (\E r \in Route : Set(r)) \/ Release \/ (\E w \in Switch : Move(w))

Spec == Init /\ [][Next]_<<held, pos>>

(* No two conflicting routes are set, and a set route has its switches in   *)
(* the positions it requires.                                               *)
RouteSafety ==
    /\ \A c, d \in held : ~Conflicts(c, d)
    /\ \A r \in held : \A w \in Required(r) : pos[w] = Needs[r][w]
=============================================================================
