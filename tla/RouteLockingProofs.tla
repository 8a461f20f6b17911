------------------------- MODULE RouteLockingProofs -------------------------
(***************************************************************************)
(* RouteLocking keeps routes apart: what an implementation of it inherits. *)
(***************************************************************************)
EXTENDS RouteLocking, TLAPS

LockingType == held \subseteq Route /\ pos \in [Switch -> Position]

LockingInv == LockingType /\ RouteSafety

(* Setting a route moves switches that no set route requires, since a set   *)
(* route that requires one of them conflicts.                               *)
LEMMA SetIsSafe ==
    ASSUME SharedSwitchesConflict, LockingInv, NEW r \in Route, Set(r)
    PROVE  RouteSafety'
<1> USE NeedsAssumption DEF LockingInv, LockingType, Set
<1>1. \A c, d \in held' : ~Conflicts(c, d)
  <2>1. \A c, d \in held : ~Conflicts(c, d)
    BY DEF RouteSafety
  <2>2. \A c \in held : ~Conflicts(r, c) /\ ~Conflicts(c, r)
    BY DEF Conflicts, ShareSection, OpposeSwitch
  <2>3. ~Conflicts(r, r)
    BY DEF Conflicts
  <2>4. QED
    BY <2>1, <2>2, <2>3
<1>2. ASSUME NEW c \in held', NEW w \in Required(c)
      PROVE  pos'[w] = Needs[c][w]
  <2>1. w \in Switch
    BY <1>2 DEF Required
  <2>2. CASE c = r
    BY <2>1, <2>2, <1>2
  <2>3. CASE c # r
    <3>1. c \in held /\ ~Conflicts(r, c)
      BY <2>3, <1>2
    <3>2. w \notin Required(r)
      BY <3>1, <2>3, <1>2 DEF SharedSwitchesConflict
    <3>3. pos[w] = Needs[c][w]
      BY <3>1, <1>2 DEF RouteSafety
    <3>4. QED
      BY <2>1, <3>2, <3>3
  <2>4. QED
    BY <2>2, <2>3
<1>3. QED
  BY <1>1, <1>2 DEF RouteSafety, Conflicts, ShareSection, OpposeSwitch,
                    Sections, Required

(* On a yard where routes that require the same switch conflict, the routes *)
(* that are set never conflict and each has its switches in place.          *)
THEOREM SafeRoutes ==
    ASSUME SharedSwitchesConflict
    PROVE  Spec => []RouteSafety
<1>1. Init => LockingInv
  BY DEF Init, LockingInv, LockingType, RouteSafety
<1>2. LockingInv /\ [Next]_<<held, pos>> => LockingInv'
  <2> SUFFICES ASSUME LockingInv, [Next]_<<held, pos>>
               PROVE  LockingInv'
    OBVIOUS
  <2>1. ASSUME NEW r \in Route, Set(r)
        PROVE  LockingInv'
    <3>1. LockingType'
      BY <2>1, NeedsAssumption
      DEF LockingInv, LockingType, Set, Required, Position
    <3>2. QED
      BY <2>1, <3>1, SetIsSafe DEF LockingInv
  <2>2. CASE Release
    BY <2>2 DEF Release, LockingInv, LockingType, RouteSafety
  <2>3. ASSUME NEW w \in Switch, Move(w)
        PROVE  LockingInv'
    BY <2>3, NeedsAssumption
    DEF Move, LockingInv, LockingType, RouteSafety, Opposite, Position,
        Required
  <2>4. CASE UNCHANGED <<held, pos>>
    BY <2>4 DEF LockingInv, LockingType, RouteSafety
  <2>5. QED
    BY <2>1, <2>2, <2>3, <2>4 DEF Next
<1>3. LockingInv => RouteSafety
  BY DEF LockingInv
<1>4. QED
  BY <1>1, <1>2, <1>3, PTL DEF Spec
=============================================================================
