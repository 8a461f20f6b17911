-------------------------------- MODULE Yard --------------------------------
(***************************************************************************)
(* The static part of one station of the interlocking: its track           *)
(* sections, its switches, its signals and its route table, as they are    *)
(* stored in SQLite (store/schema.go) and loaded into an interlocking.Yard *)
(* before every operation (service/loadyard.go).                           *)
(*                                                                         *)
(* Abstractions: identifiers are model values; a route's sections are a    *)
(* sequence without the seq numbers that order the rows; names, codes,     *)
(* signal directions, terminals and creation times are left out, no rule   *)
(* reads them.  One station, alone in its database.                        *)
(***************************************************************************)
EXTENDS Naturals, Sequences

CONSTANTS
    Route,          \* route identifiers
    Section,        \* track sections
    Switch,         \* switches (points)
    Signal,         \* signals
    None,           \* the empty string of the *_by_route and approach columns
    Path,           \* Path[r]: the sections r traverses, in order
    Approach,       \* Approach[r]: the section before the home signal, or None
    Needs,          \* Needs[r]: required position of every switch r cares about
    SwitchSection,  \* SwitchSection[w]: the section switch w lies in
    Source,         \* Source[r]: the home signal of r
    Delay           \* Delay[r]: clock steps of the approach-lock delay of r's kind

Position == {"normal", "reverse"}

(* The other position of a switch. *)
Opposite(p) == IF p = "normal" THEN "reverse" ELSE "normal"

ASSUME NoneAssumption ==
    None \notin Route \cup Section \cup Nat

(* The primary key of route_sections makes a path free of repetitions, and  *)
(* validateRouteDefinition refuses an empty one.                            *)
ASSUME PathAssumption ==
    \A r \in Route :
        /\ Path[r] \in Seq(Section)
        /\ Len(Path[r]) > 0
        /\ \A i, j \in 1..Len(Path[r]) : Path[r][i] = Path[r][j] => i = j

ASSUME RouteAssumption ==
    /\ Approach \in [Route -> Section \cup {None}]
    /\ Source \in [Route -> Signal]
    /\ Delay \in [Route -> Nat]
    /\ SwitchSection \in [Switch -> Section]

(* Needs[r] is a function from the switches r requires to positions: the    *)
(* primary key of route_switch_positions allows one row per switch.         *)
ASSUME NeedsAssumption ==
    \A r \in Route :
        /\ DOMAIN Needs[r] \subseteq Switch
        /\ \A w \in DOMAIN Needs[r] : Needs[r][w] \in Position

-----------------------------------------------------------------------------
Sections(r) == {Path[r][i] : i \in 1..Len(Path[r])}

Required(r) == DOMAIN Needs[r]

Terminal(r) == Path[r][Len(Path[r])]

(* The sections a route locks and must find clear: its path, except the     *)
(* approach section when the definition lists it as part of the path.       *)
OwnSections(r) == Sections(r) \ {Approach[r]}

ShareSection(a, b) == Sections(a) \cap Sections(b) # {}

OpposeSwitch(a, b) ==
    \E w \in Required(a) \cap Required(b) : Needs[a][w] # Needs[b][w]

(* The conflict relation of the route table. *)
Conflicts(a, b) == a # b /\ (ShareSection(a, b) \/ OpposeSwitch(a, b))

(* Green for a straight route, double yellow when a switch diverges.        *)
OpenAspect(r) ==
    IF \E w \in Required(r) : Needs[r][w] = "reverse" THEN "YY" ELSE "G"

(* Two definitions of one road: the same sections under the same switches.  *)
SameRoad(a, b) ==
    Path[a] = Path[b] /\ Approach[a] = Approach[b] /\ Needs[a] = Needs[b]

(* Four readings of a yard that a theorem may assume.                       *)
(* No two routes that require the same switch may be set together ...       *)
SharedSwitchesConflict ==
    \A a, b \in Route :
        a # b /\ Required(a) \cap Required(b) # {} => Conflicts(a, b)

(* ... nor may two routes from the same signal ...                          *)
SharedSignalsConflict ==
    \A a, b \in Route : a # b /\ Source[a] = Source[b] => Conflicts(a, b)

(* ... the routes from one signal part at a switch, but for a road that is  *)
(* defined twice ...                                                        *)
SignalsTellRoads ==
    \A a, b \in Route :
        Source[a] = Source[b] => SameRoad(a, b) \/ OpposeSwitch(a, b)

(* ... and a path that lists the approach section begins with it.           *)
ApproachFirst ==
    \A r \in Route : Approach[r] \in Sections(r) =>
        Path[r][1] = Approach[r] /\ Len(Path[r]) > 1
=============================================================================
