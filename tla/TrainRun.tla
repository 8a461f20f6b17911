------------------------------ MODULE TrainRun ------------------------------
(***************************************************************************)
(* The interlocking together with the trains it is there to protect.       *)
(*                                                                         *)
(* Interlocking takes occupy and clear reports in any order.  Here they    *)
(* come from trains that run on the track: a train arrives on an approach  *)
(* section, passes the home signal when it is open, runs over the sections *)
(* of the route, and leaves from its terminal or goes on past the next     *)
(* signal.  A section is reported occupied as a train enters it; the       *)
(* report that it is clear comes at any later time before the next train   *)
(* enters; either report may be repeated while it is true (a client that   *)
(* got no answer sends it again).  The database may be recovered while     *)
(* trains run.                                                             *)
(*                                                                         *)
(* Trains, drivers and detectors are not part of the code, which sees them *)
(* through TrainService.Occupy and Clear (service/train_service.go) and    *)
(* takes what they report at its word: an occupy report that comes after   *)
(* the train has gone further, or a clear report after the next train has  *)
(* entered, is not made here.  The code does not tell trains apart: a      *)
(* train is where it stands and where it goes.  Three rules of operation   *)
(* keep out what the runs of Claims show the code not to handle.           *)
(***************************************************************************)
EXTENDS Recovery, FiniteSets

CONSTANT MaxTrains \* bound: trains in the yard at the same time

ASSUME MaxTrainsAssumption == MaxTrains \in Nat

(* on: the sections a train stands on, rear first; road: the route whose    *)
(* home signal it has passed, else None.                                    *)
VARIABLE trains

trainVars == <<vars, trains>>

Front(t) == t.on[Len(t.on)]

StandsOn(t, s) == \E i \in 1..Len(t.on) : t.on[i] = s

Standing(s) == \E t \in trains : StandsOn(t, s)

Inside(r) == \E t \in trains : t.road = r

Train == [on : Seq(Section), road : Route \cup {None}]

(* A train is shorter than any section: it stands on one or two.            *)
TrainTypeOK ==
    /\ TypeOK
    /\ \A t \in trains : t \in Train /\ Len(t.on) \in 1..2

TrainInit == Init /\ trains = {}

-----------------------------------------------------------------------------
(* Trains *)

Becomes(t, u) == trains' = (trains \ {t}) \cup {u}

(* The open line lets a train onto an approach section that is free and     *)
(* belongs to no route.                                                     *)
Arrive(s) ==
    /\ Cardinality(trains) < MaxTrains
    /\ \E r \in Route : Approach[r] = s
    /\ \A r \in Route : s \notin OwnSections(r)
    /\ ~Standing(s)
    /\ trains' = trains \cup {[on |-> <<s>>, road |-> None]}
    /\ Occupy(s)

(* In front of the home signal of r: from the open line, or at the end of   *)
(* the route before.                                                        *)
WaitsFor(t, r) ==
    /\ t.on = <<Approach[r]>>
    /\ t.road # None => Terminal(t.road) = Approach[r]

(* The first section behind the home signal.                                *)
Entry(r) == IF Path[r][1] = Approach[r] THEN 2 ELSE 1

(* r holds locks, and the switches lie for it.                              *)
IsSet(r) == HoldsLock(r) /\ \A w \in Required(r) : swPos[w] = Needs[r][w]

(* Drivers obey red: a train goes when the home signal is open.  Of several *)
(* routes from the signal it runs over the one that is set.                 *)
PassSignal(t, r) ==
    /\ WaitsFor(t, r)
    /\ aspect[Source[r]] # "R"
    /\ (\E d \in Route : Source[d] = Source[r] /\ IsSet(d)) => IsSet(r)
    /\ Becomes(t, [on |-> Append(t.on, Path[r][Entry(r)]), road |-> r])
    /\ Occupy(Path[r][Entry(r)])

Advance(t) ==
    /\ Len(t.on) = 1
    /\ t.road # None
    /\ \E i \in 2..Len(Path[t.road]) :
          /\ Path[t.road][i - 1] = Front(t)
          /\ Becomes(t, [t EXCEPT !.on = Append(@, Path[t.road][i])])
          /\ Occupy(Path[t.road][i])

RearClears(t) ==
    /\ Len(t.on) = 2
    /\ Becomes(t, [t EXCEPT !.on = Tail(@)])
    /\ UNCHANGED vars

Depart(t) ==
    /\ t.road # None
    /\ t.on = <<Terminal(t.road)>>
    /\ trains' = trains \ {t}
    /\ UNCHANGED vars

Run(t) ==
    \/ \E r \in Route : PassSignal(t, r)
    \/ Advance(t)
    \/ RearClears(t)
    \/ Depart(t)

(* What the detection of s reports, once or again.                          *)
ReportOccupied(s) == Standing(s) /\ UNCHANGED trains /\ Occupy(s)

ReportClear(s) ==
    /\ ~Standing(s)
    /\ UNCHANGED trains
    /\ ClearSection(s) \/ ClearTerminal(s)

-----------------------------------------------------------------------------
(* Operators, who keep three rules. *)

(* No route is given up with a train inside (claim_abandon).                *)
RouteRule(r) == ~Inside(r)

(* No indication of a switch is restored while a route that requires it is  *)
(* in a locking state without holding its sections, or has a delay timer,   *)
(* or has been run through: the refresh would open its signal               *)
(* (claim_open_signal), and the marks of the last train, which another      *)
(* route may have taken, would release sections in front of the next one.   *)
IndicationRule(w) ==
    \A r \in Route : IsLocked(r) /\ w \in Required(r) =>
        /\ timer[r] = None
        /\ \A s \in OwnSections(r) :
               secLock[s] = r /\ \A d \in Route : s \notin once[d]

(* No recovery is run that would revive a route that was given up, or give  *)
(* up one in a locking state (claim_recovery); what it completes afterwards *)
(* is bound to no rule.                                                     *)
RecoveryRule == \A r \in Route : Replayed[r] \in LockedState <=> IsLocked(r)

Operate ==
    \/ \E r \in Route : \/ DefineRoute(r)
                        \/ Establish(r)
                        \/ RouteRule(r) /\ RouteStep(r)
    \/ \E w \in Switch : Reverse(w) \/ SetIndication(w, FALSE)
    \/ \E w \in Switch : IndicationRule(w) /\ SetIndication(w, TRUE)
    \/ Tick
    \/ RecoveryRule /\ Replay
    \/ \E r \in Route : timer[r] = 0 /\ CompleteDelayedCancel(r)

TrainNext ==
    \/ Operate /\ UNCHANGED trains
    \/ \E t \in trains : Run(t)
    \/ \E s \in Section : Arrive(s) \/ ReportOccupied(s) \/ ReportClear(s)

TrainSpec == TrainInit /\ [][TrainNext]_trainVars

(* Trains run on, and what they leave is reported in the end.               *)
FairTrainSpec ==
    /\ TrainSpec
    /\ WF_trainVars(\E t \in trains : Run(t))
    /\ WF_trainVars(\E s \in occupied : ReportClear(s))

-----------------------------------------------------------------------------
(* Properties *)

(* No two trains meet on a section: whoever sees the signal open finds the  *)
(* road free, whatever is cancelled, reported late or twice, or recovered.  *)
NoCollision ==
    \A s \in Section : \A t, u \in trains :
        StandsOn(t, s) /\ StandsOn(u, s) => t = u

(* The places on the path of t's route in front of it.                      *)
AheadOf(t) ==
    {i \in 1..Len(Path[t.road]) :
        \A j \in 1..Len(Path[t.road]) : Path[t.road][j] = Front(t) => i > j}

(* In front of a train the road stays set: the sections are locked for its  *)
(* route.  There and under the train so are the switches, in the positions  *)
(* the route needs.                                                         *)
RoadStaysSet ==
    \A t \in trains : t.road # None =>
        /\ \A i \in AheadOf(t) : secLock[Path[t.road][i]] = t.road
        /\ \A w \in Required(t.road) :
              \/ StandsOn(t, SwitchSection[w])
              \/ \E i \in AheadOf(t) : Path[t.road][i] = SwitchSection[w]
              => swLock[w] = t.road /\ swPos[w] = Needs[t.road][w]

(* A train inside r that has left its marks for r on every section it has   *)
(* reached.                                                                 *)
Tracked(r) ==
    \E t \in trains :
        /\ t.road = r
        /\ \A i \in 1..Len(Path[r]) : i \in AheadOf(t) \/ Path[r][i] \in once[r]

(* A train that runs through its route releases it, unless a conflicting    *)
(* route has come into a locking state and takes the marks of the train.    *)
TrainReleasesRoute ==
    \A r \in Route :
        Tracked(r) ~> \/ ~HoldsLock(r)
                      \/ \E d \in Route : Conflicts(r, d) /\ IsLocked(d)
=============================================================================
