------------------------------ MODULE MCYards ------------------------------
(***************************************************************************)
(* The small yards the runs are made on.                                   *)
(***************************************************************************)
EXTENDS Yard, TLC

CONSTANTS r1, r2, ap, x, y, m, b, p1, p2, w, SA, SB

(* Fork: the two shortest routes over a switch.  From the arrival signal SA *)
(* in rear of a switch w that lies in x, r1 runs straight to the end of x   *)
(* and r2 diverges over x to the bay b; both are approached over ap.        *)
(*      ap ---SA--- x <                                                     *)
(*                      b                                                   *)
ForkPath     == (r1 :> <<x>>) @@ (r2 :> <<x, b>>)
ForkApproach == (r1 :> ap) @@ (r2 :> ap)
ForkNeeds    == (r1 :> (w :> "normal")) @@ (r2 :> (w :> "reverse"))
ForkSwitch   == (w :> x)
ForkSource   == (r1 :> SA) @@ (r2 :> SA)
ForkDelay    == (r1 :> 1) @@ (r2 :> 1)

(* Line: a train route r1 from SA over x and y to m, and a shunt r2 from SB *)
(* at the far end back into y.  r2 is approached over m, which r1 traverses *)
(* and which r2 lists as its first section.                                 *)
(*      ap ---SA--- x --- y ---SB--- m                                      *)
LinePath     == (r1 :> <<x, y, m>>) @@ (r2 :> <<m, y>>)
LineApproach == (r1 :> ap) @@ (r2 :> m)
LineNeeds    == (r1 :> <<>>) @@ (r2 :> <<>>)
LineSwitch   == <<>>
LineSource   == (r1 :> SA) @@ (r2 :> SB)
LineDelay    == (r1 :> 2) @@ (r2 :> 1)

(* Crossover: two parallel tracks joined by a crossover whose two ends are  *)
(* one switch w; r1 and r2 run straight along either track and both need w  *)
(* normal, so they do not conflict.                                         *)
(*      p1 ---SA--- x                                                       *)
(*      p2 ---SB--- y                                                       *)
CrossoverPath     == (r1 :> <<x>>) @@ (r2 :> <<y>>)
CrossoverApproach == (r1 :> p1) @@ (r2 :> p2)
CrossoverNeeds    == (r1 :> (w :> "normal")) @@ (r2 :> (w :> "normal"))
CrossoverSwitch   == (w :> x)
CrossoverSource   == (r1 :> SA) @@ (r2 :> SB)
CrossoverDelay    == (r1 :> 1) @@ (r2 :> 1)

(* Merge: two approaches join at a trailing switch w that lies in x; r1 and *)
(* r2 both end on the platform track m.                                     *)
(*      p1 ---SA---\                                                        *)
(*                  x --- m                                                 *)
(*      p2 ---SB---/                                                        *)
MergePath     == (r1 :> <<x, m>>) @@ (r2 :> <<x, m>>)
MergeApproach == (r1 :> p1) @@ (r2 :> p2)
MergeNeeds    == (r1 :> (w :> "normal")) @@ (r2 :> (w :> "reverse"))
MergeSwitch   == (w :> x)
MergeSource   == (r1 :> SA) @@ (r2 :> SB)
MergeDelay    == (r1 :> 0) @@ (r2 :> 0)

(* Face: two routes that meet on the one section x, from either side.       *)
(*      p1 ---SA--- x ---SB--- p2                                           *)
FacePath     == (r1 :> <<x>>) @@ (r2 :> <<x>>)
FaceApproach == (r1 :> p1) @@ (r2 :> p2)
FaceNeeds    == (r1 :> <<>>) @@ (r2 :> <<>>)
FaceSwitch   == <<>>
FaceSource   == (r1 :> SA) @@ (r2 :> SB)
FaceDelay    == (r1 :> 1) @@ (r2 :> 0)

(* Stub: one straight route.                                                *)
StubPath     == (r1 :> <<x>>)
StubApproach == (r1 :> ap)
StubNeeds    == (r1 :> (w :> "normal"))
StubSwitch   == (w :> x)
StubSource   == (r1 :> SA)
StubDelay    == (r1 :> 2)
=============================================================================
