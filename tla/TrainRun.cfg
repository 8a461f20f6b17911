SPECIFICATION FairTrainSpec
CONSTANTS
    None = None
    r1 = r1
    r2 = r2
    ap = ap
    x = x
    y = y
    m = m
    b = b
    w = w
    p1 = p1
    p2 = p2
    SA = SA
    SB = SB
    MaxTrains = 2
    Route = {r1, r2}
    Section = {p1, p2, x, m}
    Switch = {w}
    Signal = {SA, SB}
    Path <- MergePath
    Approach <- MergeApproach
    Needs <- MergeNeeds
    SwitchSection <- MergeSwitch
    Source <- MergeSource
    Delay <- MergeDelay
INVARIANTS
    NoCollision
    RoadStaysSet
PROPERTIES
    TrainReleasesRoute
