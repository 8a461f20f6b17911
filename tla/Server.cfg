SPECIFICATION FairServerSpec
CONSTANTS
    None = None
    r1 = r1
    r2 = r2
    ap = ap
    x = x
    y = y
    m = m
    b = b
    w = w
    p1 = p1
    p2 = p2
    SA = SA
    SB = SB
    Route = {r1, r2}
    Section = {p1, p2, x}
    Switch = {}
    Signal = {SA, SB}
    Path <- FacePath
    Approach <- FaceApproach
    Needs <- FaceNeeds
    SwitchSection <- FaceSwitch
    Source <- FaceSource
    Delay <- FaceDelay
PROPERTIES
    StepsAreAtomic
    StartConverges
    CancelEnds
