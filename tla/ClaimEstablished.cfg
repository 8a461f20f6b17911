SPECIFICATION Spec
CONSTANTS
    None = None
    r1 = r1
    r2 = r2
    ap = ap
    x = x
    y = y
    m = m
    b = b
    w = w
    p1 = p1
    p2 = p2
    SA = SA
    SB = SB
    Route = {r1, r2}
    Section = {p1, p2, x, y}
    Switch = {w}
    Signal = {SA, SB}
    Path <- CrossoverPath
    Approach <- CrossoverApproach
    Needs <- CrossoverNeeds
    SwitchSection <- CrossoverSwitch
    Source <- CrossoverSource
    Delay <- CrossoverDelay
INVARIANTS
    EstablishedRouteIsSet
