SPECIFICATION Spec
CONSTANTS
    None = None
    r1 = r1
    r2 = r2
    ap = ap
    x = x
    y = y
    m = m
    b = b
    w = w
    p1 = p1
    p2 = p2
    SA = SA
    SB = SB
    Route = {r1, r2}
    Section = {ap, x, b}
    Switch = {w}
    Signal = {SA}
    Path <- ForkPath
    Approach <- ForkApproach
    Needs <- ForkNeeds
    SwitchSection <- ForkSwitch
    Source <- ForkSource
    Delay <- ForkDelay
PROPERTIES
    ApproachIsLocked
