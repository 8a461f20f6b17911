SPECIFICATION RecoverySpec
CONSTANTS
    None = None
    r1 = r1
    r2 = r2
    ap = ap
    x = x
    y = y
    m = m
    b = b
    w = w
    p1 = p1
    p2 = p2
    SA = SA
    SB = SB
    Route = {r1}
    Section = {ap, x}
    Switch = {w}
    Signal = {SA}
    Path <- StubPath
    Approach <- StubApproach
    Needs <- StubNeeds
    SwitchSection <- StubSwitch
    Source <- StubSource
    Delay <- StubDelay
PROPERTIES
    RestartKeepsState
