SPECIFICATION Spec
CONSTANTS
    None = None
    r1 = r1
    r2 = r2
    ap = ap
    x = x
    y = y
    m = m
    b = b
    w = w
    p1 = p1
    p2 = p2
    SA = SA
    SB = SB
    Route = {r1, r2}
    Section = {ap, x, y, m}
    Switch = {}
    Signal = {SA, SB}
    Path <- LinePath
    Approach <- LineApproach
    Needs <- LineNeeds
    SwitchSection <- LineSwitch
    Source <- LineSource
    Delay <- LineDelay
INVARIANTS
    ConflictingLocksExclude
    CancellingHasTimer
PROPERTIES
    FreedSectionIsClear
    OnceSinceEstablished
    ApproachLockRespected
