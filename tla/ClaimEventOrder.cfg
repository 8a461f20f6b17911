SPECIFICATION Spec
CONSTANTS
    Base = 2
    Width = 2
    Zone = "Z"
    MaxTime = 8
    MaxEvents = 3
INVARIANTS
    ListedInTimeOrder
CHECK_DEADLOCK FALSE
