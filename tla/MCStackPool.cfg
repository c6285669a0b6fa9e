CONSTANTS
    StackCount = 4
    MaxArrivals = 6
    MaxNmi = 2
SPECIFICATION Spec
INVARIANTS StacksDistinct NoStackLost OwnContext
PROPERTIES InterruptsEnd
CHECK_DEADLOCK FALSE
