CONSTANTS
    l1 = l1  l2 = l2  l3 = l3
    Libs <- ThreeLibs
    MaxChanges = 3
    MaxStreams = 2
SPECIFICATION Spec
INVARIANTS StaysFindable
PROPERTIES Recovers
CHECK_DEADLOCK FALSE
