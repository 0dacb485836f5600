CONSTANTS
    Cap = 1
    MaxSent = 5
SPECIFICATION FairSpec
INVARIANTS TypeOK ClosedOnce
PROPERTIES ImplementsEcho AllEnd EchoEventually
CHECK_DEADLOCK FALSE
