SPECIFICATION Spec
CONSTANTS
    Room = 5
    Threshold = "majority"
    Units <- MCStandIns
    MaxParents = 2
INVARIANTS OnePlaceOneVote
CHECK_DEADLOCK FALSE
