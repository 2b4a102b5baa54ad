SPECIFICATION Spec
CONSTANTS
    Room = 5
    Threshold = "majority"
    Units <- MCUnits
    MaxParents = 2
INVARIANTS UnitIsSound
PROPERTIES   ElectoratesStayFrozen
CHECK_DEADLOCK FALSE
