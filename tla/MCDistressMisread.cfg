CONSTANTS
    r1 = r1
    r2 = r2
    Relays = {r1, r2}
    Places <- MCPlaces
    MaxTrouble = 1
    MaxAir = 1
SPECIFICATION Spec
INVARIANTS AcknowledgedByAPerson
CHECK_DEADLOCK FALSE
