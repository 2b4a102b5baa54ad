CONSTANTS
    Relays = {r1, r2}
    MaxAge = 1
    StepBy = 2
    MaxTrouble = 1
SPECIFICATION FairSpec
INVARIANTS TypeOK FileIsTrue JoiningNeverWaitsForTheBeat
PROPERTIES AdvertisedOnlyWhereHeard AdvertisedWhereBothHear
CHECK_DEADLOCK FALSE
