CONSTANTS
    r1 = r1
    r2 = r2
    Relays = {r1, r2}
    Places <- MCPlaces
    MaxTrouble = 1
    MaxAir = 1
SPECIFICATION FairSpec
INVARIANTS TypeOK HearingSaidIsTrue
PROPERTIES KeepsItsPromise NoAnswerIsTrue ComesToTell AnswerIsLearned
CHECK_DEADLOCK FALSE
