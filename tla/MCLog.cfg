CONSTANTS
    MaxEntries = 3
    MaxTime = 2
    Retention = 0
    MaxStops = 3
    MaxFaults = 1
    RootsKept = 2
    MaxLeaves = 9
    MaxBeats = 2
SPECIFICATION ReviewSpec
INVARIANTS BreakMeansDamage RecordedIsKept ReviewVerifies AlarmHasACause
PROPERTIES ReadsAsAppendOnly
CHECK_DEADLOCK FALSE
