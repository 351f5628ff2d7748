\* The system is made, used and terminated, again and again.
SPECIFICATION FairSpec
CONSTANTS
    MaxCookie = 2
    MaxOthers = 2
INVARIANTS NoNullScan CloseWithoutMonitor NothingOutlives OnlyUnregisterLosesAWalk
PROPERTIES CallsReturn
CHECK_DEADLOCK FALSE
