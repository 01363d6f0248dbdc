SPECIFICATION Spec
CONSTANTS
    Names = {"a.o", "b.o", "c"}
    Content <- MCContent
    Jobs <- Moves
    Start <- MCStart
    Fresh <- MCFresh
    MaxJobs = 1
    MaxCrashes = 1
    MaxSize = 24
INVARIANTS MovedNotLost
CHECK_DEADLOCK FALSE
