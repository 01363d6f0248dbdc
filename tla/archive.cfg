SPECIFICATION Spec
CONSTANTS
    Names = {"a.o", "b.o", "c"}
    Content <- MCContent
    Jobs <- MCJobs
    Start <- MCStart
    Fresh <- MCFresh
    MaxJobs = 2
    MaxCrashes = 1
    MaxSize = 24
INVARIANTS AsAsked NothingLost IndexRight
PROPERTIES Ends
CHECK_DEADLOCK FALSE
