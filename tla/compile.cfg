SPECIFICATION Spec
CONSTANTS
    MAXVISLAB = 6
    MAXSCHTO = 24
    OUTBUFSIZE = 9
    done = done
    Names = {done}
    Programs <- MCPrograms
    Values <- MCValues
INVARIANTS SameAsSource StackRight BranchesReach
CHECK_DEADLOCK FALSE
