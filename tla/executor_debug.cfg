CONSTANTS
    ByteBits = 1
    Pow2 <- MCPow2
    StackBase = 16
    StackSize = 16
    Reg = {"zero", "ra", "sp", "t0", "t1"}
    OverflowChecks = TRUE
    Jobs <- MCDebugJobs
SPECIFICATION Spec
CHECK_DEADLOCK FALSE
INVARIANTS
    OutcomeMatchesHistory
    OverflowIsCaught
    ControlTransfersAreExplained
    OnlyDestinationChanges
PROPERTIES
    ImplementsTraceLog
