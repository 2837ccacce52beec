CONSTANTS
    ByteBits = 1
    Pow2 <- MCPow2
    StackBase = 16
    StackSize = 16
    Reg = {"zero", "ra", "sp", "t0", "t1"}
    OverflowChecks = FALSE
    Jobs <- MCReleaseJobs
SPECIFICATION Spec
CHECK_DEADLOCK FALSE
INVARIANTS
    TypeOK
    SnapshotsMatchMachine
    TraceAccountsForMemory
    FirstSnapshotTakesInputs
    OutcomeMatchesHistory
    ArithmeticIsRight
    PanicsOnlyInDivision
