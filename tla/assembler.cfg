CONSTANTS
    ByteBits = 1
    Pow2 <- MCPow2
    StackBase = 16
    StackSize = 16
    Reg = {"zero", "ra", "sp", "t0"}
    OverflowChecks = TRUE
    Label = {"f", "g"}
    RegName = {"zero", "ra", "sp", "t0", "fp"}
    Directive = {"global", "section"}
    TextLength = 5
    Samples <- MCSamples
    Sources <- MCSources
SPECIFICATION Spec
INVARIANTS
    TypeOK
    BranchesReachTheirLabels
    EntryIsFirstGlobal
    LoweringKeepsMeaning
    OnlyFaultyTextIsRefused
CHECK_DEADLOCK FALSE
