CONSTANTS
    ByteBits = 1
    Pow2 <- MCPow2
    StackBase = 16
    StackSize = 16
    Reg = {"zero", "ra", "sp", "t0"}
    OverflowChecks = TRUE
    Lengths = {2, 3}
    Programs <- MCPrograms
SPECIFICATION Spec
INVARIANT EveryCodeCycleHasALoop
CHECK_DEADLOCK FALSE
