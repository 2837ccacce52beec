CONSTANTS
    ByteBits = 2
    Pow2 <- MCPow2
    StackBase = 4096
    StackSize = 4096
    Reg = {"zero", "ra", "sp", "t0", "t1", "t2", "a0", "a1", "a2"}
    OverflowChecks = TRUE
    Label = {"main", "f", "g"}
    RegName = {"zero", "ra", "sp", "t0", "t1", "t2", "a0", "a1", "a2"}
    Directive = {"global"}
    Allocatable = 64
    Tests = {}
    Requests <- MCArrayRequests
SPECIFICATION Spec
INVARIANT DecodeErrorsAreReported
CHECK_DEADLOCK FALSE
