CONSTANTS
    ByteBits = 1
    Pow2 <- MCPow2
    StackBase = 8
    StackSize = 8
    LoadsAt = {7, 8, 12, 15, 16, 255}
    StoresAt = {8, 9, 12, 16}
    Patterns = {83, 172}
    Requests <- MCRequests
SPECIFICATION Spec
INVARIANT TypeOK
PROPERTY ImplementsFlatMemory
