CONSTANTS
    ByteBits = 1
    Pow2 <- MCPow2
    StackBase = 16
    StackSize = 16
    Reg = {"zero", "ra", "sp", "a0", "a1"}
    OverflowChecks = TRUE
    Source = {"blank", "move", "load", "add", "entry"}
    Blank = "blank"
    Example = {"add", "load"}
    Register = {"a0", "a1"}
    Filled = {"7", "8"}
    Invalid = {"?"}
    Empty = ""
    Needs <- MCNeeds
    Timer = {1, 2}
    Users <- MCUsers
SPECIFICATION Spec
CHECK_DEADLOCK FALSE
INVARIANTS
    TypeOK
    RunsAreStartedRight
    OneRunIsLoaded
    InspectorIsCurrent
    NoStrayInterval
PROPERTIES
    ReloadKeepsWork
    PlaybackReachesTheEnd
