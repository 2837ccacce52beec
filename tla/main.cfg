CONSTANTS
    Reg = {"zero", "a0", "a1"}
    Number = {"1", "2"}
    Proc = {1, 2, 3}
    Path = {"t.asm", "t.trace", "t.analysis", "t.result", "other"}
    Stem <- MCStem
    Program <- MCProgram
    Limit = {"5", "10000"}
    Width = {"1", "4"}
    Split <- MCSplit
    Port = {"80", "3000"}
    Client = {1, 2, 3}
    ReadMax = 2
    ClientPort = "3000"
    Scenarios <- MCScenarios
SPECIFICATION Spec
CHECK_DEADLOCK FALSE
INVARIANTS
    TypeOK
    FlagsAgreeWithApi
    FilesAgeInOrder
    AnswersAreRight
PROPERTIES
    ImplementsService
