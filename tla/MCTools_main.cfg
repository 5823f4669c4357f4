SPECIFICATION ToolsSpec
CONSTANTS
    None = None
    Lower <- MCLower
    Calc <- Eval
    Names <- MCNames
    Expressions <- MCExpressions
    MaxRead = 2
    PipeSize = 2
    OutCap = 2
    MaxPrint = 3
    MaxHops = 5
    MaxFollowed = 10
INVARIANTS CalculatorReads ReadsTheFile NothingLeft OutputTold RequestsLogged
PROPERTY CallEnds
CHECK_DEADLOCK FALSE
