CONSTANTS
    token = token
    pool = pool
    router = router
    factory = factory
    Given <- MCGiven
    DataSources <- MCDataSources
    EventDecl <- MCEventDecl
    FunctionDecl <- MCFunctionDecl
    VariableDecl <- MCVariableDecl
    Entity <- MCEntity
    MaxEvents = 1
    MaxNodes = 1
SPECIFICATION MCSpec
INVARIANTS DeclarationsServed ReturnsKept EventsFit
CHECK_DEADLOCK FALSE
