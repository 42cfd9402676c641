CONSTANTS
    Schema <- MCSchema
    Enum <- MCEnum
    Given <- MCGiven
    Contract = {pool, factory}
    Template = {pair}
    Context <- MCContext
    MaxBlock = 2
    Byte = 4
    LogBase = 2
    Precision = 3
    MinExp <- MCMinExp
    MaxExp = 3
    Integer <- MCInteger
    BigDecimal <- MCBigDecimal
    Shift = {0, 1, 3}
    Types <- MCTypes
    Layout <- MCLayout
    WordSize = 4
    ByteSize = 8
    Variable <- MCVariable
    Reads <- MCReads
    Token <- MCToken
SPECIFICATION MCSpec
INVARIANTS GivenIsReturned NumbersExact StorageReadBack ValuesKeepKinds
CHECK_DEADLOCK FALSE
