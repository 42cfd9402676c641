SPECIFICATION Spec
CONSTANTS
    Schema <- BlogSchema
    Patterns <- BlogPatterns
    Version <- BlogVersion
    Query <- BlogQuery
    MaxNumber = 3
    DefaultLimit = 3
INVARIANTS RelationsAsStored 
PROPERTY ListsAsAsked
CHECK_DEADLOCK FALSE
