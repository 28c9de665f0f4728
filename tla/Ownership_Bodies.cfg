SPECIFICATION Spec
CONSTANTS
    NamedParts = {1}
    Allowance <- MCAllowance
    MaxStatements <- MCMaxStatements
INVARIANTS
    TypeOK
    EndsOnlyOwned
    NothingIsLost
    UsesAreOwned
    FixpointReached
CHECK_DEADLOCK FALSE
