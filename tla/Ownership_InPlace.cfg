SPECIFICATION Spec
CONSTANTS
    NamedParts = {1}
    Allowance <- NestedAllowance
    MaxStatements <- NestedMaxStatements
INVARIANT
    NoDoubleEnd
CHECK_DEADLOCK FALSE
