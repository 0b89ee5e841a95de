SPECIFICATION SchemaSpec
CONSTANTS
    Configs <- AllConfigs
    ValidNames <- Names
    DefaultBounds <- Defaults
INVARIANTS DescentIsAcyclic IndexComplete AcceptsExactly
\* NewSchema returns.
CHECK_DEADLOCK FALSE
