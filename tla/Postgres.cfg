SPECIFICATION PSpec
CONSTANTS
    Mappings <- AllMappings
    ValidIdentifiers <- Columns
    Plans <- AllPlans
    Subjects <- Asked
INVARIANTS WhereMeansPlan BoundInOrder LikeIsLiteral
\* Compile returns.
CHECK_DEADLOCK FALSE
