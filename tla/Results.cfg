SPECIFICATION ResultsSpec
CONSTANTS
    MaxWrites = 2
    Plans <- SomePlans
    Decoders = 3
    MaxCanonical = 4
    Places <- SomePlaces
    MaxErrors = 3
    ReportLimit = 2
INVARIANTS KeptFrozen SharedOnlyAsDocumented PassesIffSame ReportLeadsToPlaces
\* Each of the parts comes to an end.
CHECK_DEADLOCK FALSE
