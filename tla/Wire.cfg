SPECIFICATION WireSpec
CONSTANTS
    Texts <- AllTexts
    Sizes <- AllSizes
    MaxDepth = 3
    Intents <- SomeIntents
    MaxFaults = 2
    Width = 2
    LastTick = 1
    ByteBits = 4
    DigitBits = 3
    MaxEdits = 1
INVARIANTS ExactlyStrict SameRequestEveryWay Rejected NothingIgnored NothingForged OneTextPerValue RoundTrip
\* Each of the calls returns.
CHECK_DEADLOCK FALSE
