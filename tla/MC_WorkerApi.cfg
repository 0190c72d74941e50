CONSTANTS
    MaxCalls = 3
SPECIFICATION FairSpec
INVARIANTS TypeOK OkIffAnswered
PROPERTIES GetReturns
