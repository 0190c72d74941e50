CONSTANTS
    p1 = p1
    p2 = p2
    p3 = p3
    Participants <- MCPair
    OneDay = 720
    PhaseDuration <- MCPhaseDuration
    StartTimestamp = 0
    LonScale = 2
    Locations <- MCLocations
    MeetupOf <- MCPairMeetupOf
    MaxCeremonyIndex = 2
SPECIFICATION Spec
INVARIANTS PanicOnlyWhenMoved StableClaimIsOfCeremony
