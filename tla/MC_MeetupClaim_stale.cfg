CONSTANTS
    p1 = p1
    p2 = p2
    p3 = p3
    Participants <- MCParticipants
    OneDay = 720
    PhaseDuration <- MCPhaseDuration
    StartTimestamp = 0
    LonScale = 2
    Locations <- MCLocations
    MeetupOf <- MCMeetupOf
    MaxCeremonyIndex = 2
SPECIFICATION Spec
INVARIANT ClaimIsOfCeremony
