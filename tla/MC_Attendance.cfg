CONSTANTS
    u1 = u1
    u2 = u2
    cidA = cidA
    cidB = cidB
    Participants <- MCParticipants
    Cids <- MCCids
    MaxCeremonyIndex = 3
SPECIFICATION Spec
INVARIANT ProofBindsCeremony
