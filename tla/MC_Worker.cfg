CONSTANTS
    a1 = a1
    a2 = a2
    c1 = c1
    Absent = Absent
    Accounts <- MCAccounts
    ChainAccounts <- MCChainAccounts
    Cids <- MCCids
    Amounts = {1}
    NonceBits = 2
    MaxCalls = 3
    MaxCeremonyIndex = 1
    MaxBalance = 2
    GenesisBalance <- MCGenesis
    MaxQueue = 2
    MaxSubmissions = 3
SPECIFICATION WSpec
INVARIANT AbortOnlyAfterFirstCall
CHECK_DEADLOCK FALSE
