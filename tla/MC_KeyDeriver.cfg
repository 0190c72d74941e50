CONSTANTS
    n1 = n1
    n2 = n2
    Names <- MCNames
    x0 = x0
    x1 = x1
    Bytes <- MCBytes
    EncLen = 1
SPECIFICATION Spec
INVARIANTS AddressesInjective StfKeysMatchHost
