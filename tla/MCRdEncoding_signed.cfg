SPECIFICATION EncSpec
CONSTANTS
    VBits = 5
    VGroup = 2
    SignedValues <- MCSigned
    HexBytes <- MCHexBytes
    MaxValues = 2
    MaxHex = 2
INVARIANT SignedValuesArrive
CHECK_DEADLOCK FALSE
