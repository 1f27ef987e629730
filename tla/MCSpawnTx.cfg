SPECIFICATION Spec
CONSTANTS
    MaxU64 = 10000
    Values <- MCValues
    Rates <- MCRates
    Payloads <- MCPayloads
CHECK_DEADLOCK FALSE
INVARIANTS
    TxTypeOK
    FeesCoverSize
    FeesAreTight
    NoDust
    RefusedOnlyIfShort
    LengthsReadBack
