\* Two tickets and two coins, a UTXO entered rightly or with a wrong amount, the
\* device's random numbers drawn from the ticket.
SPECIFICATION Spec
CONSTANTS
    None = None
    UnitBits = 3
    WordBits = 2
    MinUnits = 2
    MaxUnits = 4
    PatpGroup = 2
    ScrambleBytes = 0
    Unscramble <- Reverse
    Checksum <- MCChecksum
    Order = 30011
    OddY <- MCOddY
    Master <- MCMaster
    Hmac <- MCHmac
    TapTweak <- MCTapTweak
    CommitFee = 1
    RevealFee = 2
    Dust = 2
    Tickets <- MCTickets
    Taps <- MCTaps
    WalletCoins <- MCWalletCoins
    Utxos <- MCUtxos
    Rings = {1, 2}
    RingOf <- MCRingOf
    OsRandom = FALSE
CHECK_DEADLOCK FALSE
INVARIANTS
    PaperRecovers
    SpawnConfirms
    NothingStranded
    AttestsItsSat
