\* Every text, spawn, noun and comet of the small instance.
SPECIFICATION Spec
CONSTANTS
    None = None
    ByteBits = 2
    DigitBits = 2
    GroupLen = 3
    UnitBits = 3
    WordBits = 2
    MinUnits = 2
    MaxUnits = 4
    PatpGroup = 2
    ScrambleBytes = 4
    Unscramble <- MCUnscramble
    Checksum <- MCChecksum
    Sha <- MCSha
    HashBits = 24
    CurveOrder = 8191
    PassTag = 3
    RingTag = 2
    TweakPrefix <- MCTweakPrefix
    Salt <- MCSalt
    RequiredStar = 2
    StarBits = 2
    ChunkBytes = 20
    ValueBits = 5
    IpBits <- MCIpBits
    PortBits = 2
    Texts <- MCTexts
    TxidHex = 6
    HexBits = 1
    MaxVout = 15
    MaxSats = 31
    Rings <- MCRings
    MaxTries = 3
    FeeRate = 1
    CommitVb = 1
    RevealVb = 1
    Dust = 2
    FundingSpk <- MCFundingSpk
    LeafKey <- MCLeafKey
    Spawns <- MCSpawns
    Nouns <- MCNouns
    Comets <- MCComets
CHECK_DEADLOCK FALSE
INVARIANTS
    FailsOnlyIfShort
    LeafReadsBack
    FeedReadsBack
    CometProvesItself
    NamesReadBack
