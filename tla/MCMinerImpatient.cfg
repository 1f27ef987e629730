\* A user who may mine again at once after a Cancel.
SPECIFICATION MinerSpec
CONSTANTS
    MaxSeeds = 1
    Utxos = {u1, u2}
    Underfunded = {u2}
    Budget = 2
    Workers = {w1, w2, w3}
    None = None
    Impatient = TRUE
INVARIANTS
    MineNeverStalls
PROPERTIES
    EveryRunEnds
    EveryWorkerEnds
