\* A user who may mine again before a cancelled worker noticed: does Cancel stop it?
SPECIFICATION MinerSpec
CONSTANTS
    MaxSeeds = 1
    Utxos = {u1, u2}
    Underfunded = {u2}
    Budget = 2
    Workers = {w1, w2, w3}
    None = None
    Impatient = TRUE
PROPERTIES
    CancelStopsWorker
