\* A user who lets a cancelled worker notice before mining again.
SPECIFICATION MinerSpec
CONSTANTS
    MaxSeeds = 2
    Utxos = {u1, u2}
    Underfunded = {u2}
    Budget = 3
    Workers = {w1, w2}
    None = None
    Impatient = FALSE
INVARIANTS
    MinerTypeOK
    AnswerIsForThisRun
PROPERTIES
    TriesNeverGoBack
    ImplementsService
