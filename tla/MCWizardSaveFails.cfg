\* A save may fail.
SPECIFICATION Spec
CONSTANTS
    MaxSeeds = 2
    Utxos = {u0, u1}
    Underfunded = {u0}
    Budget = 1
    Workers = {w1}
    None = None
    Impatient = FALSE
    Faults = {"save-fails"}
    RollsFor128 = 1
    MaxRolls = 1
    QuizLen = 1
    Requiz = FALSE
INVARIANTS
    PastQuizIsOnDisk
