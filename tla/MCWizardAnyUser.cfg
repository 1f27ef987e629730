\* A user who goes back to any quiz and mines again at once.
SPECIFICATION Spec
SYMMETRY Symmetry
CONSTANTS
    MaxSeeds = 2
    Utxos = {u1, u2}
    Underfunded = {}
    Budget = 1
    Workers = {w1, w2}
    None = None
    Impatient = TRUE
    Faults = {}
    RollsFor128 = 1
    MaxRolls = 1
    QuizLen = 2
    Requiz = TRUE
INVARIANTS
    QuizAgrees
    MineNeverStalls
