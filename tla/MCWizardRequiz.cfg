\* A user who goes back to the quiz of an older identity.
SPECIFICATION Spec
CONSTANTS
    MaxSeeds = 2
    Utxos = {u0, u1}
    Underfunded = {u0}
    Budget = 1
    Workers = {w1}
    None = None
    Impatient = FALSE
    Faults = {}
    RollsFor128 = 1
    MaxRolls = 1
    QuizLen = 1
    Requiz = TRUE
PROPERTIES
    AttestedForGood
