\* Reliable storage, a patient user who re-proves only the newest identity.
SPECIFICATION Spec
CONSTANTS
    MaxSeeds = 2
    Utxos = {u0, u1, u2}
    Underfunded = {u0}
    Budget = 1
    Workers = {w1}
    None = None
    Impatient = FALSE
    Faults = {}
    RollsFor128 = 2
    MaxRolls = 3
    QuizLen = 2
    Requiz = FALSE
INVARIANTS
    TypeOK
    RollsAgree
    SavedIndexIsDrafts
    OutcomeIsDrafts
    NoKeyAfterLive
    PastQuizIsOnDisk
    ResumesSameJob
PROPERTIES
    AttestedForGood
    OrphanedOnlyByRestart
    ImplementsLifecycle
