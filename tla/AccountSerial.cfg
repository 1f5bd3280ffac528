CONSTANTS
    NoRow = NoRow  Idle = Idle
    w1 = w1  w2 = w2
    Workers = {w1}
    MaxAttempts = 2
    LockTime = 2
    ResetTime = 1
    TokenTime = 3
    MaxNow = 4
    MaxResets = 1
    MaxSessions = 2
    MaxGuesses = 4
SPECIFICATION AccountSpec
INVARIANTS AccessIsCurrent GuessesAreSpaced
