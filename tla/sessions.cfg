SPECIFICATION Spec
CONSTANTS
    w1 = w1
    w2 = w2
    Workers <- TwoWorkers
    Moves <- OneMove
    FirstBoards = 2
    MaxBoards = 3
    MaxClients = 2
    MaxRuns = 3
    KeyFates <- KeysMayChange
SYMMETRY WorkerSymmetry
INVARIANTS
    TypeOK
    ClientsCanBeCreated
    CopiesAreIndependent
    TemplatesStayUntouched
    TokensReachTheirBoard
    OnlyKeptKeysLetOldTokensIn
