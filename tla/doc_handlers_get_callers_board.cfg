SPECIFICATION Spec
CONSTANTS
    w1 = w1
    w2 = w2
    Workers <- TwoWorkers
    Moves <- OneMove
    FirstBoards = 1
    MaxBoards = 2
    MaxClients = 2
    MaxRuns = 2
    KeyFates <- KeysAreKept
SYMMETRY WorkerSymmetry
INVARIANT HandlersGetCallersBoard
