SPECIFICATION Spec
CONSTANTS
    Width = 3
    Height = 1
    Layouts <- StripLayouts
    w1 = w1
    w2 = w2
    Workers <- TwoWorkers
    Requested <- CellRequests
    KeepAnswer = FALSE
    KeepHistory = FALSE
SYMMETRY WorkerSymmetry
INVARIANT FlagsNeverExceedMines
