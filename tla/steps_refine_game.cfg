SPECIFICATION Spec
CONSTANTS
    Width = 3
    Height = 2
    Layouts <- BlockLayouts
    w1 = w1
    w2 = w2
    Workers <- OneWorker
    Requested <- AllEndpoints
    KeepAnswer = TRUE
    KeepHistory = FALSE
PROPERTIES
    ImplementsGame
