SPECIFICATION Spec
CONSTANTS
    Width = 3
    Height = 3
    Layouts <- SquareLayouts
INVARIANTS
    TypeOK
    FlagDiscipline
    WinMeansSolved
    FullyRevealedMeansSolved
PROPERTIES
    ZerosAreOpenedAround
    OnlyMisflaggedChordOpensMine
    AnswersTellTheDifference
