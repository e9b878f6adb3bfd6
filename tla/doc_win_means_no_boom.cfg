SPECIFICATION Spec
CONSTANTS
    Width = 3
    Height = 3
    Layouts <- SquareLayouts
INVARIANT WinMeansNoBoom
