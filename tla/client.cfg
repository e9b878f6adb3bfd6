SPECIFICATION FairPlaySpec
CONSTANTS
    Width = 3
    Height = 1
    Layouts <- StripLayouts
    MaxLosses = 2
INVARIANTS
    ClientTypeOK
    PictureIsTrue
    PictureDiffersByLosses
    WinShownMeansNoBoom
    LoseShownAfterLossOnly
    EndIsNoticed
PROPERTIES
    KeysAreDealtWith
CHECK_DEADLOCK FALSE
