SPECIFICATION Spec
CONSTANTS
    Base = 16
    Width = 2
    Nesting = 4
    Names <- MCNames
    play = play
    create = create
    huge = huge
    Resources = {play, create, huge}
    Declared <- MCDeclared
    RawValues <- MCRawValues
    Results <- MCResults
    InitialCapacity = 16
    MaxCapacity = 64
    OutputCapacity = 40
INVARIANTS
    HandlerSeesItsParameters
    AnswersAreWhole
    HandledOnceIfAtAll
