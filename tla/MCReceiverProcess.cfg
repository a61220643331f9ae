SPECIFICATION FairSpec
CONSTANTS
    MaxStarts = 2
    MaxAsks = 2
CHECK_DEADLOCK FALSE
INVARIANTS
    NoAnswerAstray
    AnnouncedIsOpen
    FoundWhileServing
PROPERTIES
    QuestionsAreAnswered
    ExceptionEnds
