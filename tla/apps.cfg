SPECIFICATION Spec
CONSTANTS
    Producers = {1, 2}
    Requests = {7}
    Minutes = {4, 7}
    MaxFaults = 1
    Sizes = {2}
    MaxPictures = 2
    StartMinute = 5
    SpeedTable = 2
    MaxAnswers <- MCMaxAnswers
CHECK_DEADLOCK FALSE
INVARIANTS
    TypeOK
    PhotoIntact
PROPERTIES
    AnswersAsked
    AnswerCompletes
