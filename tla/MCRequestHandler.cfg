CONSTANTS
    NumRequests = 3
    MaxContinues = 2
    HasContinueTimer = TRUE
SPECIFICATION FairSpec
INVARIANTS
    TypeOK
    AnswersInOrder
    NothingUnanswered
    WorkWakesTask
PROPERTIES
    EndIsSignalled
    EveryRequestTaken
CHECK_DEADLOCK FALSE
