\* One request at a time over every provider; answers of up to three lines.
CONSTANTS
    Conversations <- MCConversations
    Ids <- MCIds
    MaxLines = 3
    MaxAhead = 2
    MaxIterations = 2
SPECIFICATION FairSpec
INVARIANTS StreamWellFormed AnswerIsTheModels CallsSurvive PromptReachesModel
PROPERTIES EveryRequestReturns
