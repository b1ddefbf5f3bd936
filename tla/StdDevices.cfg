SPECIFICATION Spec
CONSTANTS
    MaxCalls <- SomeCalls
    MaxRetries = 2
    MaxGen = 2
    HttpVersions <- SomeVersions
    HTTP_CLIENT_RANGE <- Range1
    Id <- SomeIds
    Key <- OneKey
    LifeTimes <- SomeLives
    Margin = 1
    MaxTime = 6
    Capacity = 2
    Entry <- Numbered
    Empty = Empty
INVARIANTS AnswersAreTrue CrudReachesItsMethod RestFollows TokensAreGood LinesKept CliTidiesUp
PROPERTIES RingIsRecentLog CallsEnd
CHECK_DEADLOCK FALSE
