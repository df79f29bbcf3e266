SPECIFICATION FairSpec
CONSTANTS
    Call = {c1, c2}
    None = None
    Utterances <- SomeUtterances
    Wanted <- SomeWanted
    Changes <- SomeChanges
    RecentLimit = 1
INVARIANTS TypeOK OnlyReadsDispatched AnswersFitRuns VoiceShowsTruth
PROPERTIES CommandsAnswered
