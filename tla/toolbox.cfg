SPECIFICATION FairSpec
INVARIANTS
    TypeOK
    KeyIsOneComponent
    OutputIsPrefix
    TimeoutIsTold
    SearchesAgree
PROPERTIES
    ReplaceOnlyUnseen
    EveryCallEnds
CONSTANTS
    Calls = {c1, c2}
    Headers <- MCHeaders
    RequireIdentity = FALSE
    Blocked <- MCBlocked
    MaxOutput = 1
    Chunks = {1, 2}
    Asked = {0, 1, 11}
    Answers <- MCAnswers
    MaxSent = 2
    MaxStarts = 2
