SPECIFICATION FairSpec
CONSTANTS
    file = file
    keychain = keychain
    Files = {file}
    Keychains = {keychain}
    NoTask = NoTask
    MaxTokens = 3
    MaxFaults = 3
INVARIANTS
    LoginsAreCarried
PROPERTIES
    NothingSpentTwice
    NeverGoesBack
    OthersLoginsStand
    AnswersAreSettled
    LapsedIsRenewed
CHECK_DEADLOCK FALSE
