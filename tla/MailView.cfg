SPECIFICATION Spec
CONSTANTS
    InitialDb <- MCInitialDb
    Writes <- MCWrites
    AccountOrder <- MCAccountOrder
    MailboxOrder <- MCMailboxOrder
    MaxClicks = 1
    MaxCommits = 1
    MaxFailures = 2
INVARIANT ShownIsSelected
INVARIANT QuietMeansSettled
INVARIANT QuietMeansFresh
CHECK_DEADLOCK FALSE
