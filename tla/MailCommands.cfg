SPECIFICATION Spec
CONSTANTS
    Keys = {1, 2}
    Commands = {c1, c2}
    Drafts = {1}
    Scenes <- MCScenes
SYMMETRY MCSymmetry
INVARIANT CredentialsOwned
INVARIANT BusyMeansWorking
INVARIANT StatusIsSelected
INVARIANT ConfirmedStaysConfirmed
CHECK_DEADLOCK FALSE
