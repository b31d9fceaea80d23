SPECIFICATION Spec
CONSTANTS
    Keys = {1, 2}
    Commands = {c1, c2}
    Drafts = {1}
    Scenes <- MCScenes
SYMMETRY MCSymmetry
INVARIANT SentAsComposed
CHECK_DEADLOCK FALSE
