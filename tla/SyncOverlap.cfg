SPECIFICATION Spec
CONSTANTS
    None = None
    Emails = {e1, e2}
    Mailboxes = {m1}
    Syncs = {s1, s2}
    Fetches = {f1}
    BatchSize = 1
    MaxDeltaPages = 2
    MaxChanges = 2
    MaxFolders = 1
SYMMETRY Symmetry
INVARIANT NoLostChange
INVARIANT RefreshIsFresh
INVARIANT CachesOwned
PROPERTY CursorNeverRegresses
PROPERTY BodiesOutliveRefresh
