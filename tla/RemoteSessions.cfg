SPECIFICATION FairSpec
CONSTANTS
    c1 = c1
    c2 = c2
    c3 = c3
    a1 = a1
    a2 = a2
    None = None
    Connect = {c1, c2, c3}
    Refresh = {r1}
    User = {u1}
    Remote = {a1, a2}
    Offers <- OffersMixed
    Expires = TRUE
    ReadFails = TRUE
    MaxGeneration = 2
INVARIANT StatusMatchesSession
INVARIANT NoLeakedSession
INVARIANT ServesBoundAccount
INVARIANT CapabilityIsActiveSession
PROPERTY DisposeClosesAll
CHECK_DEADLOCK FALSE
