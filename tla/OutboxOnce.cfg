SPECIFICATION Spec
CONSTANTS
    k1 = k1
    k2 = k2
    None = None
    Send = {s1}
    Keyword = {}
    Membership = {v1}
    Encrypted = {s1}
    Want <- WantSame
    Runner = {r1, r2}
    Worker = {w1}
    Refresher = {}
    MaxAttempts = 2
INVARIANT NoReplay
INVARIANT ConfirmedMeansApplied
INVARIANT TerminalMeansNotApplied
PROPERTY Delivery
