SPECIFICATION FairSpec
CONSTANTS
    k1 = k1
    k2 = k2
    None = None
    Send = {}
    Keyword = {k1}
    Membership = {}
    Encrypted = {}
    Want <- WantSame
    Runner = {r1}
    Worker = {}
    Refresher = {u1}
    MaxAttempts = 2
PROPERTY RunTerminates
