SPECIFICATION Spec
CONSTANTS
    MaxRequests = 3
    MaxLag = 4
INVARIANT LoggedOutStaysOut
INVARIANT SessionHoldsItsToken
INVARIANT StatusIsTrue
INVARIANT SendsOnce
PROPERTY LateFailuresAreHarmless
PROPERTY Answered
CHECK_DEADLOCK FALSE
