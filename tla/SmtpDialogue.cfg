SPECIFICATION SmtpSpec
CONSTANTS
    MaxRecipients = 2
    MaxAttempts = 3
INVARIANT DeliveredAtMostOnce
INVARIANT KnownMeansNotApplied
CHECK_DEADLOCK FALSE
