CONSTANTS
    r1 = r1  r2 = r2  s1 = s1  s2 = s2  s3 = s3
    Registrars = {r1, r2}
    Sessions = {s1, s2, s3}
    RegistrarOf <- MCRegistrarOf
    MaxMessages = 2
SPECIFICATION FairSpec
INVARIANTS AcknowledgedOnce OwnMessagesOnly
PROPERTY MessagesAreRead
CHECK_DEADLOCK FALSE
