SPECIFICATION Spec
CONSTANTS
    r1 = r1
    r2 = r2
    admin = admin
    cron = cron
    NoRegistrar = NoRegistrar
    Registrars <- MCOneRegistrar
    Callers <- MCCallers
    MonthLength = 2
    MaxClock = 5
    MaxRecords = 4
INVARIANT
    RecordsDontOverlap
