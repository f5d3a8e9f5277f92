SPECIFICATION Spec
CONSTANTS
    r1 = r1
    r2 = r2
    admin = admin
    cron = cron
    NoRegistrar = NoRegistrar
    Registrars <- MCOneRegistrar
    Callers <- MCCallers
    MonthLength = 3
    MaxClock = 8
    MaxRecords = 4
PROPERTIES
    BlockingImplementsPromise
