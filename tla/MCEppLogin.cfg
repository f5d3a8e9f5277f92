SPECIFICATION LoginSpec
CONSTANTS
    r1 = r1
    r2 = r2
    t1 = t1
    t2 = t2
    p1 = p1
    p2 = p2
    Registrars <- MCRegistrars
    Languages <- MCLanguages
    Threads <- MCThreads
    Passwords <- MCPasswords
    NoPassword = NoPassword
    max_total_sessions = 2
    max_reg_sessions = 1
    session_timeout_sec = 0
    MaxClock = 1
    MaxLoginId = 2
INVARIANTS
    CountConsistent
    LimitsRespected
    ShutOutRegistrarsHaveNoSession
PROPERTIES
    LoginIdNeverReused
    RefusalsAreByLiveSessions
    SessionsOpenWithCurrentPassword
SYMMETRY Symmetry
