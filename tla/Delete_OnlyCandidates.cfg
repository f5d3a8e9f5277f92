CONSTANTS
    r1 = r1  sys = sys  a = a  c1 = c1
    Registrars = {r1, sys}
    SystemRegistrars = {sys}
    InternalRegistrars = {}
    OperationsCharging = TRUE
    AccessTodate <- MCAccess
    Fqdns = {a}
    Contacts = {c1}
    AdminLists = {{}}
    Nssets = {}
    Keysets = {}
    None = None
    Keep = Keep
    ExPeriodMin = 1
    ExPeriodMax = 2
    YearLength = 1
    Periods = {0}
    IsEnum = FALSE
    EnumValidationPeriod = 0
    ContinuationWindow = 0
    RegistrationProtection = 0
    ProhibitionSets = {}
    CreatePrice = 1
    RenewPrice = 1
    Postpaid = TRUE
    InitialCredit = 0
    KeysetClear = TRUE
    MaxDate = 2
    MaxId = 2
    MaxHistory = 3
    MaxOpenCreates = 1
    TypeOptions <- MCTypeOptions
SPECIFICATION CandidatesSpec
PROPERTY OnlyCandidatesAreDeleted
CHECK_DEADLOCK FALSE
