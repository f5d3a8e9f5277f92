CONSTANTS
    r1 = r1  sys = sys  a = a  c1 = c1
    Registrars = {r1, sys}
    SystemRegistrars = {sys}
    InternalRegistrars = {}
    OperationsCharging = TRUE
    AccessTodate <- MCAccess
    Fqdns = {a}
    Contacts = {c1}
    AdminLists = {{}}
    Nssets = {}
    Keysets = {}
    None = None
    Keep = Keep
    ExPeriodMin = 1
    ExPeriodMax = 2
    YearLength = 1
    Periods = {0}
    IsEnum = TRUE
    EnumValidationPeriod = 1
    ContinuationWindow = 1
    RegistrationProtection = 0
    ProhibitionSets <- MCProhibitions
    CreatePrice = 1
    RenewPrice = 1
    Postpaid = FALSE
    InitialCredit = 3
    KeysetClear = TRUE
    MaxDate = 3
    MaxId = 2
    MaxHistory = 3
    MaxOpenCreates = 2
    TypeOptions <- MCTypeOptions
SPECIFICATION CandidatesSpec
INVARIANTS HorizonsHold PaidPeriodsTile CreditMatchesCharges RetriedRenewalIsRefused ChangesAreAnnounced
PROPERTIES LaterRegistrationsSurvive FrozenDomainsStay
CHECK_DEADLOCK FALSE
