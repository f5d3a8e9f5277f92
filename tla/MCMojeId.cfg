CONSTANTS
    Trans = {t1, t2}
    MaxCalls = 4
    AutoPin3 = TRUE
    Changes <- OneChangeEach
SPECIFICATION Spec
INVARIANTS
    AccountsAreSound
    ValidatedContactsAreAccounts
    VerifiedDataAreCurrent
PROPERTIES
    LetterMatchesAddress
    AccountsAreIdentified
CHECK_DEADLOCK FALSE
