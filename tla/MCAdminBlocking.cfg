SPECIFICATION FairSpec
CONSTANTS
    Domains = {d1, d2}
    MaxRequests = 1
    MaxOps = 4
    Runs = {r1}
    Handles <- TwoHandles
    MojeIdHandles <- OneMojeId
    StatusLists <- Lists
    MaxDay = 1
    Base = 2
    CopyIndexLimit = 4
INVARIANTS OwnLocksSurvive NoUpdateLockAlone TypeOK CopiesAreNew
PROPERTIES HoldersAreUnblocked SiblingsStayProtected ResolvedRequestsAreProcessed
CHECK_DEADLOCK FALSE
