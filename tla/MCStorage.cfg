SPECIFICATION StoreSpec
CONSTANTS
    Accounts = {a1, a2}
    PlayerIds <- MCPlayerIds
    MaxRev = 1
    MaxCrash = 2
    ReadMayFail = FALSE
    NoRow = NoRow
    NoFile = NoFile
    Torn = Torn
INVARIANT AckedKept
PROPERTY AbstractSpec
