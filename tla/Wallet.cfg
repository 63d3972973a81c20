SPECIFICATION Spec
CONSTANTS
    gov = gov
    k1 = k1
    k2 = k2
    x = x
    y = y
    Device <- MCDevice
    Worker <- MCWorker
    w1 = w1
    w2 = w2
    Key <- MCKey
    GovKey = gov
    Rcpt = {"shop"}
    Amount <- MCAmount
    Fee = 1
    SigCodes <- MCSigCodes
    Name <- MCName
    NoName = "empty"
    DefaultName = "my device"
    FirstSeen = "First_seen_device"
    Draft = {}
    Purse <- MCPurse
    Paired <- MCPaired
    None = None
    MaxAsk = 2
    MaxBoot = 2
    MaxLocal = 1
SYMMETRY WorkersAlike
INVARIANTS
    SpendsAsAsked
    RefusedForAReason
    KeptAcrossRestarts
    AnswersTheRequest
CHECK_DEADLOCK FALSE
