SPECIFICATION Spec
CONSTANTS
    a = a
    b = b
    Account <- MCAccount
    Sys = sys
    Weak = weak
    Strong = strong
    One = 2
    Rate <- MCRate
    Sample <- MCSample
    RefRate = 4
    FrontBudget = 6
    Dist <- MCDist
    Increment = 1
    Rulers <- MCRulers
    Amount <- MCAmount
    Credit <- MCCredit
    CommDen = 4
    CommMin = 1
    AutoMatchFree = TRUE
    MaxOrder = 3
    MaxDeposit = 2
    MaxBoot = 1
    MaxRequest = 3
SYMMETRY Symmetry
INVARIANTS
    Reconciles
    IndexesAgree
    FilesAreCurrent
PROPERTIES
    ServedInOrder
    TradesMeet
CHECK_DEADLOCK FALSE
