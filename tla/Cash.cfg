\* Three blocks, the last reward cut, and a reset of the database.
CONSTANTS
    m = m
    a = a
    b = b
    Addrs = {m, a, b}
    Txs <- SomeTxs
    MaxItems = 2
    Self = m
    Workers = {{m, a}}
    Supply = 10
    Reward = 4
    MinFees = {2}
    OtherFees = {2}
    MaxBlocks = 3
    MaxClears = 1
SPECIFICATION Spec
INVARIANTS RewardSchedule Conserved AppliedAsSigned
 
CHECK_DEADLOCK FALSE
