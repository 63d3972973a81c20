SPECIFICATION SessionLiveSpec
CONSTANTS
    Base = 3
    MaxSize = 10
    MaxAsk = 3
    ArgsOf <- MCArgsOf
INVARIANTS
    WholeDatagrams
    AnswersItsAsk
PROPERTY
    AskReturns
CHECK_DEADLOCK FALSE
