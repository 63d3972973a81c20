\* A node that loses sync once and makes one local delta; the process may
\* abort, or hang.
CONSTANTS
    d1 = d1
    d2 = d2
    d3 = d3
    None = None
    Dgrams = {d1, d2, d3}
    Key <- KeyOf
    Ts <- TsOf
    Accepted = {d1, d2, d3}
    Refused = {d3}
    Verdicts = {TRUE, FALSE}
    MaxLosses = 1
    MaxResets = 1
    MaxClock = 1
SPECIFICATION LiveSpec
INVARIANT HandledOncePerWindow
PROPERTIES TxOrderEnforced ScheduledIsConsumed
CHECK_DEADLOCK FALSE
