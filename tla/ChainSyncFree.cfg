\* A node that makes blocks; all threads interleave freely.
CONSTANTS
    g = g
    a = a
    b = b
    Zero = Zero
    Blocks = {g, a}
    Prev <- LinePrev
    NodeAt = {g, a}
    Reps = 2
    MaxCrashes = 0
    Timely = FALSE
SPECIFICATION Spec
INVARIANT LedgerIsChain
PROPERTY ImplementsLedger
