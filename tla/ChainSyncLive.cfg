\* A node that loses and regains its place among the nodes, a fork, a crash,
\* and a vote that settles; disk work is fast.
CONSTANTS
    g = g
    a = a
    b = b
    Zero = Zero
    Blocks = {g, a, b}
    Prev <- ForkPrev
    NodeAt = {g, b}
    Reps = 1
    MaxCrashes = 1
    Timely = TRUE
SPECIFICATION LiveSpec
INVARIANTS NewDiffConsumed ImportedOnDisk
PROPERTY SyncReachesTip
