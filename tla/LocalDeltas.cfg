\* stage4 may overtake workers; the process may abort.
CONSTANTS
    p = p
    q = q
    p1 = p1
    p2 = p2
    q1 = q1
    e1 = e1
    Self = Self
    Own = Own
    Dgrams = {p1, p2, q1, e1}
    Pub <- PubOf
    MaxPools = 3
SPECIFICATION PoolSpec
INVARIANTS RelaysBounded OneDeltaPerPubkey ProofOfWorkMatches
CHECK_DEADLOCK FALSE
