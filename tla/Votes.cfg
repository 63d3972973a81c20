\* A loop of nodes that relay votes to each other and to a peer in the hall.
CONSTANTS
    n1 = n1
    n2 = n2
    n3 = n3
    h1 = h1
    Peers = {n1, n2, n3, h1}
    Nodes = {n1, n2, n3}
    Edges <- Kite
    Hashes = {2, 4}
SPECIFICATION Spec
INVARIANT ElectsTheWinner
PROPERTY FloodShrinks
