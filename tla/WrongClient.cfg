SPECIFICATION Spec
CONSTANTS
    Peers = {p1, p2}
    Fds <- TwoFds
    Conns = {c1, c2, c3, c4}
    Workers = {w1, w2}
    NoPeer = NoPeer
    NoConn = NoConn
    MaxData = 1
    Resettable = {}
SYMMETRY Symmetry
PROPERTY OnlyDisconnectedClosed
