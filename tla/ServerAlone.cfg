SPECIFICATION Spec
CONSTANTS
    Peers = {p1, p2, p3}
    Fds <- TwoFds
    Conns = {c1, c2, c3}
    Workers = {w1}
    NoPeer = NoPeer
    NoConn = NoConn
    MaxData = 1
    Resettable = {p1, p2, p3}
SYMMETRY Symmetry
INVARIANTS NoDangling TableAgrees NoMissedEdge StopClosesAll
PROPERTIES OnlyDisconnectedClosed SessionsImplemented
