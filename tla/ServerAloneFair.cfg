SPECIFICATION FairSpec
CONSTANTS
    Peers = {p1, p2}
    Fds <- TwoFds
    Conns = {c1, c2}
    Workers = {w1}
    NoPeer = NoPeer
    NoConn = NoConn
    MaxData = 2
    Resettable = {p1}
PROPERTIES DataIsRead EofIsNoticed StopReturns
