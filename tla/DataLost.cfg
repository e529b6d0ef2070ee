SPECIFICATION FairSpec
CONSTANTS
    Peers = {p1}
    Fds <- OneFd
    Conns = {c1, c2, c3}
    Workers = {w1, w2}
    NoPeer = NoPeer
    NoConn = NoConn
    MaxData = 1
    Resettable = {}
PROPERTY DataIsRead
