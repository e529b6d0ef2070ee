SPECIFICATION Spec
CONSTANTS
    Messages = {m1, m2}
    NoMessage = NoMessage
    Fds <- TwoFds
    MaxEnds = 1
    MaxRefusals = 1
SYMMETRY MessageSymmetry
INVARIANTS TypeOK SleeperIsWoken DoneIsClean
PROPERTY FifoImplemented
