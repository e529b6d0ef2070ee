SPECIFICATION FairSpec
CONSTANTS
    Messages = {m1}
    NoMessage = NoMessage
    Fds <- TwoFds
    MaxEnds = 0
    MaxRefusals = 0
PROPERTY StopReturns
