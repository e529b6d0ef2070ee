SPECIFICATION FairSpec
CONSTANTS
    Messages = {m1}
    NoMessage = NoMessage
    Fds <- TwoFds
    MaxEnds = 1
    MaxRefusals = 1
PROPERTIES QueueDrains StopReturnsAwake
