SPECIFICATION Spec
CONSTANTS
    p1 = p1
    p2 = p2
    w1 = w1
    w2 = w2
    Peers = {p1, p2}
    Remote = p1
    Workers = {w1, w2}
    Programs = {"server"}
    BufferHalves = 4
    Kind <- MCKind
    MaxWritten <- MCMaxWritten
    NumMessages <- MCNumMessages
    ReplyHalves = 5
PROPERTY WholeMessageProcessed
\* The programs end.
CHECK_DEADLOCK FALSE
