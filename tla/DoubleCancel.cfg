SPECIFICATION Spec
CONSTANTS
    Requests = {p1, p2}
    t1 = t1
    Tasks = {t1}
    Times = {1, 2}
    MaxTimes = 2
    MaxEarlier = 2
    MaxOpenConns = 2
    PublisherEnabled = TRUE
    Inputs <- MCDoubleInputs
    Earlier = Earlier
    Null = Null
INVARIANT EventMeansDeletion
