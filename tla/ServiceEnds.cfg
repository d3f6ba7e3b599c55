SPECIFICATION FairSpec
CONSTANTS
    Requests = {p1, p2, p3}
    t1 = t1
    Tasks = {t1}
    Times = {1, 2, 3}
    MaxTimes = 2
    MaxEarlier = 0
    MaxOpenConns = 3
    PublisherEnabled = FALSE
    Inputs <- MCRingInputs
    Earlier = Earlier
    Null = Null
PROPERTY EveryRequestEnds
