SPECIFICATION RFairSpec
CONSTANTS
    Requests = {p1, p2}
    t1 = t1
    Tasks = {t1}
    Times = {1, 2}
    MaxTimes = 2
    MaxEarlier = 1
    MaxOpenConns = 2
    PublisherEnabled = TRUE
    Inputs <- MCRetryInputs
    MaxFailures = 2
    Earlier = Earlier
    Null = Null
INVARIANT ClientKnowsItsReminds
PROPERTIES EveryRequestSettles StoreSpec
