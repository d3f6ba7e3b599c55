SPECIFICATION Spec
CONSTANTS
    Requests = {p1, p2, p3}
    t1 = t1
    Tasks = {t1}
    Times = {1, 2}
    MaxTimes = 2
    MaxEarlier = 2
    MaxOpenConns = 2
    PublisherEnabled = TRUE
    Inputs <- MCCancelInputs
    Earlier = Earlier
    Null = Null
SYMMETRY Symmetry
INVARIANT EventListsDeleted
