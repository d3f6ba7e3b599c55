SPECIFICATION Spec
CONSTANTS
    Requests = {p1, p2, p3}
    t1 = t1
    Tasks = {t1}
    Times = {1, 2}
    MaxTimes = 2
    MaxEarlier = 2
    MaxOpenConns = 2
    PublisherEnabled = TRUE
    Inputs <- MCInputs
    Earlier = Earlier
    Null = Null
SYMMETRY Symmetry
INVARIANTS TypeOK UniqueKey BatchAtomic ThrottleDurable AnnouncedAreGone RemovedStayGone
INVARIANTS RepeatedCreateReturnsExisting InternalErrorsExplained NotFoundStaysGone
INVARIANT RemovedAreAnnounced
