SPECIFICATION FairSpec
CONSTANT MaxInFlight = 2
INVARIANTS TypeOK PublisherClosedOnce ReleasedAtExit DatabaseOutlivesHandlers
PROPERTY FailedServerExits
