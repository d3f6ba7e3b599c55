SPECIFICATION FairSpec
CONSTANT MaxInFlight = 1
PROPERTY SignalStopsServer
