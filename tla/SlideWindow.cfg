SPECIFICATION Spec
CONSTANTS
    Second = 1000
    Times <- MCTimes
    MaxTimes = 3
INVARIANTS TypeOK NoPanic WidthsOfTheSet WindowEndsBeforeNext StoredWidthIsReadable
