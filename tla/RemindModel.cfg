SPECIFICATION Spec
CONSTANTS
    Micro = 2
    Second = 2
    Tolerance = 1
    MaxClock = 4
    Bodies <- MCBodies
    Widths <- MCWidths
    Updaters = {u1, u2}
    Null = Null
INVARIANTS TypeOK RowsAreReadable AnswersAgree RetrySucceeds
PROPERTIES UpdatedAtOfItsUpdate InternalErrorStoresNothing
