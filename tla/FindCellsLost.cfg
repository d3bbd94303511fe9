CONSTANTS
    Horizon = 3
    Year = 1
    None = None
    SampleRows = 4
    MonthsPerYear = 2
    Dims = 2
    N_LEVELS = 2
SPECIFICATION Spec
INVARIANT CellsUnderTheirHeading
CHECK_DEADLOCK FALSE
