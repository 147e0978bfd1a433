SPECIFICATION Spec
CONSTANTS
    Names = {a, d, t}
    Dotted = {d}
    TwoDots = {t}
    MaxDepth = 6
    Dates <- MCDates
    ShortDates <- MCShortDates
    Times <- MCTimes
    Junk <- MCJunk
CONSTRAINT Bounded
INVARIANTS TypeOK PointerAtEnd CurrentFolderExists ClockValid ShownIsClock ChosenIsShown
