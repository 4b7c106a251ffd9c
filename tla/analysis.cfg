\* Two precomputes of one run, for every survey of the catalogue.
CONSTANTS
    p1 = p1  p2 = p2
    Starts = {p1, p2}
    Surveys <- AllSurveys
SPECIFICATION Spec
SYMMETRY StartSymmetry
INVARIANTS TypeOK MissingWasCrossed SettledIsWhole LoopsAreForward ScreenerExact
           ScreenerLimits LosesOneRank TighterCellNoEasier
CHECK_DEADLOCK FALSE
