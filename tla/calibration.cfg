\* Two calibrations of a corpus of one survey, for five runs of luck of the statistics.
CONSTANTS
    a = a  b = b
    Starts = {a, b}
    Corpus <- OneSurvey
    BlockSize <- Items
    Findings <- SomeFindings
SPECIFICATION Spec
SYMMETRY StartSymmetry
INVARIANTS TypeOK TallyBalanced LeftoverWasCut AgainOverlapped
CHECK_DEADLOCK FALSE
