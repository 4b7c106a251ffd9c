\* Two samples, a click and two overlapping container starts.
CONSTANTS
    s1 = s1  s2 = s2  c1 = c1  c2 = c2  b1 = b1  b2 = b2
    SampleOrder <- TwoSamples
    Clicks = {c1}
    Boots = {b1, b2}
    Clicked <- FirstClicked
SPECIFICATION Spec
SYMMETRY RequestSymmetry
INVARIANTS TypeOK TwinsOverlapped UnreportedIsTorn
PROPERTIES CanonicalMovesByOverlap ImplementsRow
CHECK_DEADLOCK FALSE
