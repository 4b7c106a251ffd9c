\* One container that may be restarted, no click.
CONSTANTS
    s1 = s1  s2 = s2  c1 = c1  c2 = c2  b1 = b1  b2 = b2
    SampleOrder <- TwoSamples
    Clicks = {}
    Boots = {b1, b2}
    Clicked <- FirstClicked
SPECIFICATION Spec
CONSTRAINT OneContainer
INVARIANTS BootstrapComplete
CHECK_DEADLOCK FALSE
