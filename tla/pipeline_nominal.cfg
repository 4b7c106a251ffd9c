\* No disturbance: two runs, two workers; the questions of r1 have one id.
CONSTANTS
    r1 = r1  r2 = r2  q1 = q1  q2 = q2  q3 = q3  w1 = w1  w2 = w2
    a1 = a1  t1 = t1  t2 = t2
    None = None
    Runs <- TwoRuns
    Workers = {w1, w2}
    Questions = {q2, q3}
    Texts = {t1, t2}
    Text <- MCText
    Survey <- MCSurvey
    First <- MCFirst
    Audiences = {a1}
    Audience <- MCAudience
    MAX_ATTEMPTS = 2
    FaultKinds = {}
    MaxFaults = 0
SPECIFICATION FairSpec
INVARIANTS NeverReported PaidOnce
PROPERTIES Implements UploadSettles
CHECK_DEADLOCK FALSE
