\* Two workers, one run, one XACK that raises.
CONSTANTS
    r1 = r1  r2 = r2  q1 = q1  q2 = q2  q3 = q3  w1 = w1  w2 = w2
    a1 = a1  t1 = t1  t2 = t2
    None = None
    Runs <- OneRun
    Workers = {w1, w2}
    Questions = {q1}
    Texts = {t1, t2}
    Text <- MCText
    Survey <- MCSurvey
    First <- MCFirst
    Audiences = {a1}
    Audience <- MCAudience
    MAX_ATTEMPTS = 3
    FaultKinds = {"ack"}
    MaxFaults = 1
SPECIFICATION Spec
PROPERTIES FailedIsFinal
CHECK_DEADLOCK FALSE
