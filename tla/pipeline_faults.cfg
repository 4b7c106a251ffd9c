\* Every disturbance, up to MaxFaults kinds of them.
CONSTANTS
    r1 = r1  r2 = r2  q1 = q1  q2 = q2  q3 = q3  w1 = w1  w2 = w2
    a1 = a1  t1 = t1  t2 = t2
    None = None
    Runs <- OneRun
    Workers = {w1, w2}
    Questions = {q1, q2}
    Texts = {t1, t2}
    Text <- MCText
    Survey <- MCSurvey
    First <- MCFirst
    Audiences = {a1}
    Audience <- MCAudience
    MAX_ATTEMPTS = 2
    FaultKinds = {"db", "llm", "lost", "landed", "ack", "api", "crash"}
    MaxFaults = 2
SPECIFICATION Spec
SYMMETRY WorkerSymmetry
INVARIANTS TypeOK NeverReported ProductsBehindStatus StallHasACause PaidOnce DeadLetterIsFailed
PROPERTIES StatusForward
CHECK_DEADLOCK FALSE
