\* Two runs of one audience that have a question in common; only the first is tried again.
CONSTANTS
    r1 = r1  r2 = r2  c1 = c1  c2 = c2
    q1 = q1  q2 = q2  t1 = t1  t2 = t2
    Runs = {r1, r2}
    Questions = {q1, q2}  Texts = {t1, t2}
    Text <- MCText  Annotated = {t2}
    Survey <- MCSurvey  Probed <- MCProbed
    Cells = {c1}
    MAX_RETRIES = 2
    MAX_ATTEMPTS = 2
    Fragile = {r1}
    None = None  Hand = Hand
SPECIFICATION Spec
CONSTRAINT SecondTriesOnce
INVARIANTS TypeOK OnePool WordsAgree LedgerGap
CHECK_DEADLOCK FALSE
