SPECIFICATION FairSpec
CONSTANTS
    m1 = m1
    m2 = m2
    m3 = m3
    w1 = w1
    w2 = w2
    Idle = Idle
    Monitors = {m1, m2}
    Workers = {w1}
    Delays = {1}
    Spreads = {0}
    MaxSleep = 2
    Horizon = 1
    MaxStarts = 1
    MayRaise = TRUE
PROPERTY DueIsCollected
