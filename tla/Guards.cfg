SPECIFICATION FairSpec
CONSTANTS
    u1 = u1
    u2 = u2
    m1 = m1
    m2 = m2
    m3 = m3
    w1 = w1
    w2 = w2
    free = free
    beta = beta
    Users = {u1,u2}
    Messages = {m1,m2,m3}
    Nobody = nobody
    Sender <- Senders
    Waves = {w1,w2}
    Policies <- Configs
    Plans = {free,beta}
    Free = free
    DefaultPlan = beta
    MediaLimit <- Limits
    Enforced = TRUE
    MinuteTicks = 1
    HourTicks = 2
    MessagesPerMinute = 1
    MessagesPerHour = 2
    MediaPerHour = 1
    CooldownBase = 1
    CooldownMax = 2
    NoticeInterval = 1
    FailureThreshold = 2
    CircuitCooldown = 1
    MaxNow = 1
    MaxRuns = 2
    Scenes <- Openings
    Grants <- Changes
    MaxEvents = 1
INVARIANTS DeletedMeansErased WindowsHold TrippedMeansFailing
PROPERTIES SeatsWithinCapacity QuotaKept TurnsEnd
CHECK_DEADLOCK FALSE
