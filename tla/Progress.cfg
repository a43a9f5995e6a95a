SPECIFICATION FairSpec
CONSTANTS
    Tasks = {t1, t2, t3}
    Closers = {c1}
    qa = qa
    qb = qb
    QuotaId = {qa, qb}
    Requests <- OneRequest
    MaxActive = 1
    AgingInterval = 1
    MaxPending = 1
    ChannelCapacity = 1
    Retention = 1
    MaxTime = 0
    MaxProbes = 0
    NoQuota = NoQuota
    HealthProbe = HealthProbe
CHECK_DEADLOCK FALSE
PROPERTIES
    AcquireReturns
    ShutdownReturns
    QueueEmpties
