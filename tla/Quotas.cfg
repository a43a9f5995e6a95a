SPECIFICATION Spec
CONSTANTS
    Tasks = {t1, t2, t3}
    Closers = {c1, c2}
    qa = qa
    qb = qb
    QuotaId = {qa, qb}
    Requests <- QuotaRequests
    MaxActive = 1
    AgingInterval = 1
    MaxPending = 2
    ChannelCapacity = 2
    Retention = 1
    MaxTime = 0
    MaxProbes = 0
    NoQuota = NoQuota
    HealthProbe = HealthProbe
SYMMETRY Symmetric
CHECK_DEADLOCK FALSE
INVARIANTS
    QuotaAccounting
    NoLeakedSlot
    WorkConserving
    ShutdownDrains
PROPERTIES
    ImplementsLimits
