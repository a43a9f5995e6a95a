SPECIFICATION Spec
CONSTANTS
    Tasks = {t1, t2, t3}
    Closers = {}
    qa = qa
    qb = qb
    QuotaId = {qa}
    Requests <- AgingRequests
    MaxActive = 1
    AgingInterval = 1
    MaxPending = 2
    ChannelCapacity = 1
    Retention = 1
    MaxTime = 1
    MaxProbes = 1
    NoQuota = NoQuota
    HealthProbe = HealthProbe
SYMMETRY Symmetric
PROPERTIES
    NoOvertaking
    AgedNotStarved
