SPECIFICATION Spec
CONSTANTS
    Job = {j1, j2}
    Worker = {w1, w2}
    Producer = Producer
    MaxTries = 2
    Settings <- MCSettings
    Schedule = {x1, x2}
    FireNow = {x1}
    Chain = {c1, c2}
    Manual = Manual
    NoRun = NoRun
    Scopes <- MCScopes
    Event = {e1, e2, e3, e4}
    BatchSize = 2
    MaxQueueSize = 2
    MaxStorageFaults = 2
    Entity = {n1, n2, n3}
    Relationships <- MCRelationships
    Sender = {a, b}
    MaxMessages = 2
    MaxReadFaults = 1
    MaxStops = 1
    Tenant = {t1, t2}
    Subscriber = {s1}
    Everyone = Everyone
    Wants <- MCWants
    Capacity = 2
    ReplayBatch = 1
    MaxEvents = 3
    Login = {la, lb}
    NoLogin = NoLogin
    DefaultLogin = ld
    TenantChannel <- MCTenantChannel
    PageChannel = {page, approvals}
    Admits <- MCAdmits
    MaxSockets = 3
    Cases <- MCCases
    Key = {k1, k2, k3}
    Scenarios <- MCScenarios
    Rules <- MCRules
    PropagationDelay = 1
    AgentId = {a1, a2}
    NoAgent = NoAgent
    NoTeam = NoTeam
    Contexts <- MCContexts
    NoContext = NoContext
    AclEntry <- MCAclEntry
    Errands <- MCErrands
    Seconds = {30}
    MaxStreak = 2
    MaxActive = 2
    MinSample = 3
    Plans <- MCPlans
    a1 = a1
    a2 = a2
    u1 = u1
    u2 = u2
    u3 = u3
    team = team
    w1 = w1
    w2 = w2
    j1 = j1
    j2 = j2
    x1 = x1
    x2 = x2
    c1 = c1
    c2 = c2
    n1 = n1
    n2 = n2
    n3 = n3
    t1 = t1
    t2 = t2
    s1 = s1
    la = la
    lb = lb
    ld = ld
    page = page
    approvals = approvals
    k1 = k1
    k2 = k2
    k3 = k3
INVARIANTS
    NeverForgotten
    OneRunPerLease
    OccurrenceOnce
    ChainExplained
    IndexInStep
    QueriesSound
    OneHandle
    RowKeepsUp
    DeliveryInOrder
    ConnectionKept
    
    RegistryServes
PROPERTIES
    PromiseKept
    EveryJobEnds
    EveryAppendAnswered
CHECK_DEADLOCK FALSE
