SPECIFICATION AgentSpec
CONSTANTS
    Agent = {a1, a2}
    Session = {s1, s2}
    NoAgent = NoAgent
    NoSession = NoSession
    a1 = a1
    a2 = a2
    s1 = s1
    s2 = s2
    Askings <- MCAskings
    MaxEndings = 1
INVARIANTS
    OverMeansGone
    
PROPERTIES
    WorkspaceKept
    NothingHangs
CHECK_DEADLOCK FALSE
