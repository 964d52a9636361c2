SPECIFICATION TaskSpec
CONSTANTS
    Task = {t1, t2, t3}
    MaxRetries = 1
    MaxRetryCalls = 1
    MaxLinks = 2
    Asked = {"BACKLOG", "PLANNED", "QUEUED", "VERIFYING"}
INVARIANTS
    GraphSound
    StartsAfterPrerequisites
    OrderSound
PROPERTIES
    CompletionWakes
    RetryEnds
CHECK_DEADLOCK FALSE
