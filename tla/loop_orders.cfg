CONSTANTS
    Bots <- OneBot
    Background <- OneTask
    Composite = TRUE
    Ttl = 2
    ProbeMax = 1
    MaxAttempts = 2
    MaxOpen = 2
SPECIFICATION Spec
PROPERTY SignalsReachExecutor
