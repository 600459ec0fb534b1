CONSTANTS
    Bots <- OneBot
    Background <- OneTask
    Composite = FALSE
    Ttl = 2
    ProbeMax = 1
    MaxAttempts = 2
    MaxOpen = 2
SPECIFICATION Spec
INVARIANTS DisableStopsBots
PROPERTIES GateSawTunnel LoopsGoOn
