CONSTANTS
    Assets <- TwoAssets
    WsAdapter = {bybit}
    RestAdapter = {}
    DexAdapter = {dex}
    FreshFor = 1
    MaxBackoff = 2
    MaxWsRetries = 1
SPECIFICATION Spec
INVARIANTS TypeOK  ReconnectBound HealthIsEarned
PROPERTIES Recovers StopQuiets
