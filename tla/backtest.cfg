CONSTANTS
    Market <- Moves
    Bars = 4
    Warmup = 2
    Recent = 2
    Initial = 1150
    Gas = 100
    Slippage = 50
    Commission = 2
    Accepted <- Signals
    Windows = 2
    Iterations = 2
    Pairs = 2
SPECIFICATION Spec
INVARIANTS DebtIsOneGas MetricsMatch OutOfSampleRepeats ShufflesAgree
